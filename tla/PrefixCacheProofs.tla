--------------------------- MODULE PrefixCacheProofs ---------------------------
(***************************************************************************)
(* Proofs about the prefix cache models of                                 *)
(* src/adapter_cache_bench/cache/: the blocks of a request, the inductive  *)
(* invariant CacheInv, and the invariants of PrefixCache that follow from  *)
(* it.  PrefixTable's operations are in DataLemmas.                        *)
(***************************************************************************)
EXTENDS PrefixCache, DataLemmas

-------------------------------------------------------------------------------
(* The loops over the blocks of a request *)

\* The loop of contains over the blocks of a request.
Looked(t, s) == FoldLeft(contains, t, s)

\* The loop of add over the blocks of a request.
Added(t, s, budget) == FoldLeft(LAMBDA u, b : add(u, b, budget), t, s)

\* The loop of contains passes through good tables.
LEMMA LookupRun ==
    ASSUME NEW B, BlockSet(B), NEW t \in Good(B), NEW s \in Seq(B)
    PROVE  \E run \in [0 .. Len(s) -> Good(B)] :
              /\ run[0] = t
              /\ \A k \in 1 .. Len(s) : run[k] = contains(run[k - 1], s[k])
              /\ Looked(t, s) = run[Len(s)]
<1> DEFINE n == Len(s)
           D == DOMAIN s
           Is(f) == f = [i \in SUBSET D |-> IF i = {} THEN t
                                            ELSE contains(f[i \ {Max(i)}], s[Max(i)])]
           fold == CHOOSE f : Is(f)
           G == [p \in (1 .. n) \X Good(B) |-> contains(p[2], s[p[1]])]
<1>1. D = 1 .. n /\ n \in Nat /\ \A i \in 1 .. n : s[i] \in B
    BY LenProperties, ElementOfSeq
<1>2. Looked(t, s) = fold[D]
    BY Zenon DEF Looked, FoldLeft, MapThenFoldSet
<1> HIDE DEF n, D
<1>3. \A i \in 1 .. n, x \in Good(B) : G[<<i, x>>] = contains(x, s[i])
    OBVIOUS
<1> HIDE DEF G
<1>4. IsLeftFold(n, Good(B), t, G)
  <2>1. \A u \in Good(B), b \in B : contains(u, b) \in Good(B)
      BY ContainsKeeps
  <2>2. QED
      BY <1>1, <1>3, <2>1 DEF IsLeftFold
<1>5. Is(fold)
  <2>1. PICK g \in [SUBSET (1 .. n) -> Good(B)] : SolvesLeft(g, n, t, G)
      BY <1>4, FoldLeftRecursion
  <2>2. ASSUME NEW i \in SUBSET (1 .. n)
        PROVE  g[i] = IF i = {} THEN t ELSE contains(g[i \ {Max(i)}], s[Max(i)])
    <3>1. g[i \ {Max(i)}] \in Good(B)
        OBVIOUS
    <3>2. i # {} => Max(i) \in 1 .. n
        BY <1>1, MaxOfIndices
    <3>3. QED
        BY <1>3, <2>1, <3>1, <3>2 DEF SolvesLeft
  <2>3. Is(g)
      BY <1>1, <2>2
  <2>4. QED
      BY <2>3
<1>6. \A i \in SUBSET D : fold[i] = IF i = {} THEN t ELSE contains(fold[i \ {Max(i)}], s[Max(i)])
    BY <1>5
<1> HIDE DEF fold
<1>7. fold[{}] = t
    BY <1>6
<1>8. ASSUME NEW k \in 1 .. n, fold[1 .. (k - 1)] \in Good(B)
      PROVE  fold[1 .. k] = G[<<k, fold[1 .. (k - 1)]>>]
  <2>1. 1 .. k \in SUBSET D /\ 1 .. k # {} /\ Max(1 .. k) = k /\ (1 .. k) \ {k} = 1 .. (k - 1)
      BY <1>1, FoldLeftStep
  <2>2. fold[1 .. k] = contains(fold[1 .. (k - 1)], s[k])
      BY <2>1, <1>6
  <2>3. QED
      BY <2>2, <1>3, <1>8
<1>9. PICK run \in [0 .. n -> Good(B)] : IsRun(run, n, t, G) /\ run[n] = fold[1 .. n]
    BY <1>4, <1>7, <1>8, FoldLeftRun
<1>10. \A k \in 1 .. n : run[k] = contains(run[k - 1], s[k])
  <2>1. \A k \in 1 .. n : run[k - 1] \in Good(B)
      BY <1>1
  <2>2. QED
      BY <2>1, <1>3, <1>9 DEF IsRun
<1>11. QED
    BY <1>1, <1>2, <1>9, <1>10 DEF n, IsRun

\* The loop of add passes through good tables.
LEMMA AddRun ==
    ASSUME NEW B, BlockSet(B), NEW t \in Good(B), NEW s \in Seq(B),
           NEW budget, budget = NoBudget \/ budget \in Nat
    PROVE  \E run \in [0 .. Len(s) -> Good(B)] :
              /\ run[0] = t
              /\ \A k \in 1 .. Len(s) : run[k] = add(run[k - 1], s[k], budget)
              /\ Added(t, s, budget) = run[Len(s)]
<1> DEFINE n == Len(s)
           D == DOMAIN s
           Is(f) == f = [i \in SUBSET D |-> IF i = {} THEN t
                                            ELSE add(f[i \ {Max(i)}], s[Max(i)], budget)]
           fold == CHOOSE f : Is(f)
           G == [p \in (1 .. n) \X Good(B) |-> add(p[2], s[p[1]], budget)]
<1>1. D = 1 .. n /\ n \in Nat /\ \A i \in 1 .. n : s[i] \in B
    BY LenProperties, ElementOfSeq
<1>2. Added(t, s, budget) = fold[D]
    BY Zenon DEF Added, FoldLeft, MapThenFoldSet
<1> HIDE DEF n, D
<1>3. \A i \in 1 .. n, x \in Good(B) : G[<<i, x>>] = add(x, s[i], budget)
    OBVIOUS
<1> HIDE DEF G
<1>4. IsLeftFold(n, Good(B), t, G)
  <2>1. \A u \in Good(B), b \in B : add(u, b, budget) \in Good(B)
      BY AddKeeps
  <2>2. QED
      BY <1>1, <1>3, <2>1 DEF IsLeftFold
<1>5. Is(fold)
  <2>1. PICK g \in [SUBSET (1 .. n) -> Good(B)] : SolvesLeft(g, n, t, G)
      BY <1>4, FoldLeftRecursion
  <2>2. ASSUME NEW i \in SUBSET (1 .. n)
        PROVE  g[i] = IF i = {} THEN t ELSE add(g[i \ {Max(i)}], s[Max(i)], budget)
    <3>1. g[i \ {Max(i)}] \in Good(B)
        OBVIOUS
    <3>2. i # {} => Max(i) \in 1 .. n
        BY <1>1, MaxOfIndices
    <3>3. QED
        BY <1>3, <2>1, <3>1, <3>2 DEF SolvesLeft
  <2>3. Is(g)
      BY <1>1, <2>2
  <2>4. QED
      BY <2>3
<1>6. \A i \in SUBSET D : fold[i] = IF i = {} THEN t ELSE add(fold[i \ {Max(i)}], s[Max(i)], budget)
    BY <1>5
<1> HIDE DEF fold
<1>7. fold[{}] = t
    BY <1>6
<1>8. ASSUME NEW k \in 1 .. n, fold[1 .. (k - 1)] \in Good(B)
      PROVE  fold[1 .. k] = G[<<k, fold[1 .. (k - 1)]>>]
  <2>1. 1 .. k \in SUBSET D /\ 1 .. k # {} /\ Max(1 .. k) = k /\ (1 .. k) \ {k} = 1 .. (k - 1)
      BY <1>1, FoldLeftStep
  <2>2. fold[1 .. k] = add(fold[1 .. (k - 1)], s[k], budget)
      BY <2>1, <1>6
  <2>3. QED
      BY <2>2, <1>3, <1>8
<1>9. PICK run \in [0 .. n -> Good(B)] : IsRun(run, n, t, G) /\ run[n] = fold[1 .. n]
    BY <1>4, <1>7, <1>8, FoldLeftRun
<1>10. \A k \in 1 .. n : run[k] = add(run[k - 1], s[k], budget)
  <2>1. \A k \in 1 .. n : run[k - 1] \in Good(B)
      BY <1>1
  <2>2. QED
      BY <2>1, <1>3, <1>9 DEF IsRun
<1>11. QED
    BY <1>1, <1>2, <1>9, <1>10 DEF n, IsRun

\* The last k blocks of the table are the first k of s.
EndsWith(t, s, k) ==
    /\ k <= Len(t.blocks)
    /\ \A i \in 1 .. k : t.blocks[(Len(t.blocks) - k) + i] = s[i]

\* A block that follows the first k - 1 of s in s follows them in the table,
\* unless s is too large for the budget.
LEMMA AddEnds ==
    ASSUME NEW B, BlockSet(B), NEW t \in Good(B), NEW s \in Seq(B),
           \A i, j \in 1 .. Len(s) : s[i].key = s[j].key => i = j,
           NEW budget, budget = NoBudget \/ (budget \in Nat /\ TokensOf(s) <= budget),
           NEW k \in 1 .. Len(s), EndsWith(t, s, k - 1)
    PROVE  EndsWith(add(t, s[k], budget), s, k)
<1> DEFINE l == t.blocks
           n == Len(l)
           b == s[k]
           u == add(t, b, budget)
<1>1. /\ t \in Tables(B) /\ KeysDiffer(t) /\ l \in Seq(B) /\ n \in Nat
      /\ \A i \in 1 .. n : l[i] \in B
    BY GoodFacts
<1>2. /\ Len(s) \in Nat /\ k \in Nat /\ k >= 1 /\ b \in B
      /\ \A i \in 1 .. Len(s) : s[i] \in B
    BY LenProperties, ElementOfSeq
<1>3. \A e \in B : e.token_count \in Nat
    BY DEF BlockSet
<1>4. k - 1 <= n /\ \A i \in 1 .. k - 1 : l[(n - (k - 1)) + i] = s[i]
    BY DEF EndsWith
<1>5. /\ SubSeq(s, 1, k) \in Seq(B) /\ Len(SubSeq(s, 1, k)) = k
      /\ \A i \in 1 .. k : SubSeq(s, 1, k)[i] = s[i]
    BY <1>2, PrefixFacts
<1>6. ASSUME budget # NoBudget
      PROVE  budget \in Nat /\ TokensOf(SubSeq(s, 1, k)) <= budget /\ b.token_count <= budget
  <2>1. budget \in Nat /\ TokensOf(s) <= budget
      BY <1>6
  <2>2. /\ TokensOf(SubSeq(s, 1, k)) \in Nat
        /\ TokensOf(SubSeq(s, k + 1, Len(s))) \in Nat
        /\ TokensOf(s) = TokensOf(SubSeq(s, 1, k)) + TokensOf(SubSeq(s, k + 1, Len(s)))
      BY <1>2, <1>3, TokensOfSplit
  <2>3. /\ SubSeq(s, 1, k) = Append(SubSeq(s, 1, k - 1), b)
        /\ SubSeq(s, 1, k - 1) \in Seq(B)
      BY PrefixOneMore
  <2>4. TokensOf(SubSeq(s, 1, k)) = TokensOf(SubSeq(s, 1, k - 1)) + b.token_count
      BY <2>3, <1>2, <1>3, TokensOfAppend
  <2>5. TokensOf(SubSeq(s, 1, k - 1)) \in Nat /\ b.token_count \in Nat
      BY <2>3, <1>2, <1>3, TokensAreNatural
  <2> HIDE DEF b
  <2>6. QED
      BY <2>1, <2>2, <2>4, <2>5
<1>7. ~(budget # NoBudget /\ b.token_count > budget)
    BY <1>2, <1>3, <1>6
<1> HIDE DEF n, b, u
<1>8. CASE b.key \in Keys(t)
  <2>1. u = move_to_end(t, b)
      BY <1>7, <1>8 DEF add, u
  <2>2a. PICK i \in 1 .. Len(t.blocks) :
             /\ t.blocks[i].key = b.key
             /\ move_to_end(t, b) = [t EXCEPT !.blocks = Append(RemoveAt(t.blocks, i), b)]
      BY <1>8, MoveToEnd
  <2>2. /\ i \in 1 .. n /\ l[i].key = b.key
        /\ u = [t EXCEPT !.blocks = Append(RemoveAt(l, i), b)]
      BY <2>1, <2>2a, Zenon DEF n
  <2>3. i <= n - (k - 1)
    <3> SUFFICES ASSUME i > n - (k - 1) PROVE FALSE
        BY <1>1, <1>2, <2>2
    <3> DEFINE j == i - (n - (k - 1))
    <3>1. j \in 1 .. k - 1 /\ i = (n - (k - 1)) + j
        BY <1>1, <1>2, <2>2
    <3>2. l[i] = s[j]
        BY <3>1, <1>4
    <3>3. j \in 1 .. Len(s) /\ j # k
        BY <3>1, <1>2
    <3>4. s[j].key = s[k].key
        BY <3>2, <2>2 DEF b
    <3> HIDE DEF j
    <3>5. QED
        BY <3>3, <3>4
  <2> DEFINE r == RemoveAt(l, i)
             v == Append(r, b)
  <2>4. /\ r \in Seq(B) /\ Len(r) = n - 1
        /\ \A j \in 1 .. n - 1 : r[j] = IF j < i THEN l[j] ELSE l[j + 1]
      BY <1>1, RemoveAtFacts DEF n
  <2> HIDE DEF r
  <2>5. /\ v \in Seq(B) /\ Len(v) = Len(r) + 1
        /\ \A j \in 1 .. Len(r) : v[j] = r[j]
        /\ v[Len(r) + 1] = b
      BY <2>4, <1>2, AppendProperties
  <2> HIDE DEF v
  <2>6. u.blocks = v
    <3>1. u = [t EXCEPT !.blocks = v]
        BY <2>2, Zenon DEF v, r
    <3>2. QED
        BY <3>1, <2>5, <1>1, WithBlocks
  <2>7. Len(v) = n /\ v[n] = b /\ k <= n
    <3>1. Len(r) + 1 = n
        BY <2>4, <1>1
    <3>2. k <= n
        BY <2>2, <2>3, <1>1, <1>2
    <3>3. QED
        BY <2>5, <3>1, <3>2
  <2>8. ASSUME NEW j \in 1 .. k PROVE v[(n - k) + j] = s[j]
    <3>1. CASE j = k
      <4>1. (n - k) + j = n
          BY <3>1, <1>1, <1>2
      <4>2. QED
          BY <3>1, <4>1, <2>7 DEF b
    <3>2. CASE j # k
      <4> DEFINE p == (n - k) + j
      <4>1. j \in 1 .. k - 1 /\ p \in 1 .. n - 1 /\ ~(p < i) /\ p + 1 = (n - (k - 1)) + j
        <5>1. n \in Nat /\ k \in Nat /\ j \in Nat /\ i \in Nat /\ 1 <= j /\ j < k /\ k <= n
            BY <3>2, <1>1, <1>2, <2>2, <2>7
        <5>2. i <= n - (k - 1)
            BY <2>2, <2>3
        <5>3. QED
            BY <5>1, <5>2
      <4> HIDE DEF p
      <4>2. v[p] = l[p + 1]
          BY <4>1, <2>4, <2>5
      <4>3. l[p + 1] = s[j]
          BY <4>1, <1>4
      <4>4. QED
          BY <4>2, <4>3 DEF p
    <3>3. QED
        BY <3>1, <3>2
  <2>9. QED
      BY <2>6, <2>7, <2>8 DEF EndsWith, u, b
<1>9. CASE b.key \notin Keys(t)
  <2> DEFINE w == Insert(t, b)
             v == Append(l, b)
  <2>1. u = evict_if_needed(w, budget)
      BY <1>7, <1>9 DEF add, u
  <2>2. w \in Good(B) /\ w.blocks = v
      BY <1>2, <1>9, InsertKeeps
  <2>3. /\ v \in Seq(B) /\ Len(v) = n + 1 /\ v[n + 1] = b
        /\ \A i \in 1 .. n : v[i] = l[i]
      BY <1>1, <1>2, AppendProperties DEF n
  <2> HIDE DEF v, w
  <2> DEFINE m == (n + 1) - k
  <2>4. m \in 0 .. n + 1 /\ m \in Nat
      BY <1>1, <1>2, <1>4
  <2>5. ASSUME NEW j \in 1 .. k PROVE v[m + j] = s[j]
    <3>1. CASE j = k
      <4>1. m + j = n + 1
          BY <3>1, <1>1, <1>2
      <4>2. QED
          BY <3>1, <4>1, <2>3 DEF b
    <3>2. CASE j # k
      <4>1. j \in 1 .. k - 1 /\ m + j \in 1 .. n /\ m + j = (n - (k - 1)) + j
          BY <3>2, <1>1, <1>2, <1>4
      <4> HIDE DEF m
      <4>2. QED
          BY <4>1, <2>3, <1>4
    <3>3. QED
        BY <3>1, <3>2
  <2>6. CASE budget = NoBudget
    <3>1. u = w
        BY <2>1, <2>6 DEF evict_if_needed
    <3>2. Len(u.blocks) - k = m /\ k <= Len(u.blocks) /\ u.blocks = v
        BY <3>1, <2>2, <2>3, <2>4, <1>1, <1>2
    <3> HIDE DEF m
    <3>3. QED
        BY <3>2, <2>5 DEF EndsWith, u, b
  <2>7. CASE budget # NoBudget
    <3>1. PICK d \in 0 .. Len(v) :
              /\ u.blocks = SubSeq(v, d + 1, Len(v))
              /\ \A q \in 0 .. Len(v) : TokensOf(SubSeq(v, q + 1, Len(v))) <= budget => d <= q
        BY <2>1, <2>2, <2>7, <1>6, EvictKeeps
    <3>2. /\ SubSeq(v, m + 1, Len(v)) \in Seq(B)
          /\ Len(SubSeq(v, m + 1, Len(v))) = Len(v) - m
          /\ \A i \in 1 .. Len(v) - m : SubSeq(v, m + 1, Len(v))[i] = v[m + i]
      <4>1. m \in 0 .. Len(v)
          BY <2>3, <2>4
      <4> HIDE DEF m
      <4>2. QED
          BY <4>1, <2>3, SuffixFacts
    <3>3. Len(v) - m = k
        BY <2>3, <1>1, <1>2
    <3>4. SubSeq(v, m + 1, Len(v)) = SubSeq(s, 1, k)
      <4> DEFINE x == SubSeq(v, m + 1, Len(v))
                 y == SubSeq(s, 1, k)
      <4>1. x \in Seq(B) /\ y \in Seq(B) /\ Len(x) = k /\ Len(y) = k
          BY <3>2, <3>3, <1>5
      <4>2. \A i \in 1 .. k : x[i] = y[i]
          BY <3>2, <3>3, <1>5, <2>5
      <4> HIDE DEF x, y
      <4>3. x = y
          BY <4>1, <4>2, SeqEqual
      <4>4. QED
          BY <4>3 DEF x, y
    <3>5. d <= m
        BY <3>1, <3>4, <2>3, <2>4, <2>7, <1>6
    <3>6. /\ Len(SubSeq(v, d + 1, Len(v))) = Len(v) - d
          /\ \A i \in 1 .. Len(v) - d : SubSeq(v, d + 1, Len(v))[i] = v[d + i]
        BY <2>3, <3>1, SuffixFacts
    <3>7. k <= Len(u.blocks) /\ Len(u.blocks) = Len(v) - d
        BY <3>1, <3>3, <3>5, <3>6, <2>3, <2>4, <1>1, <1>2
    <3>8. ASSUME NEW j \in 1 .. k PROVE u.blocks[(Len(u.blocks) - k) + j] = s[j]
      <4> DEFINE p == (Len(u.blocks) - k) + j
      <4>1. p \in 1 .. Len(v) - d /\ d + p = m + j
          BY <3>1, <3>3, <3>5, <3>7, <2>3, <2>4, <1>1, <1>2
      <4> HIDE DEF p, m
      <4>2. u.blocks[p] = v[d + p]
          BY <3>1, <3>6, <4>1
      <4>3. QED
          BY <4>1, <4>2, <2>5 DEF p
    <3>9. QED
        BY <3>7, <3>8 DEF EndsWith, u, b
  <2>8. QED
      BY <2>6, <2>7
<1>10. QED
    BY <1>8, <1>9 DEF u, b

-------------------------------------------------------------------------------
(* Chunks and hash chains *)

\* Multiples grow with their factor.
LEMMA Multiples ==
    ASSUME NEW z \in Nat, NEW k \in Nat
    PROVE  /\ k * z \in Nat /\ 0 * z = 0
           /\ (k + 1) * z = k * z + z
           /\ \A j \in 0 .. k : j * z <= k * z
<1>1. k * z \in Nat /\ 0 * z = 0 /\ (k + 1) * z = k * z + z
    OBVIOUS
<1>2. ASSUME NEW j \in 0 .. k PROVE j * z <= k * z
    BY <1>2
<1>3. QED
    BY <1>1, <1>2

\* Division rounded up.
LEMMA RoundedUp ==
    ASSUME NEW n \in Nat, NEW z \in Nat, z # 0
    PROVE  LET c == (n + z - 1) \div z
           IN  c \in Nat /\ n <= c * z /\ c * z < n + z
BY Z3

\* block_size as _chunks uses it, never below 1.
size == Max({1, BlockSize})

\* How many chunks some tokens are cut into.
count(tokens) == (Len(tokens) + size - 1) \div size

\* A chunk has room for a token.
LEMMA SizeFacts == size \in Nat /\ size >= 1
BY MaxOfTwo, BlockSizeAssumption DEF size

\* Where chunk k ends.
end(tokens, k) == IF k * size <= Len(tokens) THEN k * size ELSE Len(tokens)

\* The chunks begin at the first token, end at the last and none is empty.
LEMMA CountFacts ==
    ASSUME NEW S, NEW tokens \in Seq(S)
    PROVE  /\ count(tokens) \in Nat
           /\ end(tokens, 0) = 0
           /\ end(tokens, count(tokens)) = Len(tokens)
           /\ \A k \in 1 .. count(tokens) :
                 /\ end(tokens, k - 1) = (k - 1) * size
                 /\ end(tokens, k - 1) \in Nat
                 /\ end(tokens, k) \in 0 .. Len(tokens)
                 /\ end(tokens, k - 1) < end(tokens, k)
<1> DEFINE n == Len(tokens)
           c == count(tokens)
<1>1. n \in Nat /\ size \in Nat /\ size >= 1 /\ size # 0
    BY LenProperties, SizeFacts
<1>2. c \in Nat /\ n <= c * size /\ c * size < n + size
    BY <1>1, RoundedUp DEF count
<1>3. end(tokens, 0) = 0
    BY <1>1, Multiples DEF end
<1>4. end(tokens, c) = n
  <2>1. c * size \in Nat
      BY <1>1, <1>2, Multiples
  <2> HIDE DEF c
  <2>2. QED
      BY <1>1, <1>2, <2>1 DEF end
<1>5. ASSUME NEW k \in 1 .. c
      PROVE  /\ end(tokens, k - 1) = (k - 1) * size
             /\ end(tokens, k - 1) \in Nat
             /\ end(tokens, k) \in 0 .. n
             /\ end(tokens, k - 1) < end(tokens, k)
  <2> HIDE DEF c
  <2>1. k - 1 \in Nat /\ c - 1 \in Nat /\ k - 1 \in 0 .. c - 1 /\ (k - 1) + 1 = k /\ (c - 1) + 1 = c
      BY <1>2
  <2>2. /\ (k - 1) * size \in Nat /\ (c - 1) * size \in Nat
        /\ k * size = (k - 1) * size + size
        /\ c * size = (c - 1) * size + size
        /\ (k - 1) * size <= (c - 1) * size
    <3>1. (k - 1) * size \in Nat /\ ((k - 1) + 1) * size = (k - 1) * size + size
        BY <1>1, <2>1, Multiples
    <3>2. /\ (c - 1) * size \in Nat /\ ((c - 1) + 1) * size = (c - 1) * size + size
          /\ (k - 1) * size <= (c - 1) * size
        BY <1>1, <2>1, Multiples
    <3>3. QED
        BY <2>1, <3>1, <3>2
  <2> DEFINE a == (k - 1) * size
             b == k * size
  <2>3. a \in Nat /\ b = a + size /\ a < n
      BY <1>1, <1>2, <2>2
  <2>4. end(tokens, k - 1) = IF a <= n THEN a ELSE n
      BY DEF end
  <2>5. end(tokens, k) = IF b <= n THEN b ELSE n
      BY DEF end
  <2> HIDE DEF a, b
  <2>6. end(tokens, k - 1) = a
      BY <1>1, <2>3, <2>4
  <2>7. end(tokens, k) \in 0 .. n /\ a < end(tokens, k)
      BY <1>1, <2>3, <2>5
  <2>8. QED
      BY <2>3, <2>6, <2>7 DEF a
<1>6. QED
    BY <1>2, <1>3, <1>4, <1>5

\* The lengths of the chunks.
LEMMA ChunkFacts ==
    ASSUME NEW S, NEW tokens \in Seq(S)
    PROVE  /\ chunks(tokens) \in Seq(Seq(S))
           /\ Len(chunks(tokens)) = count(tokens)
           /\ \A k \in 1 .. count(tokens) :
                 /\ Len(chunks(tokens)[k]) \in Nat \ {0}
                 /\ Len(chunks(tokens)[k]) = end(tokens, k) - end(tokens, k - 1)
<1> DEFINE n == Len(tokens)
           c == count(tokens)
           chunk(k) == SubSeq(tokens, (k - 1) * size + 1, Min({k * size, n}))
<1>1. n \in Nat /\ c \in Nat
    BY LenProperties, CountFacts
<1>2. chunks(tokens) = [k \in 1 .. c |-> chunk(k)]
    BY Zenon DEF chunks, count, size
<1>3. ASSUME NEW k \in 1 .. c
      PROVE  /\ chunk(k) \in Seq(S)
             /\ Len(chunk(k)) = end(tokens, k) - end(tokens, k - 1)
             /\ Len(chunk(k)) \in Nat \ {0}
  <2>1. k \in Nat /\ size \in Nat /\ k * size \in Nat
      BY <1>1, SizeFacts, Multiples
  <2>2. Min({k * size, n}) = end(tokens, k)
      BY <1>1, <2>1, MinOfTwo DEF end
  <2>3. /\ end(tokens, k - 1) = (k - 1) * size /\ end(tokens, k - 1) \in Nat
        /\ end(tokens, k) \in 0 .. n /\ end(tokens, k - 1) < end(tokens, k)
      BY CountFacts
  <2> DEFINE a == end(tokens, k - 1)
             b == end(tokens, k)
  <2>4. chunk(k) = SubSeq(tokens, a + 1, b)
      BY <2>2, <2>3
  <2> HIDE DEF a, b, chunk
  <2>5. a \in Nat /\ b \in 0 .. n /\ a < b
      BY <2>3 DEF a, b
  <2>6. \A i \in a + 1 .. b : tokens[i] \in S
      BY <1>1, <2>5, ElementOfSeq
  <2>7. /\ SubSeq(tokens, a + 1, b) \in Seq(S)
        /\ Len(SubSeq(tokens, a + 1, b)) = IF a + 1 <= b THEN b - (a + 1) + 1 ELSE 0
      BY <1>1, <2>5, <2>6, SubSeqProperties
  <2>8. QED
      BY <1>1, <2>4, <2>5, <2>7 DEF a, b
<1> HIDE DEF c, chunk
<1>4. [k \in 1 .. c |-> chunk(k)] \in Seq(Seq(S)) /\ Len([k \in 1 .. c |-> chunk(k)]) = c
  <2> DEFINE f == [k \in 1 .. c |-> chunk(k)]
  <2>1. f \in [1 .. c -> Seq(S)]
      BY <1>3
  <2>2. f \in Seq(Seq(S))
      BY <2>1, <1>1, SeqDef
  <2>3. QED
      BY <2>1, <2>2, <1>1, LenProperties
<1>5. QED
    BY <1>2, <1>3, <1>4 DEF c

\* The hash chain of the k-th block of some tokens.
path(tokens, k) == SubSeq(chunks(tokens), 1, k)

\* A hash chain ends in its own chunk, and its prefixes are the chains before it.
LEMMA PathFacts ==
    ASSUME NEW S, NEW tokens \in Seq(S), NEW k \in 1 .. count(tokens)
    PROVE  /\ path(tokens, k) \in Seq(Seq(S))
           /\ Len(path(tokens, k)) = k
           /\ path(tokens, k)[k] = chunks(tokens)[k]
           /\ \A j \in 1 .. k : SubSeq(path(tokens, k), 1, j) = path(tokens, j)
<1>1. /\ chunks(tokens) \in Seq(Seq(S)) /\ Len(chunks(tokens)) = count(tokens)
      /\ count(tokens) \in Nat
    BY ChunkFacts, CountFacts
<1>2. k \in 0 .. Len(chunks(tokens)) /\ k \in 1 .. Len(chunks(tokens)) /\ k \in 1 .. k
    BY <1>1
<1>3. /\ path(tokens, k) \in Seq(Seq(S)) /\ Len(path(tokens, k)) = k
      /\ \A i \in 1 .. k : path(tokens, k)[i] = chunks(tokens)[i]
    BY <1>1, <1>2, PrefixFacts DEF path
<1>4. ASSUME NEW j \in 1 .. k PROVE SubSeq(path(tokens, k), 1, j) = path(tokens, j)
  <2>1. 1 \in 1 .. Len(chunks(tokens)) /\ 1 \in 1 .. k - 1 + 1 /\ j \in 1 .. k - 1 + 1
      BY <1>1, <1>2
  <2>2. SubSeq(SubSeq(chunks(tokens), 1, k), 1, j) = SubSeq(chunks(tokens), 1 + 1 - 1, 1 + j - 1)
      BY <1>1, <1>2, <2>1, SubSeqOfSubSeq
  <2>3. 1 + 1 - 1 = 1 /\ 1 + j - 1 = j
      BY <1>1
  <2>4. QED
      BY <2>2, <2>3 DEF path
<1>5. QED
    BY <1>2, <1>3, <1>4

\* The blocks of a segment: a hash chain in the namespace of the segment each,
\* together counting the tokens of the segment.
LEMMA SegmentFacts ==
    ASSUME NEW S, NEW g, g.tokens \in Seq(S)
    PROVE  LET b == segment_blocks(g)
           IN  /\ b \in Seq(ToSet(b))
               /\ Len(b) = count(g.tokens)
               /\ \A k \in 1 .. Len(b) :
                     /\ b[k].key = <<g.namespace, path(g.tokens, k)>>
                     /\ b[k].token_count = Len(chunks(g.tokens)[k])
                     /\ b[k].token_count \in Nat
               /\ TokensOf(b) = Len(g.tokens)
               /\ \A k \in 0 .. Len(b) : TokensOf(SubSeq(b, 1, k)) = end(g.tokens, k)
<1> DEFINE b == segment_blocks(g)
           c == count(g.tokens)
<1>1. c \in Nat /\ Len(chunks(g.tokens)) = c
    BY CountFacts, ChunkFacts
<1>2. b = [k \in 1 .. c |-> [key |-> <<g.namespace, path(g.tokens, k)>>,
                             logical_key |-> <<g.logical_namespace, path(g.tokens, k)>>,
                             token_count |-> Len(chunks(g.tokens)[k])]]
    BY <1>1 DEF segment_blocks, path
<1> HIDE DEF b, c
<1>3. b \in [1 .. c -> ToSet(b)]
  <2>1. DOMAIN b = 1 .. c
      BY <1>2
  <2>2. \A k \in 1 .. c : b[k] \in ToSet(b)
      BY <2>1 DEF ToSet
  <2>3. QED
      BY <1>2, <2>1, <2>2
<1>4. b \in Seq(ToSet(b)) /\ Len(b) = c
  <2>1. b \in Seq(ToSet(b))
      BY <1>1, <1>3, SeqDef
  <2>2. QED
      BY <1>1, <1>3, <2>1, LenProperties
<1>5. \A k \in 1 .. c : /\ b[k].key = <<g.namespace, path(g.tokens, k)>>
                        /\ b[k].token_count = Len(chunks(g.tokens)[k])
    BY <1>2
<1>6. \A k \in 1 .. c : /\ b[k].token_count \in Nat
                        /\ b[k].token_count = end(g.tokens, k) - end(g.tokens, k - 1)
    BY <1>5, ChunkFacts DEF c
<1>7. \A k \in 0 .. c : TokensOf(SubSeq(b, 1, k)) = end(g.tokens, k)
  <2>1. \A e \in ToSet(b) : e.token_count \in Nat
      BY <1>3, <1>6 DEF ToSet
  <2> DEFINE P == {k \in 0 .. c : TokensOf(SubSeq(b, 1, k)) = end(g.tokens, k)}
  <2>2. /\ end(g.tokens, 0) = 0
        /\ \A k \in 1 .. c : end(g.tokens, k - 1) \in Nat /\ end(g.tokens, k) \in 0 .. Len(g.tokens)
      BY CountFacts DEF c
  <2>3. 0 \in P
    <3>1. SubSeq(b, 1, 0) = <<>>
        BY <1>4, SubSeqEmpty
    <3>2. TokensOf(SubSeq(b, 1, 0)) = 0
        BY <3>1, TokensOfNothing, Zenon
    <3>3. QED
        BY <3>2, <2>2, <1>1
  <2>4. ASSUME NEW k \in 1 .. c, k - 1 \in P PROVE k \in P
    <3>1. /\ SubSeq(b, 1, k) = Append(SubSeq(b, 1, k - 1), b[k])
          /\ SubSeq(b, 1, k - 1) \in Seq(ToSet(b)) /\ b[k] \in ToSet(b)
        BY <1>4, PrefixOneMore
    <3>2. TokensOf(SubSeq(b, 1, k)) = TokensOf(SubSeq(b, 1, k - 1)) + b[k].token_count
        BY <3>1, <2>1, TokensOfAppend
    <3>3. TokensOf(SubSeq(b, 1, k - 1)) = end(g.tokens, k - 1)
        BY <2>4
    <3>4. b[k].token_count = end(g.tokens, k) - end(g.tokens, k - 1)
        BY <1>6
    <3>5. end(g.tokens, k - 1) \in Nat /\ end(g.tokens, k) \in Nat
        BY <2>2
    <3>6. TokensOf(SubSeq(b, 1, k)) = end(g.tokens, k)
        BY <3>2, <3>3, <3>4, <3>5
    <3>7. QED
        BY <3>6, <1>1
  <2> HIDE DEF P
  <2>5. \A k \in 0 .. c : k \in P
      BY <1>1, <2>3, <2>4, InductionUpTo
  <2>6. QED
      BY <2>5 DEF P
<1>7a. TokensOf(b) = Len(g.tokens)
  <2>1. SubSeq(b, 1, c) = b
      BY <1>4, SubSeqFull
  <2>2. end(g.tokens, c) = Len(g.tokens)
      BY CountFacts DEF c
  <2>3. TokensOf(SubSeq(b, 1, c)) = end(g.tokens, c)
      BY <1>1, <1>7
  <2>4. QED
      BY <2>1, <2>2, <2>3, Zenon
<1>8. \A k \in 1 .. Len(b) : /\ b[k].key = <<g.namespace, path(g.tokens, k)>>
                             /\ b[k].token_count = Len(chunks(g.tokens)[k])
                             /\ b[k].token_count \in Nat
    BY <1>4, <1>5, <1>6
<1>9. Len(b) = count(g.tokens)
    BY <1>4 DEF c
<1>10. QED
    BY <1>4, <1>7, <1>7a, <1>8, <1>9 DEF b

-------------------------------------------------------------------------------
(* The blocks of a request *)

\* FlattenSeq of no sequence.
LEMMA FlattenNone == FlattenSeq(<<>>) = <<>>
<1>1. Len(<<>>) = 0
    OBVIOUS
<1>2. QED
    BY <1>1, Zenon DEF FlattenSeq

\* FlattenSeq of one sequence.
LEMMA FlattenOne ==
    ASSUME NEW a
    PROVE  FlattenSeq(<<a>>) = a
<1> DEFINE s == <<a>>
           f == CHOOSE f : f = [i \in 1 .. Len(s) |-> IF i = 1 THEN s[i] ELSE f[i - 1] \o s[i]]
<1>1. Len(s) = 1 /\ s[1] = a
    OBVIOUS
<1>2. FlattenSeq(s) = IF Len(s) = 0 THEN s ELSE f[Len(s)]
    BY Zenon DEF FlattenSeq
<1> HIDE DEF s
<1>3. \E g : g = [i \in 1 .. Len(s) |-> IF i = 1 THEN s[i] ELSE g[i - 1] \o s[i]]
  <2> DEFINE g == [i \in 1 .. Len(s) |-> a]
  <2>1. g = [i \in 1 .. Len(s) |-> IF i = 1 THEN s[i] ELSE g[i - 1] \o s[i]]
      BY <1>1
  <2>2. QED
      BY <2>1
<1>4. f = [i \in 1 .. Len(s) |-> IF i = 1 THEN s[i] ELSE f[i - 1] \o s[i]]
    BY <1>3
<1> HIDE DEF f
<1>5. f[1] = a
    BY <1>1, <1>4
<1>6. QED
    BY <1>1, <1>2, <1>5 DEF s

\* FlattenSeq of two sequences.
LEMMA FlattenTwo ==
    ASSUME NEW a, NEW b
    PROVE  FlattenSeq(<<a, b>>) = a \o b
<1> DEFINE s == <<a, b>>
           f == CHOOSE f : f = [i \in 1 .. Len(s) |-> IF i = 1 THEN s[i] ELSE f[i - 1] \o s[i]]
<1>1. Len(s) = 2 /\ s[1] = a /\ s[2] = b
    OBVIOUS
<1>2. FlattenSeq(s) = IF Len(s) = 0 THEN s ELSE f[Len(s)]
    BY Zenon DEF FlattenSeq
<1> HIDE DEF s
<1>3. \E g : g = [i \in 1 .. Len(s) |-> IF i = 1 THEN s[i] ELSE g[i - 1] \o s[i]]
  <2> DEFINE g == [i \in 1 .. Len(s) |-> IF i = 1 THEN a ELSE a \o b]
  <2>1. \A i \in 1 .. Len(s) : g[i] = IF i = 1 THEN s[i] ELSE g[i - 1] \o s[i]
      BY <1>1
  <2>2. g = [i \in 1 .. Len(s) |-> IF i = 1 THEN s[i] ELSE g[i - 1] \o s[i]]
      BY <2>1
  <2>3. QED
      BY <2>2
<1>4. f = [i \in 1 .. Len(s) |-> IF i = 1 THEN s[i] ELSE f[i - 1] \o s[i]]
    BY <1>3
<1> HIDE DEF f
<1>5. f[1] = a /\ f[2] = f[1] \o b
  <2>1. 1 \in 1 .. Len(s) /\ 2 \in 1 .. Len(s)
      BY <1>1
  <2>2. \A i \in 1 .. Len(s) : f[i] = IF i = 1 THEN s[i] ELSE f[i - 1] \o s[i]
      BY <1>4
  <2>3. /\ f[1] = IF 1 = 1 THEN s[1] ELSE f[1 - 1] \o s[1]
        /\ f[2] = IF 2 = 1 THEN s[2] ELSE f[2 - 1] \o s[2]
      BY <2>1, <2>2, Zenon
  <2>4. 2 - 1 = 1 /\ 2 # 1
      OBVIOUS
  <2>5. f[1] = s[1] /\ f[2] = f[2 - 1] \o s[2]
      BY <2>3, <2>4, Zenon
  <2>6. QED
      BY <1>1, <2>4, <2>5, Zenon
<1>6. QED
    BY <1>1, <1>2, <1>5 DEF s

\* Two one-element sequences make a pair.
LEMMA PairOfOnes ==
    ASSUME NEW a, NEW b
    PROVE  <<a>> \o <<b>> = <<a, b>>
<1>1. <<a>> \in Seq({a, b}) /\ <<b>> \in Seq({a, b}) /\ <<a, b>> \in Seq({a, b})
    OBVIOUS
<1>2. /\ <<a>> \o <<b>> \in Seq({a, b})
      /\ Len(<<a>> \o <<b>>) = 2
      /\ \A i \in 1 .. 2 : (<<a>> \o <<b>>)[i] = IF i <= 1 THEN <<a>>[i] ELSE <<b>>[i - 1]
    BY <1>1, ConcatProperties
<1> DEFINE s == <<a>> \o <<b>>
<1>3. s[1] = a /\ s[2] = b
    BY <1>2
<1> HIDE DEF s
<1>4. \A i \in 1 .. 2 : s[i] = <<a, b>>[i]
    BY <1>3
<1>5. QED
    BY <1>1, <1>2, <1>4, SeqEqual DEF s

\* The invocation is found within the prompt, or at its end.
LEMMA InvocationFacts ==
    ASSUME NEW S, NEW tokens \in Seq(S)
    PROVE  invocation_index(tokens) \in 0 .. Len(tokens)
<1> DEFINE T == {i - 1 : i \in {j \in 1 .. Len(tokens) : tokens[j] \in Markers}} \cup {Len(tokens)}
<1>1. Len(tokens) \in Nat
    BY LenProperties
<1>2. T \subseteq 0 .. Len(tokens) /\ T \subseteq Nat /\ T # {}
    BY <1>1
<1> HIDE DEF T
<1>3. Min(T) \in T
    BY <1>2, MinFacts
<1>4. QED
    BY <1>2, <1>3 DEF invocation_index, T

\* A segment without tokens has no blocks.
LEMMA NoSegment ==
    ASSUME NEW S, NEW g, g.tokens = <<>>
    PROVE  segment_blocks(g) = <<>>
<1>1. g.tokens \in Seq({}) /\ Len(g.tokens) = 0
    BY EmptySeq
<1>2. end(g.tokens, 0) = 0 /\ count(g.tokens) \in Nat
    BY <1>1, CountFacts
<1>3. count(g.tokens) = 0
  <2>1. \A k \in 1 .. count(g.tokens) : end(g.tokens, k) \in 0 .. 0 /\ end(g.tokens, k - 1) \in Nat
                                        /\ end(g.tokens, k - 1) < end(g.tokens, k)
      BY <1>1, CountFacts
  <2>2. \A k \in 1 .. count(g.tokens) : FALSE
      BY <2>1
  <2>3. QED
      BY <1>2, <2>2
<1>4. segment_blocks(g) \in Seq(ToSet(segment_blocks(g))) /\ Len(segment_blocks(g)) = 0
    BY <1>1, <1>3, SegmentFacts
<1>5. QED
    BY <1>4, EmptySeq

\* A sequence cut in two.
LEMMA SplitFacts ==
    ASSUME NEW S, NEW s \in Seq(S), NEW k \in 0 .. Len(s)
    PROVE  /\ SubSeq(s, 1, k) \in Seq(S) /\ SubSeq(s, k + 1, Len(s)) \in Seq(S)
           /\ Len(SubSeq(s, 1, k)) = k
           /\ Len(SubSeq(s, k + 1, Len(s))) = Len(s) - k
BY PrefixFacts, SuffixFacts

\* A prompt is cut in two at the invocation, for activated_lora only.
LEMMA SectionFacts ==
    ASSUME NEW r \in Requests, config \in Configs
    PROVE  /\ section(r, 1) \in Seq(ToSet(r.prompt)) /\ section(r, 2) \in Seq(ToSet(r.prompt))
           /\ Len(section(r, 1)) = split_of(r)
           /\ Len(section(r, 1)) + Len(section(r, 2)) = Len(r.prompt)
           /\ config.model # "activated_lora" => section(r, 1) = r.prompt /\ section(r, 2) = <<>>
<1> DEFINE S == ToSet(r.prompt)
           n == Len(r.prompt)
           k == split_of(r)
<1>1. r.prompt \in Seq(S) /\ n \in Nat
    BY RequestsAssumption, LenProperties
<1>2. k \in 0 .. n /\ (config.model # "activated_lora" => k = n)
    BY <1>1, InvocationFacts DEF split_of
<1>3. section(r, 1) = SubSeq(r.prompt, 1, k) /\ section(r, 2) = SubSeq(r.prompt, k + 1, n)
    BY DEF section
<1> HIDE DEF S, n, k
<1>4. /\ SubSeq(r.prompt, 1, k) \in Seq(S) /\ SubSeq(r.prompt, k + 1, n) \in Seq(S)
      /\ Len(SubSeq(r.prompt, 1, k)) = k
      /\ Len(SubSeq(r.prompt, k + 1, n)) = n - k
    BY <1>1, <1>2, SplitFacts DEF n
<1>5. k = n => SubSeq(r.prompt, 1, k) = r.prompt /\ SubSeq(r.prompt, k + 1, n) = <<>>
    BY <1>1, <1>4, SubSeqFull, EmptySeq DEF n
<1>6. k + (n - k) = n
    BY <1>1, <1>2
<1>7. QED
    BY <1>2, <1>3, <1>4, <1>5, <1>6 DEF S, n, k

\* The namespace of the k-th section of a request.
space(r, k) ==
    CASE config.model = "standard_lora" \/ k = 2 -> <<isolation_id(r), "adapter", r.adapter>>
      [] config.model = "base_shared" /\ k = 1 -> <<isolation_id(r), "base">>
      [] config.model = "copy_on_write" /\ k = 1 -> <<isolation_id(r), "cow-base">>
      [] config.model = "activated_lora" /\ k = 1 -> <<isolation_id(r), "activated-base">>

\* The blocks of a request are those of its two sections, in namespaces of
\* their own.
LEMMA RequestShape ==
    ASSUME NEW r \in Requests, config \in Configs
    PROVE  \E p, q :
               /\ p.tokens = section(r, 1) /\ q.tokens = section(r, 2)
               /\ p.namespace = space(r, 1)
               /\ p.namespace # q.namespace
               /\ config.model = "activated_lora" => q.namespace = space(r, 2)
               /\ request_blocks(r) = segment_blocks(p) \o segment_blocks(q)
<1> DEFINE S == ToSet(r.prompt)
           iso == isolation_id(r)
           adapter == <<iso, "adapter", r.adapter>>
           n == Len(r.prompt)
           nothing == Segment(<<>>, <<>>, <<>>)
<1>1. r.prompt \in Seq(S) /\ n \in Nat /\ config.model \in Models
    BY RequestsAssumption, ConfigsAssumption, LenProperties
<1>2. segment_blocks(nothing) = <<>> /\ nothing.tokens = <<>> /\ nothing.namespace = <<>>
    BY NoSegment DEF Segment
<1>3. ASSUME NEW a, NEW b, a # <<>>, segments(r) = <<Segment(a, b, r.prompt)>>,
             a = space(r, 1), config.model # "activated_lora"
      PROVE  \E p, q :
               /\ p.tokens = section(r, 1) /\ q.tokens = section(r, 2)
               /\ p.namespace = space(r, 1)
               /\ p.namespace # q.namespace
               /\ request_blocks(r) = segment_blocks(p) \o segment_blocks(q)
  <2> DEFINE p == Segment(a, b, r.prompt)
             q == nothing
  <2>1. p.tokens = r.prompt /\ p.namespace = a
      BY DEF Segment
  <2>2. [k \in 1 .. Len(<<p>>) |-> segment_blocks(<<p>>[k])] = <<segment_blocks(p)>>
      OBVIOUS
  <2>3. request_blocks(r) = segment_blocks(p)
      BY <1>3, <2>2, FlattenOne DEF request_blocks
  <2>4. segment_blocks(p) \in Seq(ToSet(segment_blocks(p)))
      BY <1>1, <2>1, SegmentFacts
  <2>5. segment_blocks(p) \o segment_blocks(q) = segment_blocks(p)
      BY <1>2, <2>4, ConcatEmptySeq
  <2> HIDE DEF p, q
  <2>6. p.namespace # q.namespace
      BY <1>2, <1>3, <2>1 DEF q
  <2>7. p.tokens = section(r, 1) /\ q.tokens = section(r, 2)
      BY <1>2, <1>3, <2>1, SectionFacts DEF q
  <2>8. request_blocks(r) = segment_blocks(p) \o segment_blocks(q)
      BY <2>3, <2>5
  <2>9. QED
      BY <1>3, <2>1, <2>6, <2>7, <2>8, Zenon
<1>4. CASE config.model = "standard_lora"
  <2>1. segments(r) = <<Segment(adapter, <<iso, "prompt">>, r.prompt)>>
      BY <1>4 DEF segments
  <2>2. adapter # <<>> /\ adapter = space(r, 1)
      BY <1>4 DEF space
  <2> HIDE DEF adapter
  <2>3. QED
      BY <1>3, <1>4, <2>1, <2>2
<1>5. CASE config.model = "base_shared"
  <2>1. segments(r) = <<Segment(<<iso, "base">>, <<iso, "base">>, r.prompt)>>
      BY <1>5 DEF segments
  <2>2. <<iso, "base">> # <<>> /\ <<iso, "base">> = space(r, 1)
      BY <1>5 DEF space
  <2>3. QED
      BY <1>3, <1>5, <2>1, <2>2
<1>6. CASE config.model = "copy_on_write"
  <2>1. segments(r) = <<Segment(<<iso, "cow-base">>, <<iso, "cow-base">>, r.prompt)>>
      BY <1>6 DEF segments
  <2>2. <<iso, "cow-base">> # <<>> /\ <<iso, "cow-base">> = space(r, 1)
      BY <1>6 DEF space
  <2>3. QED
      BY <1>3, <1>6, <2>1, <2>2
<1>7. CASE config.model = "activated_lora"
  <2> DEFINE split == invocation_index(r.prompt)
             p == Segment(<<iso, "activated-base">>, <<iso, "activated-base">>,
                          SubSeq(r.prompt, 1, split))
             q == Segment(adapter, <<iso, "post-invocation">>, SubSeq(r.prompt, split + 1, n))
             some(g) == IF g.tokens = <<>> THEN <<>> ELSE <<g>>
  <2>1. split \in 0 .. n
      BY <1>1, InvocationFacts
  <2>2. /\ p.tokens = SubSeq(r.prompt, 1, split) /\ q.tokens = SubSeq(r.prompt, split + 1, n)
        /\ p.namespace = <<iso, "activated-base">> /\ q.namespace = adapter
      BY DEF Segment
  <2>3. p.namespace # q.namespace
    <3>1. Len(<<iso, "activated-base">>) = 2 /\ Len(adapter) = 3
        OBVIOUS
    <3>2. QED
        BY <2>2, <3>1
  <2>4. /\ p.tokens = section(r, 1) /\ q.tokens = section(r, 2)
        /\ p.namespace = space(r, 1) /\ q.namespace = space(r, 2)
      BY <1>7, <2>2 DEF section, split_of, space
  <2>5. segments(r) = some(p) \o some(q)
      BY <1>7, <2>2 DEF segments
  <2>6. request_blocks(r) = FlattenSeq([k \in 1 .. Len(segments(r)) |-> segment_blocks(segments(r)[k])])
      BY DEF request_blocks
  <2> HIDE DEF p, q
  <2>7. /\ segment_blocks(p) \in Seq(ToSet(segment_blocks(p)))
        /\ segment_blocks(q) \in Seq(ToSet(segment_blocks(q)))
      BY <2>4, SectionFacts, SegmentFacts
  <2>8. request_blocks(r) = segment_blocks(p) \o segment_blocks(q)
    <3>1. CASE p.tokens = <<>> /\ q.tokens = <<>>
      <4>1. segments(r) = <<>>
          BY <2>5, <3>1
      <4>2. [k \in 1 .. Len(<<>>) |-> segment_blocks(<<>>[k])] = <<>>
          OBVIOUS
      <4>3. request_blocks(r) = <<>>
          BY <2>6, <4>1, <4>2, FlattenNone
      <4>4. segment_blocks(p) = <<>> /\ segment_blocks(q) = <<>>
          BY <3>1, NoSegment
      <4>5. QED
          BY <4>3, <4>4
    <3>2. CASE p.tokens # <<>> /\ q.tokens = <<>>
      <4>1. segments(r) = <<p>>
          BY <2>5, <3>2
      <4>2. [k \in 1 .. Len(<<p>>) |-> segment_blocks(<<p>>[k])] = <<segment_blocks(p)>>
          OBVIOUS
      <4>3. request_blocks(r) = segment_blocks(p)
          BY <2>6, <4>1, <4>2, FlattenOne
      <4>4. segment_blocks(q) = <<>>
          BY <3>2, NoSegment
      <4>5. QED
          BY <4>3, <4>4, <2>7, ConcatEmptySeq
    <3>3. CASE p.tokens = <<>> /\ q.tokens # <<>>
      <4>1. segments(r) = <<q>>
          BY <2>5, <3>3
      <4>2. [k \in 1 .. Len(<<q>>) |-> segment_blocks(<<q>>[k])] = <<segment_blocks(q)>>
          OBVIOUS
      <4>3. request_blocks(r) = segment_blocks(q)
          BY <2>6, <4>1, <4>2, FlattenOne
      <4>4. segment_blocks(p) = <<>>
          BY <3>3, NoSegment
      <4>5. QED
          BY <4>3, <4>4, <2>7, ConcatEmptySeq
    <3>4. CASE p.tokens # <<>> /\ q.tokens # <<>>
      <4>1. segments(r) = <<p, q>>
        <5>1. <<p>> \o <<q>> = <<p, q>>
            BY PairOfOnes
        <5>2. some(p) = <<p>> /\ some(q) = <<q>>
            BY <3>4
        <5> HIDE DEF some
        <5>3. QED
            BY <2>5, <5>1, <5>2
      <4>2. [k \in 1 .. Len(<<p, q>>) |-> segment_blocks(<<p, q>>[k])]
                = <<segment_blocks(p), segment_blocks(q)>>
          OBVIOUS
      <4>3. QED
          BY <2>6, <4>1, <4>2, FlattenTwo
    <3>5. QED
        BY <3>1, <3>2, <3>3, <3>4
  <2>9. QED
      BY <1>7, <2>3, <2>4, <2>8
<1>8. QED
    BY <1>1, <1>3, <1>4, <1>5, <1>6, <1>7 DEF Models

\* The blocks that requests can bring in under the configuration of the run.
RequestBlocks == UNION {ToSet(request_blocks(r)) : r \in Requests}

\* The blocks of a request count the tokens of its prompt, and no two of them
\* have the same key.
LEMMA RequestBlockFacts ==
    ASSUME NEW r \in Requests, config \in Configs
    PROVE  LET b == request_blocks(r)
           IN  /\ b \in Seq(RequestBlocks) /\ Len(b) \in Nat
               /\ TokensOf(b) = Len(r.prompt)
               /\ \A k \in 1 .. Len(b) :
                     /\ b[k].token_count \in Nat
                     /\ b[k].token_count = Len(b[k].key[2][Len(b[k].key[2])])
               /\ \A i, j \in 1 .. Len(b) : b[i].key = b[j].key => i = j
               /\ config.model # "activated_lora" =>
                      \E a : \A k \in 1 .. Len(b) :
                          /\ b[k].key = <<a, path(r.prompt, k)>>
                          /\ k \in 1 .. count(r.prompt)
<1> DEFINE S == ToSet(r.prompt)
           b == request_blocks(r)
<1>1. PICK p, q :
          /\ p.tokens \in Seq(S) /\ q.tokens \in Seq(S)
          /\ p.namespace # q.namespace
          /\ Len(p.tokens) + Len(q.tokens) = Len(r.prompt)
          /\ b = segment_blocks(p) \o segment_blocks(q)
          /\ config.model # "activated_lora" => q.tokens = <<>>
  <2>1. /\ section(r, 1) \in Seq(S) /\ section(r, 2) \in Seq(S)
        /\ Len(section(r, 1)) + Len(section(r, 2)) = Len(r.prompt)
        /\ config.model # "activated_lora" => section(r, 2) = <<>>
      BY SectionFacts
  <2>2. PICK p, q :
            /\ p.tokens = section(r, 1) /\ q.tokens = section(r, 2)
            /\ p.namespace # q.namespace
            /\ b = segment_blocks(p) \o segment_blocks(q)
      BY RequestShape
  <2>3. QED
      BY <2>1, <2>2
<1> DEFINE u == segment_blocks(p)
           v == segment_blocks(q)
           T == ToSet(u) \cup ToSet(v)
           m == Len(u)
           n == Len(v)
<1> HIDE DEF S
<1>2. /\ u \in Seq(ToSet(u)) /\ m = count(p.tokens) /\ TokensOf(u) = Len(p.tokens)
      /\ \A k \in 1 .. m : /\ u[k].key = <<p.namespace, path(p.tokens, k)>>
                           /\ u[k].token_count = Len(chunks(p.tokens)[k])
                           /\ u[k].token_count \in Nat
    BY <1>1, SegmentFacts
<1>3. /\ v \in Seq(ToSet(v)) /\ n = count(q.tokens) /\ TokensOf(v) = Len(q.tokens)
      /\ \A k \in 1 .. n : /\ v[k].key = <<q.namespace, path(q.tokens, k)>>
                           /\ v[k].token_count = Len(chunks(q.tokens)[k])
                           /\ v[k].token_count \in Nat
    BY <1>1, SegmentFacts
<1>4. \A k \in 1 .. m : /\ Len(path(p.tokens, k)) = k
                        /\ path(p.tokens, k)[k] = chunks(p.tokens)[k]
    BY <1>1, <1>2, PathFacts
<1>5. \A k \in 1 .. n : /\ Len(path(q.tokens, k)) = k
                        /\ path(q.tokens, k)[k] = chunks(q.tokens)[k]
    BY <1>1, <1>3, PathFacts
<1> HIDE DEF u, v, b
<1>6. b = u \o v
    BY <1>1 DEF u, v
<1>7. u \in Seq(T) /\ v \in Seq(T) /\ m \in Nat /\ n \in Nat
    BY <1>2, <1>3, SeqMonotonic, LenProperties
<1>8. /\ b \in Seq(T) /\ Len(b) = m + n
      /\ \A k \in 1 .. m + n : b[k] = IF k <= m THEN u[k] ELSE v[k - m]
    BY <1>6, <1>7, ConcatProperties
<1>9. \A k \in 1 .. m : b[k] = u[k]
    BY <1>7, <1>8
<1>10. \A k \in 1 .. m + n : k > m => k - m \in 1 .. n /\ b[k] = v[k - m]
    BY <1>7, <1>8
<1>11. b \in Seq(RequestBlocks) /\ Len(b) \in Nat
  <2>1. DOMAIN b = 1 .. Len(b) /\ Len(b) \in Nat
      BY <1>8, LenProperties
  <2>2. \A k \in 1 .. Len(b) : b[k] \in RequestBlocks
      BY <2>1 DEF RequestBlocks, ToSet, b
  <2>3. b = [k \in 1 .. Len(b) |-> b[k]]
      BY <2>1, <1>8, LenProperties
  <2>4. b \in [1 .. Len(b) -> RequestBlocks]
      BY <2>2, <2>3
  <2>5. QED
      BY <2>1, <2>4, SeqDef
<1>12. TokensOf(b) = Len(r.prompt)
  <2>1. \A e \in T : e.token_count \in Nat
    <3>1. \A e \in ToSet(u) : e.token_count \in Nat
        BY <1>2, LenProperties DEF ToSet
    <3>2. \A e \in ToSet(v) : e.token_count \in Nat
        BY <1>3, LenProperties DEF ToSet
    <3>3. QED
        BY <3>1, <3>2
  <2>2. TokensOf(b) = TokensOf(u) + TokensOf(v)
      BY <1>6, <1>7, <2>1, TokensOfConcat
  <2>3. QED
      BY <1>1, <1>2, <1>3, <2>2
<1>13. ASSUME NEW k \in 1 .. Len(b)
       PROVE  /\ b[k].token_count \in Nat
              /\ b[k].token_count = Len(b[k].key[2][Len(b[k].key[2])])
  <2>1. CASE k <= m
    <3>1. k \in 1 .. m
        BY <2>1, <1>7, <1>8
    <3>2. b[k].key[2] = path(p.tokens, k)
        BY <3>1, <1>2, <1>9
    <3>3. QED
        BY <3>1, <3>2, <1>2, <1>4, <1>9
  <2>2. CASE k > m
    <3>1. PICK j \in 1 .. n : b[k] = v[j]
        BY <2>2, <1>8, <1>10
    <3>2. v[j].key[2] = path(q.tokens, j)
        BY <1>3
    <3>3. Len(v[j].key[2]) = j /\ v[j].key[2][j] = chunks(q.tokens)[j]
        BY <3>2, <1>5
    <3>4. v[j].token_count \in Nat /\ v[j].token_count = Len(chunks(q.tokens)[j])
        BY <1>3
    <3>5. QED
        BY <3>1, <3>3, <3>4
  <2>3. QED
      BY <2>1, <2>2, <1>7, <1>8
<1>14. ASSUME NEW i \in 1 .. Len(b), NEW j \in 1 .. Len(b), b[i].key = b[j].key
       PROVE  i = j
  <2> DEFINE N(k) == b[k].key[1]
             L(k) == Len(b[k].key[2])
  <2>1. ASSUME NEW k \in 1 .. Len(b), k <= m PROVE N(k) = p.namespace /\ L(k) = k
    <3>1. k \in 1 .. m
        BY <2>1, <1>7, <1>8
    <3>2. QED
        BY <3>1, <1>2, <1>4, <1>9
  <2>2. ASSUME NEW k \in 1 .. Len(b), k > m PROVE N(k) = q.namespace /\ L(k) = k - m
    <3>1. k - m \in 1 .. n /\ b[k] = v[k - m]
        BY <2>2, <1>8, <1>10
    <3>2. QED
        BY <3>1, <1>3, <1>5
  <2>3. N(i) = N(j) /\ L(i) = L(j)
      BY <1>14
  <2> HIDE DEF N, L
  <2>4. i \in Nat /\ j \in Nat /\ m \in Nat
      BY <1>7, <1>8
  <2>5. CASE i <= m
    <3>1. N(j) = p.namespace /\ L(i) = i
        BY <2>1, <2>3, <2>5
    <3>2. j <= m
        BY <3>1, <2>2, <2>4, <1>1
    <3>3. QED
        BY <3>1, <3>2, <2>1, <2>3
  <2>6. CASE i > m
    <3>1. N(j) = q.namespace /\ L(i) = i - m
        BY <2>2, <2>3, <2>6
    <3>2. j > m
        BY <3>1, <2>1, <2>4, <1>1
    <3>3. L(j) = j - m
        BY <3>2, <2>2
    <3>4. i - m = j - m
        BY <3>1, <3>3, <2>3
    <3>5. QED
        BY <3>4, <2>4
  <2>7. QED
      BY <2>4, <2>5, <2>6
<1>15. ASSUME config.model # "activated_lora"
       PROVE  \E a : \A k \in 1 .. Len(b) :
                  /\ b[k].key = <<a, path(r.prompt, k)>>
                  /\ k \in 1 .. count(r.prompt)
  <2>1. segment_blocks(q) = <<>> /\ q.tokens = <<>>
      BY <1>1, <1>15, NoSegment
  <2>2. v = <<>> /\ n = 0
      BY <2>1, EmptySeq DEF v
  <2>3. request_blocks(r) = u /\ Len(b) = m
      BY <1>6, <1>7, <1>8, <2>2, ConcatEmptySeq DEF b
  <2>4. PICK a, c : segments(r) = <<Segment(a, c, r.prompt)>>
      BY <1>15, ConfigsAssumption DEF segments, Models
  <2> DEFINE g == Segment(a, c, r.prompt)
  <2>5. g.tokens = r.prompt /\ g.namespace = a
      BY DEF Segment
  <2>6. [k \in 1 .. Len(<<g>>) |-> segment_blocks(<<g>>[k])] = <<segment_blocks(g)>>
      OBVIOUS
  <2>7. b = segment_blocks(g)
      BY <2>4, <2>6, FlattenOne DEF request_blocks, b
  <2>8. r.prompt \in Seq(ToSet(r.prompt))
      BY RequestsAssumption
  <2> HIDE DEF g
  <2>9. /\ Len(b) = count(r.prompt)
        /\ \A k \in 1 .. Len(b) : b[k].key = <<a, path(r.prompt, k)>>
    <3> DEFINE sb == segment_blocks(g)
    <3>1. g.tokens \in Seq(ToSet(r.prompt))
        BY <2>5, <2>8
    <3>2. Len(sb) = count(g.tokens)
        BY <3>1, SegmentFacts
    <3>3. \A k \in 1 .. Len(sb) : sb[k].key = <<g.namespace, path(g.tokens, k)>>
        BY <3>1, SegmentFacts
    <3>4. b = sb
        BY <2>7
    <3> HIDE DEF sb
    <3>5. QED
        BY <3>2, <3>3, <3>4, <2>5
  <2>10. QED
      BY <2>9
<1>16. QED
    BY <1>11, <1>12, <1>13, <1>14, <1>15 DEF b

\* A key determines its last chunk, hence the token count.
LEMMA RequestBlocksAreBlocks ==
    ASSUME config \in Configs
    PROVE  BlockSet(RequestBlocks)
<1>1. ASSUME NEW e \in RequestBlocks
      PROVE  e.token_count \in Nat /\ e.token_count = Len(e.key[2][Len(e.key[2])])
  <2>1. PICK r \in Requests : e \in ToSet(request_blocks(r))
      BY DEF RequestBlocks
  <2>2. request_blocks(r) \in Seq(RequestBlocks)
      BY RequestBlockFacts
  <2>3. PICK k \in 1 .. Len(request_blocks(r)) : e = request_blocks(r)[k]
      BY <2>1, <2>2, LenProperties DEF ToSet
  <2>4. QED
      BY <2>3, RequestBlockFacts
<1>2. QED
    BY <1>1 DEF BlockSet

-------------------------------------------------------------------------------
(* Looking up and storing the blocks of a request *)

\* The leading blocks that are found are found, the next one is not, and the
\* reused tokens are theirs.
LEMMA HitFacts ==
    ASSUME NEW r \in Requests, config \in Configs, NEW t \in Good(RequestBlocks)
    PROVE  LET b == request_blocks(r)
               h == HitCount(t, r)
           IN  /\ h \in 0 .. Len(b)
               /\ \A i \in 1 .. h : b[i].key \in Keys(t)
               /\ h < Len(b) => b[h + 1].key \notin Keys(t)
               /\ HitTokens(t, r) = TokensOf(SubSeq(b, 1, h))
               /\ HitTokens(t, r) \in 0 .. Len(r.prompt)
<1> DEFINE b == request_blocks(r)
           h == HitCount(t, r)
           T == {n \in 0 .. Len(b) : \A i \in 1 .. n : b[i].key \in Keys(t)}
<1>1. /\ b \in Seq(RequestBlocks) /\ Len(b) \in Nat
      /\ TokensOf(b) = Len(r.prompt)
    BY RequestBlockFacts
<1>2. h = Max(T)
    BY Zenon DEF HitCount
<1> HIDE DEF b, h
<1>3. T \subseteq 0 .. Len(b) /\ 0 \in T
    BY <1>1
<1>4. h \in T /\ \A y \in T : y <= h
  <2>1. T # {}
      BY <1>3
  <2> HIDE DEF T
  <2>2. QED
      BY <1>1, <1>2, <1>3, <2>1, MaxFacts
<1>5. ASSUME h < Len(b) PROVE b[h + 1].key \notin Keys(t)
  <2>1. h + 1 \notin T
      BY <1>1, <1>3, <1>4
  <2>2. h + 1 \in 0 .. Len(b)
      BY <1>1, <1>4, <1>5
  <2>3. PICK i \in 1 .. h + 1 : b[i].key \notin Keys(t)
      BY <2>1, <2>2
  <2>4. i = h + 1
      BY <2>3, <1>1, <1>4
  <2>5. QED
      BY <2>3, <2>4
<1>6. HitTokens(t, r) = TokensOf(SubSeq(b, 1, h))
    BY Zenon DEF HitTokens, b, h
<1>7. HitTokens(t, r) \in 0 .. Len(r.prompt)
  <2>1. \A e \in RequestBlocks : e.token_count \in Nat
      BY RequestBlocksAreBlocks DEF BlockSet
  <2>2. /\ TokensOf(SubSeq(b, 1, h)) \in Nat
        /\ TokensOf(SubSeq(b, h + 1, Len(b))) \in Nat
        /\ TokensOf(b) = TokensOf(SubSeq(b, 1, h)) + TokensOf(SubSeq(b, h + 1, Len(b)))
      BY <1>1, <1>4, <2>1, TokensOfSplit
  <2>3. QED
      BY <2>2, <1>1, <1>6
<1>8. QED
    BY <1>4, <1>5, <1>6, <1>7 DEF b, h

\* The lookups of a request add at most one miss.
LEMMA LookedUpFacts ==
    ASSUME NEW r \in Requests, config \in Configs, NEW t \in Good(RequestBlocks)
    PROVE  LET u == looked_up(t, r)
           IN  /\ u \in Good(RequestBlocks)
               /\ Keys(u) = Keys(t)
               /\ cached_tokens(u) = cached_tokens(t)
               /\ u.evicted_token_count = t.evicted_token_count
               /\ u.lookup_count - u.hit_count <= t.lookup_count - t.hit_count + 1
               /\ u.hit_count <= t.hit_count + HitCount(t, r)
<1> DEFINE B == RequestBlocks
           b == request_blocks(r)
           h == HitCount(t, r)
           m == Min({h + 1, Len(b)})
           s == SubSeq(b, 1, m)
           u == looked_up(t, r)
<1>1. BlockSet(B) /\ t \in Good(B)
    BY RequestBlocksAreBlocks
<1>2. b \in Seq(B) /\ Len(b) \in Nat
    BY RequestBlockFacts
<1>3. h \in 0 .. Len(b) /\ \A i \in 1 .. h : b[i].key \in Keys(t)
    BY HitFacts
<1>3a. h < Len(b) => b[h + 1].key \notin Keys(t)
    BY HitFacts
<1>4. u = Looked(t, s)
    BY Zenon DEF looked_up, Looked
<1> HIDE DEF B, b, h, u
<1>5. m \in 0 .. Len(b) /\ m <= h + 1
  <2>1. m = IF h + 1 <= Len(b) THEN h + 1 ELSE Len(b)
      BY <1>2, <1>3, MinOfTwo
  <2> HIDE DEF m
  <2>2. QED
      BY <2>1, <1>2, <1>3
<1> HIDE DEF m
<1>6. s \in Seq(B) /\ Len(s) = m /\ \A i \in 1 .. m : s[i] = b[i] /\ s[i] \in B
    BY <1>2, <1>5, PrefixFacts, ElementOfSeq
<1> HIDE DEF s
<1>7. PICK run \in [0 .. Len(s) -> Good(B)] :
          /\ run[0] = t
          /\ \A k \in 1 .. Len(s) : run[k] = contains(run[k - 1], s[k])
          /\ Looked(t, s) = run[Len(s)]
    BY <1>1, <1>6, LookupRun
<1> DEFINE Kept(k) == LET w == run[k]
                      IN  /\ Keys(w) = Keys(t)
                          /\ cached_tokens(w) = cached_tokens(t)
                          /\ w.evicted_token_count = t.evicted_token_count
                          /\ w.lookup_count - w.hit_count
                                 <= t.lookup_count - t.hit_count + (IF k <= h THEN 0 ELSE 1)
                          /\ w.hit_count <= t.hit_count + (IF k <= h THEN k ELSE h)
           P == {k \in 0 .. m : Kept(k)}
<1>8. t.lookup_count \in Nat /\ t.hit_count \in Nat
    BY <1>1, GoodFacts
<1>9. 0 \in P
    BY <1>3, <1>5, <1>6, <1>7, <1>8
<1>10. \A k \in 1 .. m : k - 1 \in P => k \in P
  <2> SUFFICES ASSUME NEW k \in 1 .. m, k - 1 \in P PROVE Kept(k)
      BY <1>5
  <2> DEFINE v == run[k - 1]
             w == run[k]
             e == s[k]
  <2>1. v \in Good(B) /\ w = contains(v, e) /\ e \in B /\ e = b[k] /\ k \in Nat
      BY <1>5, <1>6, <1>7
  <2>2. /\ Keys(v) = Keys(t)
        /\ cached_tokens(v) = cached_tokens(t)
        /\ v.evicted_token_count = t.evicted_token_count
        /\ v.lookup_count - v.hit_count
               <= t.lookup_count - t.hit_count + (IF k - 1 <= h THEN 0 ELSE 1)
        /\ v.hit_count <= t.hit_count + (IF k - 1 <= h THEN k - 1 ELSE h)
      OBVIOUS
  <2> HIDE DEF v, w, e
  <2>3. v.lookup_count \in Nat /\ v.hit_count \in Nat
      BY <1>1, <2>1, GoodFacts
  <2>4. /\ Keys(w) = Keys(v) /\ cached_tokens(w) = cached_tokens(v)
        /\ w.lookup_count = v.lookup_count + 1
        /\ w.hit_count = IF e.key \in Keys(v) THEN v.hit_count + 1 ELSE v.hit_count
        /\ w.evicted_token_count = v.evicted_token_count
      BY <1>1, <2>1, ContainsKeeps
  <2>5. CASE k <= h
    <3>1. e.key \in Keys(v)
        BY <2>1, <2>2, <2>5, <1>3
    <3>2. w.hit_count = v.hit_count + 1 /\ k - 1 <= h
        BY <3>1, <2>1, <2>4, <2>5, <1>3
    <3>3. /\ v.lookup_count - v.hit_count <= t.lookup_count - t.hit_count
          /\ v.hit_count <= t.hit_count + (k - 1)
        BY <3>2, <2>2, <2>3, <1>8
    <3>4. /\ w.lookup_count - w.hit_count <= t.lookup_count - t.hit_count
          /\ w.hit_count <= t.hit_count + k
      <4> DEFINE vl == v.lookup_count
                 vh == v.hit_count
                 wl == w.lookup_count
                 wh == w.hit_count
                 tl == t.lookup_count
                 th == t.hit_count
      <4>1. /\ vl \in Nat /\ vh \in Nat /\ tl \in Nat /\ th \in Nat /\ k \in Nat
            /\ wl = vl + 1 /\ wh = vh + 1
            /\ vl - vh <= tl - th /\ vh <= th + (k - 1)
          BY <3>2, <3>3, <2>1, <2>3, <2>4, <1>8
      <4> HIDE DEF vl, vh, wl, wh, tl, th
      <4>2. wl - wh <= tl - th /\ wh <= th + k
          BY <4>1
      <4>3. QED
          BY <4>2 DEF wl, wh, tl, th
    <3>5. w.lookup_count - w.hit_count <= t.lookup_count - t.hit_count + 0
        BY <3>4, <1>8
    <3>6. QED
        BY <3>4, <3>5, <2>2, <2>4, <2>5 DEF w
  <2>6. CASE ~(k <= h)
    <3>1. k = h + 1 /\ k - 1 = h
        BY <2>1, <2>6, <1>3, <1>5
    <3>2. e.key \notin Keys(v)
        BY <3>1, <2>1, <2>2, <1>2, <1>3, <1>3a, <1>5
    <3>3. /\ w.lookup_count - w.hit_count <= t.lookup_count - t.hit_count + 1
          /\ w.hit_count <= t.hit_count + h
      <4> DEFINE vl == v.lookup_count
                 vh == v.hit_count
                 wl == w.lookup_count
                 wh == w.hit_count
                 tl == t.lookup_count
                 th == t.hit_count
      <4>1. /\ vl \in Nat /\ vh \in Nat /\ tl \in Nat /\ th \in Nat /\ h \in Nat
            /\ wl = vl + 1 /\ wh = vh
            /\ vl - vh <= tl - th /\ vh <= th + h
          BY <3>1, <3>2, <2>2, <2>3, <2>4, <1>3, <1>8
      <4> HIDE DEF vl, vh, wl, wh, tl, th
      <4>2. wl - wh <= tl - th + 1 /\ wh <= th + h
          BY <4>1
      <4>3. QED
          BY <4>2 DEF wl, wh, tl, th
    <3>4. QED
        BY <3>3, <2>2, <2>4, <2>6 DEF w
  <2>7. QED
      BY <2>5, <2>6
<1> HIDE DEF P, Kept
<1>10a. m \in Nat
    BY <1>2, <1>5
<1>11. m \in P
  <2>1. \A k \in 0 .. m : k \in P
      BY <1>10a, <1>9, <1>10, InductionUpTo
  <2>2. QED
      BY <2>1, <1>10a
<1> USE DEF Kept
<1>12. u = run[m] /\ u \in Good(B)
    BY <1>4, <1>5, <1>6, <1>7
<1>13. Kept(m)
    BY <1>11 DEF P
<1>14. QED
  <2>1. /\ Keys(u) = Keys(t)
        /\ cached_tokens(u) = cached_tokens(t)
        /\ u.evicted_token_count = t.evicted_token_count
      BY <1>12, <1>13
  <2>1a. /\ u.lookup_count - u.hit_count
                <= t.lookup_count - t.hit_count + (IF m <= h THEN 0 ELSE 1)
        /\ u.hit_count <= t.hit_count + (IF m <= h THEN m ELSE h)
      BY <1>12, <1>13
  <2>2. u.lookup_count \in Nat /\ u.hit_count \in Nat
      BY <1>1, <1>12, GoodFacts
  <2>3. /\ u.lookup_count - u.hit_count <= t.lookup_count - t.hit_count + 1
        /\ u.hit_count <= t.hit_count + h
    <3> DEFINE ul == u.lookup_count
               uh == u.hit_count
               tl == t.lookup_count
               th == t.hit_count
    <3>1. /\ ul \in Nat /\ uh \in Nat /\ tl \in Nat /\ th \in Nat
          /\ ul - uh <= tl - th + (IF m <= h THEN 0 ELSE 1)
          /\ uh <= th + (IF m <= h THEN m ELSE h)
        BY <2>1a, <2>2, <1>8
    <3>2. h \in Nat /\ m \in Nat
        BY <1>2, <1>3, <1>5
    <3> HIDE DEF ul, uh, tl, th
    <3>3. ul - uh <= tl - th + 1 /\ uh <= th + h
        BY <3>1, <3>2
    <3>4. QED
        BY <3>3 DEF ul, uh, tl, th
  <2>4. QED
      BY <2>1, <2>3, <1>12 DEF u, h, B

\* What storing the blocks of a request does to the table.
LEMMA StoredFacts ==
    ASSUME NEW r \in Requests, config \in Configs, NEW t \in Good(RequestBlocks)
    PROVE  LET b == request_blocks(r)
               u == stored(t, r)
               fresh == Len(r.prompt) - HitTokens(t, r)
           IN  /\ u \in Good(RequestBlocks)
               /\ u.lookup_count = t.lookup_count
               /\ u.hit_count = t.hit_count
               /\ config.budget # NoBudget /\ cached_tokens(t) <= config.budget =>
                      cached_tokens(u) <= config.budget
               /\ footprint(u) <= footprint(t) + fresh
               /\ Keys(u) \subseteq Keys(t) \cup {b[i].key : i \in 1 .. Len(b)}
               /\ config.budget = NoBudget =>
                      Keys(u) = Keys(t) \cup {b[i].key : i \in 1 .. Len(b)}
               /\ config.budget = NoBudget
                  /\ (\A i \in 1 .. Len(b) : i > HitCount(t, r) => b[i].key \notin Keys(t)) =>
                      footprint(u) = footprint(t) + fresh
               /\ config.budget = NoBudget \/ Len(r.prompt) <= config.budget =>
                      \A i \in 1 .. Len(b) : b[i].key \in Keys(u)
<1> DEFINE B == RequestBlocks
           b == request_blocks(r)
           n == Len(b)
           h == HitCount(t, r)
           g == config.budget
           u == stored(t, r)
           acc(k) == TokensOf(SubSeq(b, 1, k))
           fresh == Len(r.prompt) - HitTokens(t, r)
<1>1. BlockSet(B) /\ t \in Good(B)
    BY RequestBlocksAreBlocks
<1>2. /\ b \in Seq(B) /\ n \in Nat /\ TokensOf(b) = Len(r.prompt)
      /\ \A i, j \in 1 .. n : b[i].key = b[j].key => i = j
    BY RequestBlockFacts
<1>3. h \in 0 .. n /\ \A i \in 1 .. h : b[i].key \in Keys(t)
    BY HitFacts
<1>4. HitTokens(t, r) = acc(h) /\ HitTokens(t, r) \in 0 .. Len(r.prompt)
    BY HitFacts
<1>5. g = NoBudget \/ g \in Nat
    BY ConfigsAssumption
<1>6. u = Added(t, b, g)
    BY Zenon DEF stored, Added
<1>7. Len(r.prompt) \in Nat
    BY RequestsAssumption, LenProperties
<1> HIDE DEF B, b, h, g, u, n
<1>8. PICK run \in [0 .. Len(b) -> Good(B)] :
          /\ run[0] = t
          /\ \A k \in 1 .. Len(b) : run[k] = add(run[k - 1], b[k], g)
          /\ Added(t, b, g) = run[Len(b)]
    BY <1>1, <1>2, <1>5, AddRun
<1>9. \A k \in 1 .. n : /\ run[k - 1] \in Good(B) /\ b[k] \in B /\ k - 1 \in 0 .. n
                        /\ run[k] = add(run[k - 1], b[k], g)
    BY <1>2, <1>8, ElementOfSeq DEF n
<1>10. \A e \in B : e.token_count \in Nat
    BY <1>1 DEF BlockSet
<1>11. \A k \in 0 .. n : acc(k) \in Nat
    BY <1>2, <1>10, TokensOfSplit DEF n
<1>12. \A k \in 1 .. n : acc(k) = acc(k - 1) + b[k].token_count
  <2> SUFFICES ASSUME NEW k \in 1 .. n PROVE acc(k) = acc(k - 1) + b[k].token_count
      OBVIOUS
  <2>1. /\ SubSeq(b, 1, k) = Append(SubSeq(b, 1, k - 1), b[k])
        /\ SubSeq(b, 1, k - 1) \in Seq(B) /\ b[k] \in B
      BY <1>2, PrefixOneMore DEF n
  <2>2. QED
      BY <2>1, <1>10, TokensOfAppend
<1>13. acc(n) = Len(r.prompt)
  <2>1. SubSeq(b, 1, n) = b
      BY <1>2, SubSeqFull DEF n
  <2>2. QED
      BY <2>1, <1>2
<1> HIDE DEF acc
<1>14. footprint(t) \in Nat /\ t.lookup_count \in Nat /\ t.hit_count \in Nat
    BY <1>1, GoodFacts DEF footprint
<1>15. ASSUME NEW k \in 1 .. n
       PROVE  LET v == run[k - 1]
                  w == run[k]
                  e == b[k]
              IN  /\ w \in Good(B)
                  /\ w.lookup_count = v.lookup_count
                  /\ w.hit_count = v.hit_count
                  /\ g # NoBudget /\ cached_tokens(v) <= g => cached_tokens(w) <= g
                  /\ e.key \in Keys(v) => Keys(w) = Keys(v) /\ footprint(w) = footprint(v)
                  /\ footprint(w) <= footprint(v) + e.token_count
                  /\ Keys(w) \subseteq Keys(v) \cup {e.key}
                  /\ g = NoBudget => Keys(w) = Keys(v) \cup {e.key}
                  /\ g = NoBudget /\ e.key \notin Keys(v) =>
                         footprint(w) = footprint(v) + e.token_count
                  /\ footprint(v) \in Nat /\ footprint(w) \in Nat
                  /\ e.token_count \in Nat
                  /\ k \in Nat /\ k - 1 \in Nat /\ k - 1 \in 0 .. n /\ k \in 0 .. n
  <2> DEFINE v == run[k - 1]
             w == run[k]
             e == b[k]
  <2>1. v \in Good(B) /\ e \in B /\ w = add(v, e, g)
      BY <1>9
  <2> HIDE DEF v, w, e
  <2>2. /\ w \in Good(B)
        /\ w.lookup_count = v.lookup_count
        /\ w.hit_count = v.hit_count
        /\ g # NoBudget /\ cached_tokens(v) <= g => cached_tokens(w) <= g
        /\ e.key \in Keys(v) => Keys(w) = Keys(v) /\ footprint(w) = footprint(v)
        /\ footprint(w) <= footprint(v) + e.token_count
        /\ Keys(w) \subseteq Keys(v) \cup {e.key}
        /\ g = NoBudget => Keys(w) = Keys(v) \cup {e.key}
        /\ g = NoBudget /\ e.key \notin Keys(v) =>
               footprint(w) = footprint(v) + e.token_count
      BY <2>1, <1>1, <1>5, AddKeeps
  <2>3. footprint(v) \in Nat /\ footprint(w) \in Nat
      BY <2>1, <2>2, <1>1, GoodFacts DEF footprint
  <2>4. e.token_count \in Nat
      BY <2>1, <1>10
  <2>5. k \in Nat /\ k - 1 \in Nat /\ k - 1 \in 0 .. n /\ k \in 0 .. n
      BY <1>2
  <2>6. QED
      BY <2>2, <2>3, <2>4, <2>5 DEF v, w, e
<1> DEFINE Kept(w) == /\ w.lookup_count = t.lookup_count
                      /\ w.hit_count = t.hit_count
                      /\ g # NoBudget /\ cached_tokens(t) <= g => cached_tokens(w) <= g
           P1 == {k \in 0 .. n : Kept(run[k])}
<1>16. \A k \in 0 .. n : k \in P1
  <2>1. 0 \in P1
      BY <1>2, <1>8
  <2>2. \A k \in 1 .. n : k - 1 \in P1 => k \in P1
      BY <1>15
  <2> HIDE DEF P1
  <2>3. QED
      BY <2>1, <2>2, <1>2, InductionUpTo
<1> DEFINE P2 == {k \in 0 .. n : /\ k <= h => Keys(run[k]) = Keys(t) /\ footprint(run[k]) = footprint(t)
                                 /\ h <= k => footprint(run[k]) <= footprint(t) + (acc(k) - acc(h))}
<1>17. \A k \in 0 .. n : k \in P2
  <2>1. 0 \in P2
      BY <1>2, <1>3, <1>8, <1>11, <1>14
  <2>2. ASSUME NEW k \in 1 .. n, k - 1 \in P2 PROVE k \in P2
    <3>1. CASE k <= h
      <4>1. b[k].key \in Keys(run[k - 1])
          BY <3>1, <2>2, <1>3, <1>15
      <4>2. Keys(run[k]) = Keys(t) /\ footprint(run[k]) = footprint(t)
          BY <4>1, <3>1, <2>2, <1>3, <1>15
      <4>3. h <= k => acc(k) = acc(h)
          BY <3>1, <1>3
      <4>4. h <= k => footprint(run[k]) <= footprint(t) + (acc(k) - acc(h))
          BY <4>2, <4>3, <1>3, <1>11, <1>14
      <4>5. QED
          BY <4>2, <4>4
    <3>2. CASE ~(k <= h)
      <4>1. h <= k - 1 /\ k - 1 \in 0 .. n
          BY <3>2, <1>2, <1>3
      <4>2. footprint(run[k - 1]) <= footprint(t) + (acc(k - 1) - acc(h))
          BY <4>1, <2>2
      <4>3. footprint(run[k]) <= footprint(run[k - 1]) + b[k].token_count
          BY <1>15
      <4>4. acc(k) = acc(k - 1) + b[k].token_count
          BY <1>12
      <4>5. /\ footprint(run[k]) \in Nat /\ footprint(run[k - 1]) \in Nat
            /\ acc(k - 1) \in Nat /\ acc(h) \in Nat /\ b[k].token_count \in Nat
          BY <4>1, <1>3, <1>11, <1>15
      <4> DEFINE x == footprint(run[k])
                 y == footprint(run[k - 1])
                 c == b[k].token_count
                 f == footprint(t)
                 a == acc(k - 1)
                 a1 == acc(k)
                 a0 == acc(h)
      <4>6. footprint(run[k]) <= footprint(t) + (acc(k) - acc(h))
        <5>1. /\ x \in Nat /\ y \in Nat /\ c \in Nat /\ f \in Nat /\ a \in Nat /\ a0 \in Nat
              /\ x <= y + c /\ y <= f + (a - a0) /\ a1 = a + c
            BY <4>2, <4>3, <4>4, <4>5, <1>14
        <5> HIDE DEF x, y, c, f, a, a1, a0
        <5>2. x <= f + (a1 - a0)
            BY <5>1
        <5>3. QED
            BY <5>2 DEF x, f, a1, a0
      <4>7. QED
          BY <4>6, <3>2
    <3>3. QED
        BY <3>1, <3>2
  <2> HIDE DEF P2
  <2>3. QED
      BY <2>1, <2>2, <1>2, InductionUpTo
<1> DEFINE P3 == {k \in 0 .. n : /\ Keys(run[k]) \subseteq Keys(t) \cup {b[i].key : i \in 1 .. k}
                                 /\ g = NoBudget =>
                                        Keys(run[k]) = Keys(t) \cup {b[i].key : i \in 1 .. k}}
<1>18. \A k \in 0 .. n : k \in P3
  <2>1. 0 \in P3
      BY <1>2, <1>8
  <2>2. ASSUME NEW k \in 1 .. n, k - 1 \in P3
        PROVE  k \in P3
    <3>1. /\ Keys(run[k]) \subseteq Keys(run[k - 1]) \cup {b[k].key}
          /\ g = NoBudget => Keys(run[k]) = Keys(run[k - 1]) \cup {b[k].key}
        BY <1>15
    <3>2. {b[i].key : i \in 1 .. k} = {b[i].key : i \in 1 .. k - 1} \cup {b[k].key}
        BY <1>2
    <3>3. QED
        BY <3>1, <3>2, <2>2
  <2> HIDE DEF P3
  <2>4. QED
      BY <2>1, <2>2, <1>2, InductionUpTo
<1>19. ASSUME g = NoBudget, \A i \in 1 .. n : i > h => b[i].key \notin Keys(t)
       PROVE  footprint(run[n]) = footprint(t) + (acc(n) - acc(h))
  <2> DEFINE P == {k \in 0 .. n : h <= k => footprint(run[k]) = footprint(t) + (acc(k) - acc(h))}
  <2>1. 0 \in P
      BY <1>2, <1>3, <1>8, <1>11, <1>14
  <2>2. ASSUME NEW k \in 1 .. n, k - 1 \in P, h <= k
        PROVE  footprint(run[k]) = footprint(t) + (acc(k) - acc(h))
    <3>1. CASE k <= h
      <4>1. k = h
          BY <3>1, <2>2, <1>2, <1>3
      <4>2. footprint(run[k]) = footprint(t)
          BY <4>1, <1>17, <1>3
      <4>3. QED
          BY <4>1, <4>2, <1>3, <1>11, <1>14
    <3>2. CASE ~(k <= h)
      <4>1. h <= k - 1 /\ k - 1 \in 0 .. n /\ k > h
          BY <3>2, <1>2, <1>3
      <4>2. footprint(run[k - 1]) = footprint(t) + (acc(k - 1) - acc(h))
          BY <4>1, <2>2
      <4>3. b[k].key \notin Keys(run[k - 1])
        <5>1. Keys(run[k - 1]) = Keys(t) \cup {b[i].key : i \in 1 .. k - 1}
            BY <4>1, <1>18, <1>19
        <5>2. \A i \in 1 .. k - 1 : i \in 1 .. n /\ i # k
            BY <1>2
        <5>3. \A i \in 1 .. k - 1 : b[i].key # b[k].key
            BY <5>2, <1>2
        <5>4. b[k].key \notin Keys(t)
            BY <4>1, <1>19
        <5>5. QED
            BY <5>1, <5>3, <5>4
      <4>4. footprint(run[k]) = footprint(run[k - 1]) + b[k].token_count
          BY <4>3, <1>15, <1>19
      <4>5. acc(k) = acc(k - 1) + b[k].token_count
          BY <1>12
      <4>6. /\ footprint(run[k]) \in Nat /\ footprint(run[k - 1]) \in Nat
            /\ acc(k - 1) \in Nat /\ acc(h) \in Nat /\ b[k].token_count \in Nat
          BY <4>1, <1>3, <1>11, <1>15
      <4> DEFINE x == footprint(run[k])
                 y == footprint(run[k - 1])
                 c == b[k].token_count
                 f == footprint(t)
                 a == acc(k - 1)
                 a1 == acc(k)
                 a0 == acc(h)
      <4>7. /\ x \in Nat /\ y \in Nat /\ c \in Nat /\ f \in Nat /\ a \in Nat /\ a0 \in Nat
            /\ x = y + c /\ y = f + (a - a0) /\ a1 = a + c
          BY <4>2, <4>4, <4>5, <4>6, <1>14
      <4> HIDE DEF x, y, c, f, a, a1, a0
      <4>8. x = f + (a1 - a0)
          BY <4>7
      <4>9. QED
          BY <4>8 DEF x, f, a1, a0
    <3>3. QED
        BY <3>1, <3>2
  <2>3. \A k \in 1 .. n : k - 1 \in P => k \in P
      BY <2>2
  <2> HIDE DEF P
  <2>4. \A k \in 0 .. n : k \in P
      BY <2>1, <2>3, <1>2, InductionUpTo
  <2>5. n \in P
      BY <2>4, <1>2
  <2>6. QED
      BY <2>5, <1>2, <1>3 DEF P
<1>20. ASSUME g = NoBudget \/ Len(r.prompt) <= g
       PROVE  \A i \in 1 .. n : b[i].key \in Keys(run[n])
  <2> DEFINE P == {k \in 0 .. n : EndsWith(run[k], b, k)}
  <2>1. 0 \in P
    <3>1. Len(t.blocks) \in Nat
        BY <1>1, GoodFacts
    <3>2. QED
        BY <3>1, <1>2, <1>8 DEF EndsWith
  <2>2. ASSUME NEW k \in 1 .. n, EndsWith(run[k - 1], b, k - 1) PROVE EndsWith(run[k], b, k)
    <3>1. g = NoBudget \/ (g \in Nat /\ TokensOf(b) <= g)
        BY <1>2, <1>5, <1>20
    <3>2. run[k - 1] \in Good(B) /\ run[k] = add(run[k - 1], b[k], g) /\ k \in 1 .. Len(b)
        BY <1>9 DEF n
    <3>3. \A i, j \in 1 .. Len(b) : b[i].key = b[j].key => i = j
        BY <1>2 DEF n
    <3>4. b \in Seq(B)
        BY <1>2
    <3>5. QED
        BY <3>1, <3>2, <3>3, <3>4, <2>2, <1>1, AddEnds
  <2>3. \A k \in 1 .. n : k - 1 \in P => k \in P
      BY <2>2
  <2> HIDE DEF P
  <2>3a. \A k \in 0 .. n : k \in P
      BY <2>1, <2>3, <1>2, InductionUpTo
  <2>4. n \in P
      BY <2>3a, <1>2
  <2> DEFINE w == run[n]
  <2>5. w \in Good(B) /\ Len(w.blocks) \in Nat
    <3>1. n \in 0 .. Len(b)
        BY <1>2 DEF n
    <3>2. w \in Good(B)
        BY <3>1, <1>8
    <3> HIDE DEF w
    <3>3. QED
        BY <3>2, <1>1, GoodFacts
  <2>6. n <= Len(w.blocks) /\ \A i \in 1 .. n : w.blocks[(Len(w.blocks) - n) + i] = b[i]
      BY <2>4 DEF P, EndsWith
  <2> HIDE DEF w
  <2>7. \A i \in 1 .. n : (Len(w.blocks) - n) + i \in 1 .. Len(w.blocks)
      BY <2>5, <2>6, <1>2
  <2>8. \A i \in 1 .. n : b[i].key \in Keys(w)
      BY <2>6, <2>7 DEF Keys
  <2>9. QED
      BY <2>8 DEF w
<1>21. u = run[n] /\ n \in 0 .. n /\ u \in Good(B)
  <2>1. n \in 0 .. Len(b)
      BY <1>2 DEF n
  <2>2. QED
      BY <2>1, <1>2, <1>6, <1>8 DEF n
<1>22. fresh = acc(n) - acc(h)
    BY <1>4, <1>13
<1> HIDE DEF fresh
<1>23. Kept(u)
    BY <1>16, <1>21
<1>24. footprint(u) <= footprint(t) + fresh
    BY <1>17, <1>21, <1>22, <1>3
<1>25. /\ Keys(u) \subseteq Keys(t) \cup {b[i].key : i \in 1 .. n}
       /\ g = NoBudget => Keys(u) = Keys(t) \cup {b[i].key : i \in 1 .. n}
    BY <1>18, <1>21
<1>26. g = NoBudget /\ (\A i \in 1 .. n : i > h => b[i].key \notin Keys(t)) =>
           footprint(u) = footprint(t) + fresh
    BY <1>19, <1>21, <1>22
<1>27. g = NoBudget \/ Len(r.prompt) <= g => \A i \in 1 .. n : b[i].key \in Keys(u)
    BY <1>20, <1>21
<1>28. QED
    BY <1>21, <1>23, <1>24, <1>25, <1>26, <1>27 DEF u, b, n, h, g, fresh, B

-------------------------------------------------------------------------------
(* The inductive invariant *)

\* With a key, the keys of all the blocks before it are there.
Closed(K) == \A x \in K : \A j \in 1 .. Len(x[2]) : <<x[1], SubSeq(x[2], 1, j)>> \in K

\* The prompt tokens that were not reused so far.
uncached == total_prompt_tokens - total_cached_prefix_tokens

\* The whole prompt of r is within the budget.
fits(r) == config.budget = NoBudget \/ Len(r.prompt) <= config.budget

\* The totals of the cache model: a request counted for each one observed, and
\* no more tokens reused than prompted.
Counted ==
    /\ config \in Configs
    /\ observed \in Seq(Requests)
    /\ request_count = Len(observed)
    /\ total_prompt_tokens \in Nat
    /\ total_cached_prefix_tokens \in 0 .. total_prompt_tokens

\* Only copy_on_write keeps adapter deltas, one for a key.
Deltas ==
    /\ \A d, e \in delta_tokens : d.key = e.key => d = e
    /\ config.model # "copy_on_write" => delta_tokens = {}

\* The table: within the budget, nothing stored that was reused, and at most one
\* miss for each request, for the lookup loop stops at the first.
Stored ==
    /\ table \in Good(RequestBlocks)
    /\ config.budget # NoBudget => cached_tokens(table) <= config.budget
    /\ footprint(table) <= uncached
    /\ table.lookup_count - table.hit_count <= request_count

\* A cold or disabled cache reuses nothing.
NoReuse ==
    config.condition # "warm" => total_cached_prefix_tokens = 0 /\ table.hit_count = 0

\* Without a budget, an invocation or a reset, every token that was not reused is
\* in the table exactly once.
Unbounded ==
    config.budget = NoBudget /\ config.condition = "warm" /\ config.model # "activated_lora" =>
        footprint(table) = uncached /\ Closed(Keys(table))

\* What the latest request stored is still there.
LastStored ==
    config.condition = "warm" /\ observed # <<>> /\ fits(Last(observed)) =>
        LET b == request_blocks(Last(observed))
        IN  \A i \in 1 .. Len(b) : b[i].key \in Keys(table)

\* The keys of the blocks of q.
BlockKeys(q) == {request_blocks(q)[i].key : i \in 1 .. Len(request_blocks(q))}

\* The keys of the blocks of the observed requests.
KnownKeys == UNION {BlockKeys(q) : q \in ToSet(observed)}

\* A warm table holds blocks of observed requests, and all of them if nothing is
\* evicted.
History ==
    config.condition = "warm" =>
        /\ Keys(table) \subseteq KnownKeys
        /\ config.budget = NoBudget => Keys(table) = KnownKeys

\* The inductive invariant.
CacheInv == Counted /\ Deltas /\ Stored /\ NoReuse /\ Unbounded /\ LastStored /\ History

\* The blocks of a request depend on the state by the configuration only.
LEMMA SameBlocks ==
    ASSUME config' = config
    PROVE  /\ RequestBlocks' = RequestBlocks
           /\ \A r : request_blocks(r)' = request_blocks(r)
           /\ \A r : BlockKeys(r)' = BlockKeys(r)
<1>1. \A r : isolation_id(r)' = isolation_id(r)
    BY DEF isolation_id
<1>2. \A r : segments(r)' = segments(r)
    BY <1>1 DEF segments
<1>3. \A r : request_blocks(r)' = request_blocks(r)
    BY <1>2 DEF request_blocks
<1>4. \A r : BlockKeys(r)' = BlockKeys(r)
    BY <1>3 DEF BlockKeys
<1>5. QED
    BY <1>3, <1>4 DEF RequestBlocks

-------------------------------------------------------------------------------
(* The steps *)

\* A new cache model satisfies it.
LEMMA InitInv == Init => CacheInv
<1> SUFFICES ASSUME Init PROVE CacheInv
    OBVIOUS
<1>1. /\ EmptyTable \in Good(RequestBlocks) /\ cached_tokens(EmptyTable) = 0
      /\ Keys(EmptyTable) = {}
    BY EmptyTableGood
<1>2. /\ EmptyTable.evicted_token_count = 0 /\ EmptyTable.lookup_count = 0
      /\ EmptyTable.hit_count = 0
    BY DEF EmptyTable
<1>3. <<>> \in Seq(Requests) /\ Len(<<>>) = 0
    BY EmptySeq
<1>4. Counted
    BY <1>3 DEF Init, Counted
<1>5. Deltas
    BY DEF Init, Deltas
<1>6. footprint(EmptyTable) = 0 /\ uncached = 0
    BY <1>1, <1>2 DEF footprint, uncached, Init
<1>7. Stored
  <2>1. config.budget # NoBudget => config.budget \in Nat
      BY ConfigsAssumption DEF Init
  <2>2. QED
      BY <2>1, <1>1, <1>2, <1>6 DEF Init, Stored
<1>8. NoReuse
    BY <1>2 DEF Init, NoReuse
<1>9. Unbounded
    BY <1>1, <1>6 DEF Init, Unbounded, Closed
<1>10. LastStored
    BY DEF Init, LastStored
<1>11. History
  <2>1. ToSet(<<>>) = {}
      BY <1>3 DEF ToSet
  <2>2. KnownKeys = {}
      BY <2>1 DEF KnownKeys, Init
  <2>3. QED
      BY <2>2, <1>1 DEF Init, History
<1>12. QED
    BY <1>4, <1>5, <1>7, <1>8, <1>9, <1>10, <1>11 DEF CacheInv

\* So does a stutter.
LEMMA InvUnchanged == CacheInv /\ UNCHANGED vars => CacheInv'
<1> SUFFICES ASSUME CacheInv, UNCHANGED vars PROVE CacheInv'
    OBVIOUS
<1>1. /\ config' = config /\ table' = table /\ delta_tokens' = delta_tokens
      /\ request_count' = request_count /\ total_prompt_tokens' = total_prompt_tokens
      /\ total_cached_prefix_tokens' = total_cached_prefix_tokens /\ observed' = observed
    BY DEF vars
<1>2. /\ RequestBlocks' = RequestBlocks
      /\ \A r : request_blocks(r)' = request_blocks(r)
      /\ KnownKeys' = KnownKeys
    BY <1>1, SameBlocks DEF KnownKeys
<1>3. uncached' = uncached
    BY <1>1 DEF uncached
<1>4. Counted' /\ Deltas' /\ NoReuse'
    BY <1>1 DEF CacheInv, Counted, Deltas, NoReuse
<1>5. Stored' /\ Unbounded'
    BY <1>1, <1>2, <1>3 DEF CacheInv, Stored, Unbounded
<1>6. LastStored'
    BY <1>1, <1>2 DEF CacheInv, LastStored, fits
<1>7. History'
    BY <1>1, <1>2 DEF CacheInv, History
<1>8. QED
    BY <1>4, <1>5, <1>6, <1>7 DEF CacheInv

\* The bookkeeping common to both actions.
LEMMA LastAppended ==
    ASSUME NEW S, NEW s \in Seq(S), NEW r \in S
    PROVE  /\ Append(s, r) \in Seq(S) /\ Len(Append(s, r)) = Len(s) + 1
           /\ Last(Append(s, r)) = r /\ Len(s) \in Nat
           /\ ToSet(Append(s, r)) = ToSet(s) \cup {r}
<1>1. /\ Append(s, r) \in Seq(S) /\ Len(Append(s, r)) = Len(s) + 1
      /\ Append(s, r)[Len(s) + 1] = r /\ Len(s) \in Nat
    BY AppendProperties, LenProperties
<1>2. \A i \in 1 .. Len(s) : Append(s, r)[i] = s[i]
    BY AppendProperties
<1>3. ToSet(Append(s, r)) = ToSet(s) \cup {r}
  <2> DEFINE t == Append(s, r)
             n == Len(s)
  <2>1. /\ DOMAIN t = 1 .. n + 1 /\ DOMAIN s = 1 .. n /\ n \in Nat
        /\ t[n + 1] = r /\ \A i \in 1 .. n : t[i] = s[i]
      BY <1>1, <1>2, LenProperties
  <2> HIDE DEF t, n
  <2>2. \A i \in 1 .. n + 1 : i \in 1 .. n \/ i = n + 1
      BY <2>1
  <2>3. 1 .. n \subseteq 1 .. n + 1 /\ n + 1 \in 1 .. n + 1
      BY <2>1
  <2>4. ToSet(t) = ToSet(s) \cup {r}
      BY <2>1, <2>2, <2>3 DEF ToSet
  <2>5. QED
      BY <2>4 DEF t
<1>4. QED
    BY <1>1, <1>3 DEF Last

\* The early return of observe for prefix_disabled keeps it.
LEMMA DisabledStep ==
    ASSUME CacheInv, NEW r \in Requests, ObserveDisabled(r)
    PROVE  CacheInv'
<1>1. /\ config.condition = "prefix_disabled"
      /\ config' = config /\ table' = table /\ delta_tokens' = delta_tokens
      /\ request_count' = request_count + 1
      /\ total_prompt_tokens' = total_prompt_tokens + Len(r.prompt)
      /\ total_cached_prefix_tokens' = total_cached_prefix_tokens
      /\ observed' = Append(observed, r)
    BY DEF ObserveDisabled, count_request
<1>2. Counted /\ Deltas /\ Stored /\ NoReuse
    BY DEF CacheInv
<1>3. RequestBlocks' = RequestBlocks
    BY <1>1, SameBlocks
<1>4. Len(r.prompt) \in Nat
    BY RequestsAssumption, LenProperties
<1>5. Counted'
  <2>1. /\ observed' \in Seq(Requests) /\ Len(observed') = Len(observed) + 1
      BY <1>1, <1>2, LastAppended DEF Counted
  <2>2. QED
      BY <2>1, <1>1, <1>2, <1>4 DEF Counted
<1>6. Deltas'
    BY <1>1, <1>2 DEF Deltas
<1>7. Stored'
  <2>1. /\ uncached' = uncached + Len(r.prompt) /\ uncached \in Nat /\ request_count \in Nat
    <3>1. Len(observed) \in Nat
        BY <1>2, LenProperties DEF Counted
    <3>2. QED
        BY <3>1, <1>1, <1>2, <1>4 DEF Counted, uncached
  <2>2. footprint(table) \in Nat /\ table.lookup_count \in Nat /\ table.hit_count \in Nat
      BY <1>2, RequestBlocksAreBlocks, GoodFacts DEF Stored, Counted, footprint
  <2>3. footprint(table) <= uncached' /\ table.lookup_count - table.hit_count <= request_count'
      BY <2>1, <2>2, <1>1, <1>2, <1>4 DEF Stored
  <2>4. QED
      BY <2>3, <1>1, <1>2, <1>3 DEF Stored
<1>8. NoReuse'
    BY <1>1, <1>2 DEF NoReuse
<1>9. Unbounded' /\ LastStored' /\ History'
    BY <1>1 DEF Unbounded, LastStored, History
<1>10. QED
    BY <1>5, <1>6, <1>7, <1>8, <1>9 DEF CacheInv

\* Without a segment of its own after the invocation a request finds nothing
\* past its first miss.
LEMMA NothingPastMiss ==
    ASSUME NEW r \in Requests, config \in Configs, NEW t \in Good(RequestBlocks),
           config.model # "activated_lora", Closed(Keys(t))
    PROVE  \A i \in 1 .. Len(request_blocks(r)) :
               i > HitCount(t, r) => request_blocks(r)[i].key \notin Keys(t)
<1> DEFINE b == request_blocks(r)
           h == HitCount(t, r)
<1>1. PICK a : \A k \in 1 .. Len(b) : b[k].key = <<a, path(r.prompt, k)>> /\ k \in 1 .. count(r.prompt)
    BY RequestBlockFacts
<1>2. Len(b) \in Nat
    BY RequestBlockFacts
<1>3. h \in 0 .. Len(b) /\ (h < Len(b) => b[h + 1].key \notin Keys(t))
    BY HitFacts
<1> HIDE DEF b, h
<1>4. r.prompt \in Seq(ToSet(r.prompt))
    BY RequestsAssumption
<1>5. ASSUME NEW i \in 1 .. Len(b), i > h, b[i].key \in Keys(t)
      PROVE  FALSE
  <2> DEFINE p == path(r.prompt, i)
  <2>1. b[i].key = <<a, p>> /\ i \in 1 .. count(r.prompt)
      BY <1>1
  <2>2. Len(p) = i /\ \A j \in 1 .. i : SubSeq(p, 1, j) = path(r.prompt, j)
      BY <2>1, <1>4, PathFacts
  <2>3. h + 1 \in 1 .. i /\ h + 1 \in 1 .. Len(b) /\ h < Len(b)
      BY <1>2, <1>3, <1>5
  <2> HIDE DEF p
  <2>4. \A j \in 1 .. Len(p) : <<a, SubSeq(p, 1, j)>> \in Keys(t)
    <3>1. <<a, p>> \in Keys(t) /\ <<a, p>>[1] = a /\ <<a, p>>[2] = p
        BY <2>1, <1>5
    <3>2. QED
        BY <3>1, Zenon DEF Closed
  <2>5. <<a, path(r.prompt, h + 1)>> \in Keys(t)
      BY <2>2, <2>3, <2>4
  <2>6. QED
      BY <2>3, <2>5, <1>1, <1>3
<1>6. QED
    BY <1>5 DEF b, h

\* Storing all the blocks of a request keeps the keys closed.
LEMMA StillClosed ==
    ASSUME NEW r \in Requests, config \in Configs, NEW K, NEW L,
           config.model # "activated_lora", Closed(K),
           L = K \cup {request_blocks(r)[i].key : i \in 1 .. Len(request_blocks(r))}
    PROVE  Closed(L)
<1> DEFINE b == request_blocks(r)
<1>1. PICK a : \A k \in 1 .. Len(b) : b[k].key = <<a, path(r.prompt, k)>> /\ k \in 1 .. count(r.prompt)
    BY RequestBlockFacts
<1>2. Len(b) \in Nat
    BY RequestBlockFacts
<1> HIDE DEF b
<1>3. r.prompt \in Seq(ToSet(r.prompt))
    BY RequestsAssumption
<1>4. ASSUME NEW i \in 1 .. Len(b), NEW j \in 1 .. Len(b[i].key[2])
      PROVE  <<b[i].key[1], SubSeq(b[i].key[2], 1, j)>> \in L
  <2> DEFINE p == path(r.prompt, i)
  <2>1. b[i].key = <<a, p>> /\ i \in 1 .. count(r.prompt)
      BY <1>1
  <2>2. Len(p) = i /\ \A k \in 1 .. i : SubSeq(p, 1, k) = path(r.prompt, k)
      BY <2>1, <1>3, PathFacts
  <2> HIDE DEF p
  <2>3. b[i].key[1] = a /\ b[i].key[2] = p
      BY <2>1
  <2>4. j \in 1 .. i /\ j \in 1 .. Len(b)
      BY <2>2, <2>3, <1>2
  <2>5. <<a, SubSeq(p, 1, j)>> = b[j].key
      BY <2>2, <2>4, <1>1
  <2>6. QED
      BY <2>3, <2>4, <2>5 DEF b
<1>5. \A x \in K : \A j \in 1 .. Len(x[2]) : <<x[1], SubSeq(x[2], 1, j)>> \in L
    BY DEF Closed
<1>6. QED
    BY <1>4, <1>5 DEF Closed, b

\* Observe, the parts of it: the table t that is looked up, l after the lookup
\* and the table in which the blocks have been stored.
LEMMA ObservedTables ==
    ASSUME CacheInv, NEW r \in Requests
    PROVE  LET t == storage
               l == looked_up(t, r)
               hit == HitTokens(t, r)
               fresh == Len(r.prompt) - hit
           IN  /\ config \in Configs /\ Len(r.prompt) \in Nat
               /\ t \in Good(RequestBlocks) /\ l \in Good(RequestBlocks)
               /\ hit \in 0 .. Len(r.prompt)
               /\ Keys(l) = Keys(t) /\ HitCount(l, r) = HitCount(t, r) /\ HitTokens(l, r) = hit
               /\ cached_tokens(l) = cached_tokens(t) /\ footprint(l) = footprint(t)
               /\ footprint(t) <= uncached
               /\ config.budget # NoBudget => cached_tokens(t) <= config.budget
               /\ l.lookup_count - l.hit_count <= request_count + 1
               /\ config.condition = "cold" => hit = 0 /\ l.hit_count = 0
               /\ config.condition = "warm" => t = table
<1> DEFINE t == storage
           l == looked_up(t, r)
           hit == HitTokens(t, r)
<1>1. Counted /\ Stored /\ config \in Configs
    BY DEF CacheInv, Counted
<1>2. Len(r.prompt) \in Nat
    BY RequestsAssumption, LenProperties
<1>3. /\ uncached \in Nat /\ request_count \in Nat
  <2>1. Len(observed) \in Nat
      BY <1>1, LenProperties DEF Counted
  <2>2. QED
      BY <2>1, <1>1 DEF Counted, uncached
<1>4. /\ t \in Good(RequestBlocks)
      /\ footprint(t) <= uncached
      /\ config.budget # NoBudget => cached_tokens(t) <= config.budget
      /\ t.lookup_count - t.hit_count <= request_count
      /\ config.condition = "cold" => Keys(t) = {} /\ t.hit_count = 0
      /\ config.condition = "warm" => t = table
  <2>1. CASE config.condition = "cold"
    <3>1. t = EmptyTable
        BY <2>1 DEF storage
    <3>2. /\ EmptyTable \in Good(RequestBlocks) /\ cached_tokens(EmptyTable) = 0
          /\ Keys(EmptyTable) = {}
        BY EmptyTableGood
    <3>3. /\ EmptyTable.evicted_token_count = 0 /\ EmptyTable.lookup_count = 0
          /\ EmptyTable.hit_count = 0
        BY DEF EmptyTable
    <3>4. footprint(EmptyTable) = 0
        BY <3>2, <3>3 DEF footprint
    <3>5. config.budget # NoBudget => config.budget \in Nat
        BY <1>1, ConfigsAssumption
    <3> HIDE DEF t
    <3>6. QED
        BY <2>1, <3>1, <3>2, <3>3, <3>4, <3>5, <1>3
  <2>2. CASE config.condition # "cold"
    <3>1. t = table
        BY <2>2 DEF storage
    <3> HIDE DEF t
    <3>2. QED
        BY <2>2, <3>1, <1>1 DEF Stored
  <2>3. QED
      BY <2>1, <2>2
<1> HIDE DEF t
<1>5. /\ l \in Good(RequestBlocks) /\ Keys(l) = Keys(t) /\ cached_tokens(l) = cached_tokens(t)
      /\ l.evicted_token_count = t.evicted_token_count
      /\ l.lookup_count - l.hit_count <= t.lookup_count - t.hit_count + 1
      /\ l.hit_count <= t.hit_count + HitCount(t, r)
    BY <1>1, <1>4, LookedUpFacts
<1> HIDE DEF l
<1>6. hit \in 0 .. Len(r.prompt) /\ hit = TokensOf(SubSeq(request_blocks(r), 1, HitCount(t, r)))
    BY <1>1, <1>4, HitFacts
<1>7. HitCount(l, r) = HitCount(t, r)
    BY <1>5, Zenon DEF HitCount
<1>8. HitTokens(l, r) = hit
    BY <1>7, Zenon DEF HitTokens
<1>9. footprint(l) = footprint(t)
    BY <1>5 DEF footprint
<1>10. /\ t.lookup_count \in Nat /\ t.hit_count \in Nat
       /\ l.lookup_count \in Nat /\ l.hit_count \in Nat
    BY <1>1, <1>4, <1>5, RequestBlocksAreBlocks, GoodFacts
<1>11. l.lookup_count - l.hit_count <= request_count + 1
    BY <1>3, <1>4, <1>5, <1>10
<1>12. ASSUME config.condition = "cold" PROVE hit = 0 /\ l.hit_count = 0
  <2>1. HitCount(t, r) = 0
    <3>1. /\ HitCount(t, r) \in 0 .. Len(request_blocks(r))
          /\ \A i \in 1 .. HitCount(t, r) : request_blocks(r)[i].key \in Keys(t)
        BY <1>1, <1>4, HitFacts
    <3>2. Len(request_blocks(r)) \in Nat
        BY <1>1, RequestBlockFacts
    <3>3. \A i \in 1 .. HitCount(t, r) : FALSE
        BY <3>1, <1>4, <1>12
    <3>4. QED
        BY <3>1, <3>2, <3>3
  <2>2. SubSeq(request_blocks(r), 1, 0) = <<>>
      BY <1>1, RequestBlockFacts, SubSeqEmpty
  <2>3. hit = 0
      BY <2>1, <2>2, <1>6, TokensOfNothing, Zenon
  <2>4. l.hit_count = 0
      BY <2>1, <1>4, <1>5, <1>10, <1>12
  <2>5. QED
      BY <2>3, <2>4
<1>13. QED
    BY <1>1, <1>2, <1>4, <1>5, <1>6, <1>7, <1>8, <1>9, <1>11, <1>12 DEF t, l

\* No deltas, no delta tokens.
LEMMA NoSum == MapThenSumSet(LAMBDA d : d.tokens, {}) = 0
BY Zenon DEF MapThenSumSet, MapThenFoldSet

\* observe keeps it.
LEMMA ObserveStep ==
    ASSUME CacheInv, NEW r \in Requests, Observe(r)
    PROVE  CacheInv'
<1> DEFINE t == storage
           l == looked_up(t, r)
           u == stored(l, r)
           hit == HitTokens(t, r)
           b == request_blocks(r)
           fresh == Len(r.prompt) - hit
<1>1. /\ config.condition # "prefix_disabled"
      /\ config' = config /\ table' = u
      /\ record_delta(r)
      /\ request_count' = request_count + 1
      /\ total_prompt_tokens' = total_prompt_tokens + Len(r.prompt)
      /\ total_cached_prefix_tokens' = total_cached_prefix_tokens + hit
      /\ observed' = Append(observed, r)
    BY DEF Observe, count_request
<1>2. Counted /\ Deltas /\ Stored /\ NoReuse /\ Unbounded /\ History
    BY DEF CacheInv
<1>3. /\ RequestBlocks' = RequestBlocks
      /\ \A q : request_blocks(q)' = request_blocks(q)
      /\ \A q : BlockKeys(q)' = BlockKeys(q)
    BY <1>1, SameBlocks
<1>4. /\ config \in Configs /\ Len(r.prompt) \in Nat
      /\ t \in Good(RequestBlocks) /\ l \in Good(RequestBlocks)
      /\ hit \in 0 .. Len(r.prompt)
      /\ Keys(l) = Keys(t) /\ HitCount(l, r) = HitCount(t, r) /\ HitTokens(l, r) = hit
      /\ cached_tokens(l) = cached_tokens(t) /\ footprint(l) = footprint(t)
      /\ footprint(t) <= uncached
      /\ config.budget # NoBudget => cached_tokens(t) <= config.budget
      /\ l.lookup_count - l.hit_count <= request_count + 1
      /\ config.condition = "cold" => hit = 0 /\ l.hit_count = 0
      /\ config.condition = "warm" => t = table
    BY ObservedTables
<1> HIDE DEF t, l, hit
<1>5. /\ u \in Good(RequestBlocks)
      /\ u.lookup_count = l.lookup_count
      /\ u.hit_count = l.hit_count
      /\ config.budget # NoBudget /\ cached_tokens(l) <= config.budget =>
             cached_tokens(u) <= config.budget
      /\ footprint(u) <= footprint(l) + fresh
      /\ Keys(u) \subseteq Keys(l) \cup {b[i].key : i \in 1 .. Len(b)}
      /\ config.budget = NoBudget =>
             Keys(u) = Keys(l) \cup {b[i].key : i \in 1 .. Len(b)}
      /\ config.budget = NoBudget
         /\ (\A i \in 1 .. Len(b) : i > HitCount(l, r) => b[i].key \notin Keys(l)) =>
             footprint(u) = footprint(l) + fresh
      /\ config.budget = NoBudget \/ Len(r.prompt) <= config.budget =>
             \A i \in 1 .. Len(b) : b[i].key \in Keys(u)
    BY <1>4, StoredFacts
<1> HIDE DEF u, b
<1>6. /\ observed' \in Seq(Requests) /\ Len(observed') = Len(observed) + 1
      /\ Last(observed') = r /\ Len(observed) \in Nat
      /\ ToSet(observed') = ToSet(observed) \cup {r}
    BY <1>1, <1>2, LastAppended DEF Counted
<1>7. /\ uncached \in Nat /\ uncached' = uncached + fresh /\ request_count \in Nat
    BY <1>1, <1>2, <1>4, <1>6 DEF Counted, uncached
<1>8. Counted'
    BY <1>1, <1>2, <1>4, <1>6 DEF Counted
<1>9. Deltas'
  <2>1. CASE config.model = "copy_on_write"
    <3> DEFINE kept == IF config.condition = "cold" THEN {} ELSE delta_tokens
               n == delta_of(r)
    <3>1. delta_tokens' = {d \in kept : d.key # n.key} \cup {n}
        BY <1>1, <2>1 DEF record_delta
    <3>2. \A d, e \in kept : d.key = e.key => d = e
        BY <1>2 DEF Deltas
    <3> HIDE DEF kept, n
    <3>3. \A d, e \in delta_tokens' : d.key = e.key => d = e
        BY <3>1, <3>2
    <3>4. QED
        BY <3>3, <2>1, <1>1 DEF Deltas
  <2>2. CASE config.model # "copy_on_write"
      BY <2>2, <1>1, <1>2 DEF record_delta, Deltas
  <2>3. QED
      BY <2>1, <2>2
<1>10. Stored'
  <2>1. config.budget # NoBudget => cached_tokens(u) <= config.budget
      BY <1>4, <1>5
  <2>2. footprint(u) <= uncached + fresh
    <3>1. footprint(u) \in Nat /\ footprint(t) \in Nat
      <4>1. \A v \in Good(RequestBlocks) : footprint(v) \in Nat
          BY <1>4, RequestBlocksAreBlocks, GoodFacts DEF footprint
      <4>2. QED
          BY <4>1, <1>4, <1>5
    <3>2. QED
        BY <3>1, <1>4, <1>5, <1>7
  <2>3. u.lookup_count - u.hit_count <= request_count + 1
      BY <1>4, <1>5
  <2>4. QED
      BY <2>1, <2>2, <2>3, <1>1, <1>3, <1>5, <1>7 DEF Stored
<1>11. NoReuse'
  <2>1. config.condition # "warm" => config.condition = "cold"
      BY <1>1, <1>4, ConfigsAssumption
  <2>2. QED
      BY <2>1, <1>1, <1>2, <1>4, <1>5 DEF NoReuse
<1>12. Unbounded'
  <2> SUFFICES ASSUME config.budget = NoBudget, config.condition = "warm",
                      config.model # "activated_lora"
               PROVE  footprint(u) = uncached + fresh /\ Closed(Keys(u))
      BY <1>1, <1>7 DEF Unbounded
  <2>1. t = table /\ footprint(t) = uncached /\ Closed(Keys(t))
      BY <1>2, <1>4 DEF Unbounded
  <2>2. \A i \in 1 .. Len(b) : i > HitCount(t, r) => b[i].key \notin Keys(t)
      BY <2>1, <1>4, NothingPastMiss DEF b
  <2>3. footprint(u) = footprint(l) + fresh
      BY <2>2, <1>4, <1>5
  <2>4. Keys(u) = Keys(t) \cup {b[i].key : i \in 1 .. Len(b)}
      BY <1>4, <1>5
  <2>5. Closed(Keys(u))
      BY <2>1, <2>4, <1>4, StillClosed DEF b
  <2>6. QED
      BY <2>1, <2>3, <2>5, <1>4
<1>13. LastStored'
  <2> SUFFICES ASSUME config.condition = "warm", config.budget = NoBudget \/ Len(r.prompt) <= config.budget
               PROVE  \A i \in 1 .. Len(b) : b[i].key \in Keys(u)
    <3>1. request_blocks(Last(observed))' = b
      <4>1. request_blocks(Last(observed))' = request_blocks(r)'
          BY <1>6
      <4>2. QED
          BY <4>1, <1>3 DEF b
    <3>2. fits(Last(observed))' = (config.budget = NoBudget \/ Len(r.prompt) <= config.budget)
        BY <1>1, <1>6 DEF fits
    <3>3. QED
        BY <3>1, <3>2, <1>1 DEF LastStored
  <2>1. QED
      BY <1>5
<1>14. History'
  <2> SUFFICES ASSUME config.condition = "warm"
               PROVE  /\ Keys(u) \subseteq KnownKeys'
                      /\ config.budget = NoBudget => Keys(u) = KnownKeys'
      BY <1>1 DEF History
  <2>1. KnownKeys' = KnownKeys \cup BlockKeys(r)
    <3>1. KnownKeys' = UNION {BlockKeys(q) : q \in ToSet(observed) \cup {r}}
        BY <1>3, <1>6 DEF KnownKeys
    <3>2. QED
        BY <3>1 DEF KnownKeys
  <2>2. BlockKeys(r) = {b[i].key : i \in 1 .. Len(b)}
      BY DEF BlockKeys, b
  <2>3. /\ Keys(l) \subseteq KnownKeys
        /\ config.budget = NoBudget => Keys(l) = KnownKeys
      BY <1>2, <1>4 DEF History
  <2>4. QED
      BY <2>1, <2>2, <2>3, <1>5
<1>15. QED
    BY <1>8, <1>9, <1>10, <1>11, <1>12, <1>13, <1>14 DEF CacheInv

\* Every reachable state satisfies it.
LEMMA SpecInv == Spec => []CacheInv
<1>1. CacheInv /\ [Next]_vars => CacheInv'
  <2> SUFFICES ASSUME CacheInv, [Next]_vars PROVE CacheInv'
      OBVIOUS
  <2>1. ASSUME NEW r \in Requests, ObserveDisabled(r) PROVE CacheInv'
      BY <2>1, DisabledStep
  <2>2. ASSUME NEW r \in Requests, Observe(r) PROVE CacheInv'
      BY <2>2, ObserveStep
  <2>3. CASE UNCHANGED vars
      BY <2>3, InvUnchanged
  <2>4. QED
      BY <2>1, <2>2, <2>3 DEF Next
<1>2. QED
    BY InitInv, <1>1, PTL DEF Spec

\* For every block size, policy and set of requests, a cache model keeps the
\* state its code declares: counters that are natural numbers, a table of blocks
\* with their logical twins, and as many requests counted as observed.
THEOREM TypeCorrect == Spec => []TypeOK
<1>1. CacheInv => TypeOK
    BY DEF CacheInv, Counted, Deltas, Stored, Good, KeysDiffer, TypeOK
<1>2. QED
    BY SpecInv, <1>1, PTL

\* A table with a budget never holds more tokens than the budget after observe
\* has returned, whatever its configuration, and the deltas of copy_on_write are
\* counted for that model only: evict_if_needed runs inside every add.
THEOREM StoresWithinBudget == Spec => []BudgetRespected
<1>1. CacheInv => BudgetRespected
  <2> SUFFICES ASSUME CacheInv, config.budget # NoBudget
               PROVE  /\ cached_tokens(table) <= config.budget
                      /\ config.model # "copy_on_write" => memory_tokens <= config.budget
      BY DEF BudgetRespected
  <2>1. cached_tokens(table) <= config.budget
      BY DEF CacheInv, Stored
  <2>2. ASSUME config.model # "copy_on_write" PROVE memory_tokens <= config.budget
    <3>1. delta_tokens = {}
        BY <2>2 DEF CacheInv, Deltas
    <3>2. MapThenSumSet(LAMBDA d : d.tokens, {}) = 0
        BY NoSum
    <3>3. memory_tokens = cached_tokens(table) + 0
        BY <3>1, <3>2, Zenon DEF memory_tokens
    <3>4. cached_tokens(table) \in Nat
        BY RequestBlocksAreBlocks, GoodFacts DEF CacheInv, Stored, Counted
    <3>5. QED
        BY <2>1, <3>3, <3>4
  <2>3. QED
      BY <2>1, <2>2
<1>2. QED
    BY SpecInv, <1>1, PTL

\* The totals that summary metrics are computed from agree with the table: what
\* is held and what was evicted is at most what was prompted and not reused, with
\* equality for a warm unbounded cache, and lookups miss at most once a request.
THEOREM CountersAddUp == Spec => []FootprintAccounted
<1>1. CacheInv => FootprintAccounted
    BY DEF CacheInv, Stored, Unbounded, FootprintAccounted, footprint, uncached
<1>2. QED
    BY SpecInv, <1>1, PTL

\* A warm cache that has room for a prompt reuses all of it when it is sent again
\* at once: nothing that observe stored last was evicted to make room for it.
THEOREM LastIsReusable == Spec => []LastPromptReusable
<1>1. CacheInv => LastPromptReusable
  <2> SUFFICES ASSUME CacheInv, config.condition = "warm", observed # <<>>, fits(Last(observed))
               PROVE  estimate_cached_prefix_tokens(Last(observed)) = Len(Last(observed).prompt)
      BY DEF LastPromptReusable, fits
  <2> DEFINE r == Last(observed)
             b == request_blocks(r)
             h == HitCount(table, r)
  <2>1. r \in Requests
    <3>1. observed \in Seq(Requests) /\ Len(observed) \in Nat
        BY LenProperties DEF CacheInv, Counted
    <3>2. Len(observed) \in 1 .. Len(observed)
        BY <3>1, EmptySeq
    <3>3. QED
        BY <3>1, <3>2, ElementOfSeq DEF Last
  <2>2. table \in Good(RequestBlocks) /\ config \in Configs
      BY DEF CacheInv, Stored, Counted
  <2>3. \A i \in 1 .. Len(b) : b[i].key \in Keys(table)
      BY DEF CacheInv, LastStored
  <2> HIDE DEF r
  <2>4. /\ h \in 0 .. Len(b) /\ (h < Len(b) => b[h + 1].key \notin Keys(table))
        /\ HitTokens(table, r) = TokensOf(SubSeq(b, 1, h))
      BY <2>1, <2>2, HitFacts
  <2>5. b \in Seq(RequestBlocks) /\ Len(b) \in Nat /\ TokensOf(b) = Len(r.prompt)
      BY <2>1, <2>2, RequestBlockFacts
  <2> HIDE DEF b, h
  <2>6. h = Len(b)
    <3>1. h < Len(b) => h + 1 \in 1 .. Len(b)
        BY <2>4, <2>5
    <3>2. QED
        BY <3>1, <2>3, <2>4, <2>5
  <2>7. SubSeq(b, 1, Len(b)) = b
      BY <2>5, SubSeqFull
  <2>8. HitTokens(table, r) = Len(r.prompt)
      BY <2>4, <2>5, <2>6, <2>7, Zenon
  <2>9. estimate_cached_prefix_tokens(r) = HitTokens(table, r)
      BY DEF estimate_cached_prefix_tokens
  <2>10. QED
      BY <2>8, <2>9 DEF r
<1>2. QED
    BY SpecInv, <1>1, PTL

-------------------------------------------------------------------------------
(* Reuse and the history of requests *)

\* Later chunks end later.
LEMMA EndsGrow ==
    ASSUME NEW S, NEW tokens \in Seq(S), NEW i \in 0 .. count(tokens), NEW j \in 0 .. count(tokens)
    PROVE  /\ end(tokens, i) \in 0 .. Len(tokens)
           /\ i <= j => end(tokens, i) <= end(tokens, j)
           /\ i < j => end(tokens, i) < end(tokens, j)
           /\ end(tokens, count(tokens)) = Len(tokens)
<1> DEFINE n == Len(tokens)
           c == count(tokens)
<1>1. /\ c \in Nat /\ end(tokens, 0) = 0 /\ end(tokens, c) = n
      /\ \A k \in 1 .. c : /\ end(tokens, k - 1) \in Nat
                           /\ end(tokens, k) \in 0 .. n
                           /\ end(tokens, k - 1) < end(tokens, k)
    BY CountFacts
<1>2. size \in Nat /\ n \in Nat
    BY SizeFacts, LenProperties
<1> HIDE DEF n, c
<1>3. ASSUME NEW a \in 0 .. c, NEW b \in 0 .. c, a <= b PROVE end(tokens, a) <= end(tokens, b)
  <2>1. a \in Nat /\ b \in Nat /\ a \in 0 .. b
      BY <1>1, <1>3
  <2>2. a * size \in Nat /\ b * size \in Nat /\ a * size <= b * size
      BY <2>1, <1>2, Multiples
  <2> DEFINE x == a * size
             y == b * size
  <2>3. /\ end(tokens, a) = IF x <= n THEN x ELSE n
        /\ end(tokens, b) = IF y <= n THEN y ELSE n
      BY DEF end, n
  <2>4. x \in Nat /\ y \in Nat /\ x <= y
      BY <2>2
  <2> HIDE DEF x, y
  <2>5. QED
      BY <2>3, <2>4, <1>2
<1>4. \A a \in 0 .. c : end(tokens, a) \in 0 .. n
  <2>1. \A a \in 0 .. c : a = 0 \/ a \in 1 .. c
      BY <1>1
  <2>2. QED
      BY <2>1, <1>1, <1>2
<1>5. ASSUME i < j PROVE end(tokens, i) < end(tokens, j)
  <2>1. i \in 0 .. c /\ j \in 0 .. c /\ i + 1 \in 0 .. c /\ i + 1 \in 1 .. c /\ i + 1 <= j /\ (i + 1) - 1 = i
      BY <1>1, <1>5 DEF c
  <2>2. end(tokens, i) < end(tokens, i + 1)
      BY <2>1, <1>1
  <2>3. end(tokens, i + 1) <= end(tokens, j)
      BY <2>1, <1>3
  <2>4. end(tokens, i) \in Nat /\ end(tokens, i + 1) \in Nat /\ end(tokens, j) \in Nat
      BY <2>1, <1>2, <1>4
  <2>5. QED
      BY <2>2, <2>3, <2>4
<1>6. QED
    BY <1>1, <1>3, <1>4, <1>5 DEF n, c

\* The prefixes of a concatenation.
LEMMA PrefixOfConcat ==
    ASSUME NEW T, NEW u \in Seq(T), NEW v \in Seq(T)
    PROVE  /\ \A h \in 0 .. Len(u) : SubSeq(u \o v, 1, h) = SubSeq(u, 1, h)
           /\ \A h \in 0 .. Len(v) : SubSeq(u \o v, 1, Len(u) + h) = u \o SubSeq(v, 1, h)
<1> DEFINE m == Len(u)
           n == Len(v)
           b == u \o v
<1>1. m \in Nat /\ n \in Nat
    BY LenProperties
<1>2. /\ b \in Seq(T) /\ Len(b) = m + n
      /\ \A k \in 1 .. m + n : b[k] = IF k <= m THEN u[k] ELSE v[k - m]
    BY ConcatProperties
<1> HIDE DEF b, m, n
<1>3. ASSUME NEW h \in 0 .. m PROVE SubSeq(b, 1, h) = SubSeq(u, 1, h)
  <2> DEFINE x == SubSeq(b, 1, h)
             y == SubSeq(u, 1, h)
  <2>1. h \in 0 .. Len(b) /\ h \in 0 .. Len(u)
      BY <1>1, <1>2 DEF m
  <2>2. /\ x \in Seq(T) /\ Len(x) = h /\ \A i \in 1 .. h : x[i] = b[i]
        /\ y \in Seq(T) /\ Len(y) = h /\ \A i \in 1 .. h : y[i] = u[i]
      BY <2>1, <1>2, PrefixFacts
  <2> HIDE DEF x, y
  <2>3. \A i \in 1 .. h : b[i] = u[i]
      BY <1>1, <1>2
  <2>4. x = y
      BY <2>2, <2>3, SeqEqual
  <2>5. QED
      BY <2>4 DEF x, y
<1>4. ASSUME NEW h \in 0 .. n PROVE SubSeq(b, 1, m + h) = u \o SubSeq(v, 1, h)
  <2> DEFINE x == SubSeq(b, 1, m + h)
             w == SubSeq(v, 1, h)
             y == u \o w
  <2>1. m + h \in 0 .. Len(b) /\ h \in 0 .. Len(v) /\ m + h \in Nat
      BY <1>1, <1>2 DEF n
  <2>2. /\ x \in Seq(T) /\ Len(x) = m + h /\ \A i \in 1 .. m + h : x[i] = b[i]
    <3> DEFINE g == m + h
    <3>1. g \in 0 .. Len(b)
        BY <2>1
    <3> HIDE DEF g
    <3>2. /\ SubSeq(b, 1, g) \in Seq(T) /\ Len(SubSeq(b, 1, g)) = g
          /\ \A i \in 1 .. g : SubSeq(b, 1, g)[i] = b[i]
        BY <3>1, <1>2, PrefixFacts
    <3>3. QED
        BY <3>2 DEF g
  <2>3. w \in Seq(T) /\ Len(w) = h /\ \A i \in 1 .. h : w[i] = v[i]
      BY <2>1, PrefixFacts
  <2> HIDE DEF x, w
  <2>4. /\ y \in Seq(T) /\ Len(y) = m + h
        /\ \A i \in 1 .. m + h : y[i] = IF i <= m THEN u[i] ELSE w[i - m]
    <3>1. /\ y \in Seq(T) /\ Len(y) = Len(u) + Len(w)
          /\ \A i \in 1 .. Len(u) + Len(w) : y[i] = IF i <= Len(u) THEN u[i] ELSE w[i - Len(u)]
        BY <2>3, ConcatProperties
    <3>2. QED
        BY <3>1, <2>3 DEF m
  <2> HIDE DEF y
  <2>5. ASSUME NEW i \in 1 .. m + h PROVE x[i] = y[i]
    <3>1. i \in 1 .. m + n /\ x[i] = b[i]
        BY <2>2, <1>1
    <3>2. CASE i <= m
        BY <3>1, <3>2, <2>4, <1>2
    <3>3. CASE ~(i <= m)
      <4>1. PICK j \in 1 .. h : j = i - m
          BY <3>3, <1>1
      <4>2. b[i] = v[j] /\ y[i] = w[j]
          BY <3>1, <3>3, <4>1, <2>4, <1>2
      <4>3. QED
          BY <3>1, <4>1, <4>2, <2>3
    <3>4. QED
        BY <3>2, <3>3
  <2>6. x = y
      BY <2>2, <2>4, <2>5, SeqEqual
  <2>7. QED
      BY <2>6 DEF x, y, w
<1>5. QED
    BY <1>3, <1>4 DEF b, m, n

\* The blocks of a request, section by section.
LEMMA BlocksBySection ==
    ASSUME NEW r \in Requests, config \in Configs
    PROVE  LET b == request_blocks(r)
               m == count(section(r, 1))
               n == count(section(r, 2))
           IN  /\ m \in Nat /\ n \in Nat /\ Len(b) = m + n
               /\ n # 0 => config.model = "activated_lora"
               /\ \A i \in 1 .. m : b[i].key = <<space(r, 1), path(section(r, 1), i)>>
               /\ \A i \in 1 .. n : b[m + i].key = <<space(r, 2), path(section(r, 2), i)>>
               /\ \A h \in 0 .. m : TokensOf(SubSeq(b, 1, h)) = end(section(r, 1), h)
               /\ \A h \in 0 .. n : TokensOf(SubSeq(b, 1, m + h))
                                        = Len(section(r, 1)) + end(section(r, 2), h)
<1> DEFINE S == ToSet(r.prompt)
           b == request_blocks(r)
           m == count(section(r, 1))
           n == count(section(r, 2))
<1>1. /\ section(r, 1) \in Seq(S) /\ section(r, 2) \in Seq(S)
      /\ config.model # "activated_lora" => section(r, 2) = <<>>
    BY SectionFacts
<1>2. PICK p, q :
          /\ p.tokens = section(r, 1) /\ q.tokens = section(r, 2)
          /\ p.namespace = space(r, 1)
          /\ config.model = "activated_lora" => q.namespace = space(r, 2)
          /\ b = segment_blocks(p) \o segment_blocks(q)
    BY RequestShape
<1> DEFINE u == segment_blocks(p)
           v == segment_blocks(q)
           T == ToSet(u) \cup ToSet(v)
<1> HIDE DEF S
<1>2a. p.tokens \in Seq(S) /\ q.tokens \in Seq(S)
    BY <1>1, <1>2
<1>3. /\ u \in Seq(ToSet(u)) /\ Len(u) = m /\ TokensOf(u) = Len(section(r, 1))
      /\ \A k \in 1 .. m : u[k].key = <<space(r, 1), path(section(r, 1), k)>> /\ u[k].token_count \in Nat
      /\ \A k \in 0 .. m : TokensOf(SubSeq(u, 1, k)) = end(section(r, 1), k)
  <2>1. /\ u \in Seq(ToSet(u)) /\ Len(u) = count(p.tokens) /\ TokensOf(u) = Len(p.tokens)
        /\ \A k \in 1 .. Len(u) : /\ u[k].key = <<p.namespace, path(p.tokens, k)>>
                                  /\ u[k].token_count \in Nat
        /\ \A k \in 0 .. Len(u) : TokensOf(SubSeq(u, 1, k)) = end(p.tokens, k)
      BY <1>2a, SegmentFacts
  <2>2. QED
      BY <2>1, <1>2
<1>4. /\ v \in Seq(ToSet(v)) /\ Len(v) = n
      /\ \A k \in 1 .. n : v[k].key = <<q.namespace, path(section(r, 2), k)>> /\ v[k].token_count \in Nat
      /\ \A k \in 0 .. n : TokensOf(SubSeq(v, 1, k)) = end(section(r, 2), k)
  <2>1. /\ v \in Seq(ToSet(v)) /\ Len(v) = count(q.tokens)
        /\ \A k \in 1 .. Len(v) : /\ v[k].key = <<q.namespace, path(q.tokens, k)>>
                                  /\ v[k].token_count \in Nat
        /\ \A k \in 0 .. Len(v) : TokensOf(SubSeq(v, 1, k)) = end(q.tokens, k)
      BY <1>2a, SegmentFacts
  <2>2. QED
      BY <2>1, <1>2
<1>5. config.model # "activated_lora" => n = 0
  <2>1. config.model # "activated_lora" => v = <<>>
      BY <1>1, <1>2, NoSegment
  <2>2. QED
      BY <2>1, <1>4, EmptySeq
<1>6. b = u \o v
    BY <1>2
<1> HIDE DEF u, v, b
<1>7. u \in Seq(T) /\ v \in Seq(T) /\ Len(u) \in Nat /\ Len(v) \in Nat
    BY <1>3, <1>4, SeqMonotonic, LenProperties
<1>8. \A e \in T : e.token_count \in Nat
  <2>1. \A e \in ToSet(u) : e.token_count \in Nat
      BY <1>3, <1>7, LenProperties DEF ToSet
  <2>2. \A e \in ToSet(v) : e.token_count \in Nat
      BY <1>4, <1>7, LenProperties DEF ToSet
  <2>3. QED
      BY <2>1, <2>2
<1> HIDE DEF T
<1>9. /\ Len(b) = Len(u) + Len(v)
      /\ \A k \in 1 .. Len(u) + Len(v) : b[k] = IF k <= Len(u) THEN u[k] ELSE v[k - Len(u)]
    BY <1>6, <1>7, ConcatProperties
<1>10. /\ \A h \in 0 .. Len(u) : SubSeq(b, 1, h) = SubSeq(u, 1, h)
       /\ \A h \in 0 .. Len(v) : SubSeq(b, 1, Len(u) + h) = u \o SubSeq(v, 1, h)
  <2>1. \A h \in 0 .. Len(u) : SubSeq(u \o v, 1, h) = SubSeq(u, 1, h)
      BY <1>7, PrefixOfConcat
  <2>2. \A h \in 0 .. Len(v) : SubSeq(u \o v, 1, Len(u) + h) = u \o SubSeq(v, 1, h)
      BY <1>7, PrefixOfConcat
  <2>3. QED
      BY <1>6, <2>1, <2>2
<1>11. \A h \in 0 .. Len(v) : TokensOf(SubSeq(b, 1, Len(u) + h)) = TokensOf(u) + TokensOf(SubSeq(v, 1, h))
  <2> SUFFICES ASSUME NEW h \in 0 .. Len(v)
               PROVE  TokensOf(u \o SubSeq(v, 1, h)) = TokensOf(u) + TokensOf(SubSeq(v, 1, h))
      BY <1>10
  <2>1. SubSeq(v, 1, h) \in Seq(T)
      BY <1>7, PrefixFacts
  <2>2. QED
      BY <2>1, <1>7, <1>8, TokensOfConcat
<1> HIDE DEF m, n
<1>12. m \in Nat /\ n \in Nat /\ Len(b) = m + n
    BY <1>3, <1>4, <1>7, <1>9
<1>13. \A i \in 1 .. m : b[i].key = <<space(r, 1), path(section(r, 1), i)>>
  <2>1. \A i \in 1 .. m : b[i] = u[i]
      BY <1>3, <1>4, <1>9, <1>12
  <2>2. QED
      BY <2>1, <1>3
<1>14. \A i \in 1 .. n : b[m + i].key = <<space(r, 2), path(section(r, 2), i)>>
  <2>1. \A i \in 1 .. n : b[m + i] = v[i]
    <3>1. \A i \in 1 .. n : m + i \in 1 .. m + n /\ ~(m + i <= m) /\ (m + i) - m = i
        BY <1>12
    <3>2. QED
        BY <3>1, <1>3, <1>4, <1>9
  <2>2. ASSUME NEW i \in 1 .. n PROVE q.namespace = space(r, 2)
      BY <1>2, <1>5, <1>12
  <2>3. QED
      BY <2>1, <2>2, <1>4
<1>15. \A h \in 0 .. m : TokensOf(SubSeq(b, 1, h)) = end(section(r, 1), h)
    BY <1>3, <1>10
<1>16. \A h \in 0 .. n : TokensOf(SubSeq(b, 1, m + h)) = Len(section(r, 1)) + end(section(r, 2), h)
    BY <1>3, <1>4, <1>11
<1>17. QED
    BY <1>5, <1>12, <1>13, <1>14, <1>15, <1>16 DEF b, m, n

\* The k-th section of r has its first n chunks in common with an observed
\* request it may share with.
Leads(r, k, n) ==
    \E q \in ToSet(observed) : Partners(q, r, k) /\ IsPrefix(path(section(r, k), n), chunks(section(q, k)))

\* Requests have the same isolation id exactly when the policy lets them share.
LEMMA SameIsolation ==
    ASSUME NEW q, NEW r
    PROVE  isolation_id(q) = isolation_id(r) <=> MayShare(q, r)
<1>1. CASE config.salted
    BY <1>1 DEF isolation_id, MayShare
<1>2. CASE ~config.salted /\ config.scope = "tenant"
  <2>1. isolation_id(q) = <<"tenant", q.tenant>> /\ isolation_id(r) = <<"tenant", r.tenant>>
      BY <1>2 DEF isolation_id
  <2>2. QED
      BY <1>2, <2>1 DEF MayShare
<1>3. CASE ~config.salted /\ config.scope = "none"
    BY <1>3 DEF isolation_id, MayShare
<1>4. CASE ~config.salted /\ config.scope \notin {"none", "tenant"}
  <2>1. isolation_id(q) = <<"trust", q.group>> /\ isolation_id(r) = <<"trust", r.group>>
      BY <1>4 DEF isolation_id
  <2>2. QED
      BY <1>4, <2>1 DEF MayShare
<1>5. QED
    BY <1>1, <1>2, <1>3, <1>4

\* Sections are in the same namespace exactly when their requests are partners.
\* The namespace after the invocation is never the one before it.
LEMMA SameSpace ==
    ASSUME NEW q, NEW r, config \in Configs, NEW k \in {1, 2}
    PROVE  /\ space(q, k) = space(r, k) <=> Partners(q, r, k)
           /\ config.model = "activated_lora" => space(q, 1) # space(r, 2)
<1>1. config.model \in Models
    BY ConfigsAssumption
<1>2. isolation_id(q) = isolation_id(r) <=> MayShare(q, r)
    BY SameIsolation
<1>3. CASE config.model = "standard_lora" \/ k = 2
  <2>1. /\ space(q, k) = <<isolation_id(q), "adapter", q.adapter>>
        /\ space(r, k) = <<isolation_id(r), "adapter", r.adapter>>
      BY <1>3 DEF space
  <2>2. space(q, k) = space(r, k) <=> Partners(q, r, k)
      BY <1>2, <1>3, <2>1 DEF Partners
  <2>3. ASSUME config.model = "activated_lora" PROVE space(q, 1) # space(r, 2)
      BY <2>3 DEF space
  <2>4. QED
      BY <2>2, <2>3
<1>4. CASE ~(config.model = "standard_lora" \/ k = 2)
  <2>1. k = 1 /\ config.model # "standard_lora"
      BY <1>4
  <2>2. PICK s :  space(q, k) = <<isolation_id(q), s>> /\ space(r, k) = <<isolation_id(r), s>>
      BY <2>1, <1>1 DEF space, Models
  <2>3. space(q, k) = space(r, k) <=> Partners(q, r, k)
      BY <1>2, <2>1, <2>2 DEF Partners
  <2>4. ASSUME config.model = "activated_lora" PROVE space(q, 1) # space(r, 2)
    <3>1. space(q, 1) = <<isolation_id(q), "activated-base">>
        BY <2>4 DEF space
    <3>2. space(r, 2) = <<isolation_id(r), "adapter", r.adapter>>
        BY <2>4 DEF space
    <3>3. Len(<<isolation_id(q), "activated-base">>) = 2
        OBVIOUS
    <3>4. Len(<<isolation_id(r), "adapter", r.adapter>>) = 3
        OBVIOUS
    <3>5. QED
        BY <3>1, <3>2, <3>3, <3>4
  <2>5. QED
      BY <2>3, <2>4
<1>5. QED
    BY <1>3, <1>4

\* Prefixes of the chunks are what paths are.
LEMMA PathPrefix ==
    ASSUME NEW S, NEW s \in Seq(S), NEW T, NEW t \in Seq(T), NEW n \in 1 .. count(s)
    PROVE  IsPrefix(path(s, n), chunks(t)) <=> n \in 1 .. count(t) /\ path(s, n) = path(t, n)
<1>1. path(s, n) \in Seq(Seq(S)) /\ Len(path(s, n)) = n
    BY PathFacts
<1>2. Len(chunks(t)) = count(t) /\ count(t) \in Nat /\ count(s) \in Nat
    BY ChunkFacts, CountFacts
<1>3. SubSeq(path(s, n), 1, Len(path(s, n))) = path(s, n)
    BY <1>1, SubSeqFull
<1>4. SubSeq(chunks(t), 1, Len(path(s, n))) = path(t, n)
    BY <1>1, Zenon DEF path
<1>5. n <= count(t) <=> n \in 1 .. count(t)
    BY <1>2
<1>6. IsPrefix(path(s, n), chunks(t)) <=>
          (n <= count(t) /\ path(s, n) = path(t, n))
    BY <1>1, <1>2, <1>3, <1>4 DEF IsPrefix
<1>7. QED
    BY <1>5, <1>6

\* The key of a block of r is that of an observed request exactly when the two
\* have all the chunks up to that block in common.
LEMMA KeyIsKnown ==
    ASSUME NEW r \in Requests, config \in Configs, observed \in Seq(Requests),
           NEW k \in {1, 2}, NEW n \in 1 .. count(section(r, k)),
           k = 2 => config.model = "activated_lora"
    PROVE  <<space(r, k), path(section(r, k), n)>> \in KnownKeys <=> Leads(r, k, n)
<1> DEFINE key == <<space(r, k), path(section(r, k), n)>>
<1>1. \A q \in ToSet(observed) : q \in Requests
    BY LenProperties, ElementOfSeq DEF ToSet
<1>2. section(r, k) \in Seq(ToSet(r.prompt))
    BY SectionFacts
<1>3. Len(path(section(r, k), n)) = n
    BY <1>2, PathFacts
<1>4. ASSUME key \in KnownKeys PROVE Leads(r, k, n)
  <2>0. PICK q \in ToSet(observed) : key \in BlockKeys(q)
      BY <1>4 DEF KnownKeys
  <2>1. PICK i \in 1 .. Len(request_blocks(q)) : request_blocks(q)[i].key = key
      BY <2>0 DEF BlockKeys
  <2>2. q \in Requests
      BY <1>1
  <2> DEFINE b == request_blocks(q)
             m == count(section(q, 1))
             c == count(section(q, 2))
  <2>3. /\ m \in Nat /\ c \in Nat /\ Len(b) = m + c
        /\ c # 0 => config.model = "activated_lora"
        /\ \A j \in 1 .. m : b[j].key = <<space(q, 1), path(section(q, 1), j)>>
        /\ \A j \in 1 .. c : b[m + j].key = <<space(q, 2), path(section(q, 2), j)>>
      BY <2>2, BlocksBySection
  <2>4. section(q, 1) \in Seq(ToSet(q.prompt)) /\ section(q, 2) \in Seq(ToSet(q.prompt))
      BY <2>2, SectionFacts
  <2> HIDE DEF b
  <2>5. \E l, j :
            /\ l \in {1, 2} /\ j \in 1 .. count(section(q, l))
            /\ key = <<space(q, l), path(section(q, l), j)>>
            /\ l = 2 => config.model = "activated_lora"
    <3>1. CASE i <= m
      <4>1. i \in 1 .. m /\ key = <<space(q, 1), path(section(q, 1), i)>>
          BY <3>1, <2>1, <2>3 DEF b
      <4>2. QED
          BY <4>1
    <3>2. CASE ~(i <= m)
      <4>1. PICK j \in 1 .. c : i = m + j
        <5>1. i \in 1 .. m + c
            BY <2>1, <2>3 DEF b
        <5>2. i - m \in 1 .. c /\ i = m + (i - m)
            BY <5>1, <3>2, <2>3
        <5>3. QED
            BY <5>2
      <4>2. key = <<space(q, 2), path(section(q, 2), j)>> /\ c # 0
          BY <4>1, <2>1, <2>3 DEF b
      <4>3. QED
          BY <4>2, <2>3
    <3>3. QED
        BY <3>1, <3>2
  <2>6. PICK l, j :
            /\ l \in {1, 2} /\ j \in 1 .. count(section(q, l))
            /\ key = <<space(q, l), path(section(q, l), j)>>
            /\ l = 2 => config.model = "activated_lora"
      BY <2>5
  <2>7. space(r, k) = space(q, l) /\ path(section(r, k), n) = path(section(q, l), j)
      BY <2>6
  <2>8. l = k
    <3>1. config.model = "activated_lora" => space(q, 1) # space(r, 2)
        BY SameSpace
    <3>2. config.model = "activated_lora" => space(r, 1) # space(q, 2)
        BY SameSpace
    <3>3. QED
        BY <2>6, <2>7, <3>1, <3>2
  <2>9. Partners(q, r, k)
      BY <2>7, <2>8, SameSpace
  <2>10. section(q, k) \in Seq(ToSet(q.prompt))
      BY <2>4
  <2>11. j = n
      BY <2>4, <2>6, <2>7, <2>8, <1>3, PathFacts
  <2>12. n \in 1 .. count(section(q, k)) /\ path(section(r, k), n) = path(section(q, k), n)
      BY <2>6, <2>7, <2>8, <2>11
  <2>13. IsPrefix(path(section(r, k), n), chunks(section(q, k)))
      BY <2>10, <2>12, <1>2, PathPrefix
  <2>14. QED
      BY <2>9, <2>13 DEF Leads
<1>5. ASSUME Leads(r, k, n) PROVE key \in KnownKeys
  <2>1. PICK q \in ToSet(observed) :
            Partners(q, r, k) /\ IsPrefix(path(section(r, k), n), chunks(section(q, k)))
      BY <1>5 DEF Leads
  <2>2. q \in Requests
      BY <1>1
  <2>3. section(q, k) \in Seq(ToSet(q.prompt))
      BY <2>2, SectionFacts
  <2>4. n \in 1 .. count(section(q, k)) /\ path(section(r, k), n) = path(section(q, k), n)
      BY <2>1, <2>3, <1>2, PathPrefix
  <2>5. space(q, k) = space(r, k)
      BY <2>1, SameSpace
  <2> DEFINE b == request_blocks(q)
             m == count(section(q, 1))
             c == count(section(q, 2))
  <2>6. /\ m \in Nat /\ c \in Nat /\ Len(b) = m + c
        /\ \A j \in 1 .. m : b[j].key = <<space(q, 1), path(section(q, 1), j)>>
        /\ \A j \in 1 .. c : b[m + j].key = <<space(q, 2), path(section(q, 2), j)>>
      BY <2>2, BlocksBySection
  <2> HIDE DEF b
  <2>7. \E i \in 1 .. Len(b) : b[i].key = key
    <3>1. CASE k = 1
      <4>1. n \in 1 .. m /\ n \in 1 .. Len(b)
          BY <3>1, <2>4, <2>6
      <4>2. b[n].key = key
          BY <4>1, <3>1, <2>4, <2>5, <2>6
      <4>3. QED
          BY <4>1, <4>2
    <3>2. CASE k = 2
      <4>1. n \in 1 .. c /\ m + n \in 1 .. Len(b)
          BY <3>2, <2>4, <2>6
      <4>2. b[m + n].key = key
          BY <4>1, <3>2, <2>4, <2>5, <2>6
      <4>3. QED
          BY <4>1, <4>2
    <3>3. QED
        BY <3>1, <3>2
  <2>8. key \in BlockKeys(q)
      BY <2>7 DEF BlockKeys, b
  <2>9. QED
      BY <2>8 DEF KnownKeys
<1>6. QED
    BY <1>4, <1>5

\* CommonChunks is the longest such lead, and CommonTokens counts its tokens.
LEMMA CommonFacts ==
    ASSUME NEW r \in Requests, config \in Configs, observed \in Seq(Requests), NEW k \in {1, 2}
    PROVE  LET c == CommonChunks(r, k)
               s == section(r, k)
           IN  /\ c \in 0 .. count(s)
               /\ \A n \in 1 .. count(s) : Leads(r, k, n) <=> n <= c
               /\ CommonTokens(r, k) = end(s, c)
<1> DEFINE c == CommonChunks(r, k)
           s == section(r, k)
           T == {n \in 0 .. Len(chunks(s)) : n = 0 \/ Leads(r, k, n)}
<1>1. s \in Seq(ToSet(r.prompt)) /\ Len(s) \in Nat
    BY SectionFacts, LenProperties
<1>2. Len(chunks(s)) = count(s) /\ count(s) \in Nat
    BY <1>1, ChunkFacts, CountFacts
<1>3. c = Max(T)
    BY Zenon DEF CommonChunks, Leads, path
<1> HIDE DEF c, s
<1>4. T \subseteq 0 .. count(s) /\ 0 \in T
    BY <1>2
<1>5. c \in T /\ \A n \in T : n <= c
  <2>1. T # {}
      BY <1>4
  <2> HIDE DEF T
  <2>2. QED
      BY <2>1, <1>2, <1>3, <1>4, MaxFacts
<1>6. c \in 0 .. count(s)
    BY <1>4, <1>5
<1>7. ASSUME NEW n \in 1 .. count(s), Leads(r, k, n) PROVE n <= c
    BY <1>2, <1>5, <1>7
<1>8. ASSUME NEW n \in 1 .. count(s), n <= c PROVE Leads(r, k, n)
  <2>1. c \in 1 .. count(s) /\ n \in 1 .. c
      BY <1>2, <1>6, <1>8
  <2>2. Leads(r, k, c)
      BY <2>1, <1>5
  <2>3. PICK q \in ToSet(observed) :
            Partners(q, r, k) /\ IsPrefix(path(s, c), chunks(section(q, k)))
      BY <2>2 DEF Leads, s
  <2>4. q \in Requests
      BY LenProperties, ElementOfSeq DEF ToSet
  <2> DEFINE t == section(q, k)
  <2>5. t \in Seq(ToSet(q.prompt))
      BY <2>4, SectionFacts
  <2> HIDE DEF t
  <2>6. c \in 1 .. count(t) /\ path(s, c) = path(t, c)
      BY <2>1, <2>3, <2>5, <1>1, PathPrefix DEF t
  <2>7. \A j \in 1 .. c : SubSeq(path(s, c), 1, j) = path(s, j)
      BY <2>1, <1>1, PathFacts
  <2>8. \A j \in 1 .. c : SubSeq(path(t, c), 1, j) = path(t, j)
      BY <2>5, <2>6, PathFacts
  <2>9. path(s, n) = path(t, n)
      BY <2>1, <2>6, <2>7, <2>8
  <2>10. n \in 1 .. count(t)
    <3>1. count(t) \in Nat
        BY <2>5, CountFacts
    <3>2. QED
        BY <3>1, <2>1, <2>6, <1>2
  <2>11. IsPrefix(path(s, n), chunks(t))
      BY <2>5, <2>9, <2>10, <1>1, PathPrefix
  <2>12. QED
      BY <2>3, <2>11 DEF Leads, s, t
<1>9. CommonTokens(r, k) = end(s, c)
  <2>1. CommonTokens(r, k) = Min({c * size, Len(s)})
      BY Zenon DEF CommonTokens, size, c, s
  <2>2. c * size \in Nat
      BY <1>2, <1>6, SizeFacts, Multiples
  <2> DEFINE x == c * size
  <2>3. x \in Nat
      BY <2>2
  <2>4. end(s, c) = IF x <= Len(s) THEN x ELSE Len(s)
      BY DEF end
  <2> HIDE DEF x
  <2>5. Min({x, Len(s)}) = IF x <= Len(s) THEN x ELSE Len(s)
      BY <2>3, <1>1, MinOfTwo
  <2>6. QED
      BY <2>1, <2>4, <2>5 DEF x
<1>10. QED
    BY <1>6, <1>7, <1>8, <1>9 DEF c, s

\* The hits of r in a warm table are the leads of r, section after section, and
\* all of them when nothing was evicted.
LEMMA EstimateFacts ==
    ASSUME CacheInv, config.condition = "warm", NEW r \in Requests
    PROVE  /\ HitTokens(table, r) <= SharedTokens(r)
           /\ config.budget = NoBudget => HitTokens(table, r) = SharedTokens(r)
<1> DEFINE b == request_blocks(r)
           h == HitCount(table, r)
           x == section(r, 1)
           y == section(r, 2)
           m == count(x)
           n == count(y)
           c == CommonChunks(r, 1)
           d == CommonChunks(r, 2)
<1>1. /\ config \in Configs /\ observed \in Seq(Requests) /\ table \in Good(RequestBlocks)
      /\ Keys(table) \subseteq KnownKeys
      /\ config.budget = NoBudget => Keys(table) = KnownKeys
    BY DEF CacheInv, Counted, Stored, History
<1>2. /\ h \in 0 .. Len(b) /\ \A i \in 1 .. h : b[i].key \in Keys(table)
      /\ h < Len(b) => b[h + 1].key \notin Keys(table)
      /\ HitTokens(table, r) = TokensOf(SubSeq(b, 1, h))
    BY <1>1, HitFacts
<1>3. /\ m \in Nat /\ n \in Nat /\ Len(b) = m + n
      /\ n # 0 => config.model = "activated_lora"
      /\ \A i \in 1 .. m : b[i].key = <<space(r, 1), path(x, i)>>
      /\ \A i \in 1 .. n : b[m + i].key = <<space(r, 2), path(y, i)>>
      /\ \A i \in 0 .. m : TokensOf(SubSeq(b, 1, i)) = end(x, i)
      /\ \A i \in 0 .. n : TokensOf(SubSeq(b, 1, m + i)) = Len(x) + end(y, i)
    BY <1>1, BlocksBySection
<1>4. x \in Seq(ToSet(r.prompt)) /\ y \in Seq(ToSet(r.prompt)) /\ Len(x) = split_of(r)
      /\ Len(x) \in Nat /\ Len(y) \in Nat
    BY <1>1, SectionFacts, LenProperties
<1>5. /\ c \in 0 .. m /\ CommonTokens(r, 1) = end(x, c)
      /\ \A i \in 1 .. m : b[i].key \in KnownKeys <=> i <= c
  <2>1. /\ c \in 0 .. count(section(r, 1))
        /\ \A i \in 1 .. count(section(r, 1)) : Leads(r, 1, i) <=> i <= c
        /\ CommonTokens(r, 1) = end(section(r, 1), c)
      BY <1>1, CommonFacts
  <2>2. \A i \in 1 .. m : <<space(r, 1), path(x, i)>> \in KnownKeys <=> Leads(r, 1, i)
      BY <1>1, KeyIsKnown
  <2>3. QED
      BY <2>1, <2>2, <1>3
<1>6. /\ d \in 0 .. n /\ CommonTokens(r, 2) = end(y, d)
      /\ \A i \in 1 .. n : b[m + i].key \in KnownKeys <=> i <= d
  <2>1. /\ d \in 0 .. count(section(r, 2))
        /\ \A i \in 1 .. count(section(r, 2)) : Leads(r, 2, i) <=> i <= d
        /\ CommonTokens(r, 2) = end(section(r, 2), d)
      BY <1>1, CommonFacts
  <2>2. \A i \in 1 .. n : <<space(r, 2), path(y, i)>> \in KnownKeys <=> Leads(r, 2, i)
      BY <1>1, <1>3, KeyIsKnown
  <2>3. QED
      BY <2>1, <2>2, <1>3
<1> HIDE DEF b, h, x, y, m, n, c, d
<1>7. \A i, j \in 0 .. m : /\ end(x, i) \in 0 .. Len(x)
                           /\ i <= j => end(x, i) <= end(x, j)
                           /\ i < j => end(x, i) < end(x, j)
                           /\ end(x, m) = Len(x)
    BY <1>4, EndsGrow DEF m
<1>8. \A i, j \in 0 .. n : /\ end(y, i) \in 0 .. Len(y)
                           /\ i <= j => end(y, i) <= end(y, j)
    BY <1>4, EndsGrow DEF n
<1>9. m \in 0 .. m /\ 0 \in 0 .. m
    BY <1>3
<1>10. SharedTokens(r) = end(x, c) + IF end(x, c) = Len(x) THEN end(y, d) ELSE 0
    BY <1>4, <1>5, <1>6 DEF SharedTokens
<1>11. end(x, c) \in Nat /\ end(y, d) \in Nat /\ SharedTokens(r) \in Nat /\ SharedTokens(r) >= end(x, c)
  <2>1. end(x, c) \in 0 .. Len(x) /\ end(y, d) \in 0 .. Len(y)
      BY <1>5, <1>6, <1>7, <1>8
  <2>2. end(x, c) \in Nat /\ end(y, d) \in Nat
      BY <2>1, <1>4
  <2>3. QED
      BY <2>2, <1>10
<1>12. HitTokens(table, r) <= SharedTokens(r)
  <2>1. CASE h <= m
    <3>1. h \in 0 .. m
        BY <2>1, <1>2, <1>3
    <3>2. h <= c
      <4>1. CASE h = 0
          BY <4>1, <1>5
      <4>2. CASE h # 0
        <5>1. h \in 1 .. h /\ h \in 1 .. m
            BY <4>2, <3>1, <1>3
        <5>2. b[h].key \in KnownKeys
            BY <5>1, <1>1, <1>2
        <5>3. QED
            BY <5>1, <5>2, <1>5
      <4>3. QED
          BY <4>1, <4>2
    <3>3. HitTokens(table, r) = end(x, h)
        BY <3>1, <1>2, <1>3
    <3>4. end(x, h) <= end(x, c) /\ end(x, h) \in 0 .. Len(x)
        BY <3>1, <3>2, <1>5, <1>7
    <3>5. QED
        BY <3>3, <3>4, <1>4, <1>11
  <2>2. CASE ~(h <= m)
    <3>1. PICK j \in 1 .. n : h = m + j
      <4>1. h - m \in 1 .. n /\ h = m + (h - m)
          BY <2>2, <1>2, <1>3
      <4>2. QED
          BY <4>1
    <3>2. c = m
      <4>1. CASE m = 0
          BY <4>1, <1>5
      <4>2. CASE m # 0
        <5>1. m \in 1 .. h /\ m \in 1 .. m
            BY <4>2, <2>2, <1>2, <1>3
        <5>2. m <= c
            BY <5>1, <1>1, <1>2, <1>5
        <5>3. QED
            BY <5>2, <1>3, <1>5
      <4>3. QED
          BY <4>1, <4>2
    <3>3. SharedTokens(r) = Len(x) + end(y, d)
        BY <3>2, <1>7, <1>9, <1>10
    <3>4. j <= d
      <4>1. m + j \in 1 .. h
          BY <3>1, <1>2, <1>3
      <4>2. QED
          BY <4>1, <1>1, <1>2, <1>6
    <3>5. j \in 0 .. n
        BY <1>3
    <3>6. HitTokens(table, r) = Len(x) + end(y, j)
        BY <3>1, <3>5, <1>2, <1>3
    <3>7. end(y, j) <= end(y, d) /\ end(y, j) \in 0 .. Len(y)
        BY <3>4, <3>5, <1>6, <1>8
    <3>8. end(y, j) \in Nat
        BY <3>7, <1>4
    <3> HIDE DEF HitTokens
    <3>9. QED
        BY <3>3, <3>6, <3>7, <3>8, <1>4, <1>11
  <2>3. QED
      BY <2>1, <2>2
<1>13. ASSUME config.budget = NoBudget
       PROVE  HitTokens(table, r) = SharedTokens(r)
  <2>1. Keys(table) = KnownKeys
      BY <1>1, <1>13
  <2>2. CASE c < m
    <3>1. c + 1 \in 1 .. m /\ ~(c + 1 <= c)
        BY <2>2, <1>3, <1>5
    <3>2. h <= c
      <4> SUFFICES ASSUME ~(h <= c) PROVE FALSE
          OBVIOUS
      <4>1. c + 1 \in 1 .. h
          BY <1>2, <1>3, <1>5
      <4>2. b[c + 1].key \in KnownKeys
          BY <4>1, <2>1, <1>2
      <4>3. QED
          BY <4>2, <3>1, <1>5
    <3>3. h >= c
      <4> SUFFICES ASSUME ~(h >= c) PROVE FALSE
          OBVIOUS
      <4>1. h + 1 \in 1 .. m /\ h + 1 <= c /\ h < Len(b)
          BY <2>2, <1>2, <1>3, <1>5
      <4>2. b[h + 1].key \in KnownKeys
          BY <4>1, <1>5
      <4>3. QED
          BY <4>1, <4>2, <2>1, <1>2
    <3>4. h = c
        BY <3>2, <3>3, <1>2, <1>3, <1>5
    <3>5. HitTokens(table, r) = end(x, c)
        BY <3>4, <1>2, <1>3, <1>5
    <3>6. end(x, c) < Len(x)
        BY <2>2, <1>5, <1>7, <1>9
    <3>7. QED
        BY <3>5, <3>6, <1>4, <1>10, <1>11
  <2>3. CASE ~(c < m)
    <3>1. c = m
        BY <2>3, <1>3, <1>5
    <3>2. SharedTokens(r) = Len(x) + end(y, d)
        BY <3>1, <1>7, <1>9, <1>10
    <3>3. h <= m + d
      <4> SUFFICES ASSUME ~(h <= m + d) PROVE FALSE
          OBVIOUS
      <4>1. m + (d + 1) \in 1 .. h /\ d + 1 \in 1 .. n /\ ~(d + 1 <= d)
          BY <1>2, <1>3, <1>6
      <4>2. b[m + (d + 1)].key \in KnownKeys
          BY <4>1, <2>1, <1>2
      <4>3. QED
          BY <4>1, <4>2, <1>6
    <3>4. h >= m + d
      <4> SUFFICES ASSUME ~(h >= m + d) PROVE FALSE
          OBVIOUS
      <4>1. h < Len(b) /\ h \in Nat
          BY <1>2, <1>3, <1>6
      <4>2. CASE h + 1 <= m
        <5>1. h + 1 \in 1 .. m /\ h + 1 <= c
            BY <4>1, <4>2, <3>1, <1>3
        <5>2. QED
            BY <4>1, <5>1, <2>1, <1>2, <1>5
      <4>3. CASE ~(h + 1 <= m)
        <5>1. (h + 1) - m \in 1 .. n /\ (h + 1) - m <= d /\ m + ((h + 1) - m) = h + 1
            BY <4>1, <4>3, <1>3, <1>6
        <5>2. b[h + 1].key \in KnownKeys
            BY <5>1, <1>6
        <5>3. QED
            BY <4>1, <5>2, <2>1, <1>2
      <4>4. QED
          BY <4>2, <4>3
    <3>5. h = m + d
        BY <3>3, <3>4, <1>2, <1>3, <1>6
    <3>6. HitTokens(table, r) = Len(x) + end(y, d)
        BY <3>5, <1>2, <1>3, <1>6
    <3>7. QED
        BY <3>2, <3>6
  <2>4. QED
      BY <2>2, <2>3
<1>14. QED
    BY <1>12, <1>13

\* The prefix hits that the simulator reports never exceed what the observed
\* requests make reusable under the cache model and the policy, and without a
\* budget they are exactly that: the hash chains neither confuse two prefixes nor
\* miss one.
THEOREM EstimateIsHistory == Spec => []EstimateMatchesHistory
<1>1. CacheInv => EstimateMatchesHistory
  <2> SUFFICES ASSUME CacheInv PROVE EstimateMatchesHistory
      OBVIOUS
  <2>1. ASSUME config.condition = "warm", NEW r \in Requests
        PROVE  /\ estimate_cached_prefix_tokens(r) <= SharedTokens(r)
               /\ config.budget = NoBudget => estimate_cached_prefix_tokens(r) = SharedTokens(r)
    <3>1. estimate_cached_prefix_tokens(r) = HitTokens(table, r)
        BY <2>1 DEF estimate_cached_prefix_tokens
    <3>2. QED
        BY <2>1, <3>1, EstimateFacts
  <2>2. config.condition # "warm" => total_cached_prefix_tokens = 0 /\ table.hit_count = 0
      BY DEF CacheInv, NoReuse
  <2>3. QED
      BY <2>1, <2>2 DEF EstimateMatchesHistory
<1>2. QED
    BY SpecInv, <1>1, PTL

================================================================================
