-------------------------- MODULE ResultsShownProofs --------------------------
(***************************************************************************)
(* Proofs about what a client of the ResultsModel is shown: how the limit  *)
(* is shared out, and that a row of the flat list runs its match.          *)
(***************************************************************************)
EXTENDS ResultsModelProofs

-----------------------------------------------------------------------------
(* Functions that are defined by recursion over numbers *)

Recursion(g, v, step, n) ==
    g[0] = v /\ \A i \in 1..n : g[i] = step[<<i, g[i - 1]>>]

LEMMA UpTo ==
    ASSUME NEW n \in Nat, NEW P, 0 \in P, \A i \in 1..n : i - 1 \in P => i \in P
    PROVE  0..n \subseteq P
<1>. DEFINE Bad == {i \in 0..n : i \notin P}
<1>. SUFFICES ASSUME Bad # {} PROVE FALSE
  OBVIOUS
<1>1. PICK k \in Bad : \A j \in Bad : k <= j
  <2>1. Bad \subseteq Nat
    OBVIOUS
  <2>. HIDE DEF Bad
  <2>. QED  BY <2>1, LeastElement
<1>2. k \in 0..n /\ k \notin P
  BY <1>1
<1>3. k \in 1..n /\ k - 1 \in 0..n /\ ~(k <= k - 1)
  BY <1>2
<1>4. k - 1 \in P
  <2>1. k - 1 \notin Bad
    <3>. HIDE DEF Bad
    <3>. QED  BY <1>1, <1>3
  <2>. QED  BY <1>3, <2>1
<1>. QED  BY <1>2, <1>3, <1>4

LEMMA RecursionExists ==
    ASSUME NEW V, NEW v \in V, NEW n \in Nat, NEW step \in [(1..n) \X V -> V]
    PROVE  \E g \in [0..n -> V] : Recursion(g, v, step, n)
<1>. DEFINE Good(k) == \E g \in [0..k -> V] : Recursion(g, v, step, k)
            Found == {k \in 0..n : Good(k)}
<1>1. 0 \in Found
  <2>. DEFINE g == [i \in 0..0 |-> v]
  <2>1. g \in [0..0 -> V] /\ Recursion(g, v, step, 0)
    BY DEF Recursion
  <2>. HIDE DEF g
  <2>. QED  BY <2>1
<1>2. ASSUME NEW k \in 1..n, k - 1 \in Found PROVE k \in Found
  <2>1. PICK g \in [0..(k - 1) -> V] : Recursion(g, v, step, k - 1)
    BY <1>2
  <2>. DEFINE last == step[<<k, g[k - 1]>>]
              h == [i \in 0..k |-> IF i < k THEN g[i] ELSE last]
  <2>2. last \in V /\ g[0] = v
    BY <1>2, <2>1 DEF Recursion
  <2>3. h \in [0..k -> V]
    <3>1. \A i \in 0..k : i < k => g[i] \in V
      BY <1>2, <2>1
    <3>. HIDE DEF last
    <3>. QED  BY <2>2, <3>1
  <2>4. h[k] = last /\ \A i \in 0..(k - 1) : h[i] = g[i]
    BY <1>2
  <2>. HIDE DEF h
  <2>5. h[0] = v
    BY <1>2, <2>2, <2>4
  <2>6. ASSUME NEW i \in 1..k PROVE h[i] = step[<<i, h[i - 1]>>]
    <3>1. CASE i = k
      <4>1. h[k - 1] = g[k - 1]
        BY <1>2, <2>4
      <4>. QED  BY <2>4, <3>1, <4>1
    <3>2. CASE i # k
      <4>1. i \in 1..(k - 1) /\ i \in 0..(k - 1) /\ i - 1 \in 0..(k - 1)
        BY <1>2, <3>2
      <4>2. h[i] = g[i] /\ h[i - 1] = g[i - 1]
        BY <2>4, <4>1
      <4>. QED  BY <2>1, <4>1, <4>2 DEF Recursion
    <3>. QED  BY <3>1, <3>2
  <2>7. Good(k)
    BY <2>3, <2>5, <2>6 DEF Recursion
  <2>. QED  BY <2>7
<1>3. 0..n \subseteq Found
  <2>. HIDE DEF Found
  <2>. QED  BY <1>1, <1>2, UpTo
<1>. QED  BY <1>3

-----------------------------------------------------------------------------
(* How the limit is shared out *)

LEMMA CeilDivBounds ==
    ASSUME NEW a \in Nat \ {0}, NEW b \in Nat \ {0} PROVE CeilDiv(a, b) \in 1..a
BY DEF CeilDiv

\* A row at least, and no more than what the limit leaves or the part of the category.
LEMMA ShareBounds ==
    ASSUME NEW limit \in Nat \ {0}, NEW n \in Nat \ {0}, NEW i \in Nat \ {0}, NEW t \in Nat
    PROVE  /\ Share(limit, n, i, t) \in Nat \ {0}
           /\ Share(limit, n, i, t) = 1 \/ Share(limit, n, i, t) <= limit - t - CeilDiv(limit, n)
           /\ Share(limit, n, i, t) <= CeilDiv(limit, i + 1)
<1>. DEFINE C == CeilDiv(limit, n)
            D == CeilDiv(limit, i + 1)
            m == Min({limit - t - C, D})
<1>1. C \in 1..limit /\ D \in 1..limit
  <2>1. i + 1 \in Nat \ {0}
    OBVIOUS
  <2>. QED  BY <2>1, CeilDivBounds
<1>. HIDE DEF C, D
<1>2. limit - t - C \in Int /\ C \in Int /\ D \in Int /\ D >= 1
  BY <1>1
<1>3. m = IF limit - t - C <= D THEN limit - t - C ELSE D
  BY <1>2, MinOfTwo
<1>. DEFINE s == IF m >= 1 THEN m ELSE 1
<1>4. m \in Int /\ m <= limit - t - C /\ m <= D
  <2>. HIDE DEF m
  <2>. QED  BY <1>2, <1>3
<1>. HIDE DEF m
<1>5. Max({1, m}) = s
  <2>1. s \in {1, m} /\ \A y \in {1, m} : s >= y
    BY <1>4
  <2>2. \A x \in {1, m} : (\A y \in {1, m} : x >= y) => x = s
    BY <1>4
  <2>. HIDE DEF s
  <2>. QED  BY <2>1, <2>2 DEF Max
<1>6. Share(limit, n, i, t) = s
  BY <1>5 DEF Share, m, C, D
<1>7. s \in Nat \ {0} /\ (s = 1 \/ s <= limit - t - C) /\ s <= D
  BY <1>2, <1>4
<1>. QED  BY <1>6, <1>7 DEF C, D

\* The rows that the first categories have taken together.
Taken(t, limit, counts) ==
    /\ t \in [0..Len(counts) -> Nat] /\ t[0] = 0
    /\ \A i \in 1..Len(counts) :
            t[i] = t[i - 1] + Min({counts[i], Share(limit, Len(counts), i, t[i - 1])})

LEMMA DistributionDefined ==
    ASSUME NEW counts \in Seq(Nat \ {0}), Len(counts) > 1, NEW limit \in Nat \ {0}
    PROVE  \E t : /\ Taken(t, limit, counts)
                  /\ Distribution(limit, counts) = [i \in 1..Len(counts) |-> t[i] - t[i - 1]]
<1>. DEFINE n == Len(counts)
            F(f) == [i \in 0..n |->
                        IF i = 0 THEN 0
                        ELSE f[i - 1] + Min({counts[i], Share(limit, n, i, f[i - 1])})]
            taken == CHOOSE f : f = F(f)
            step == [p \in (1..n) \X Nat |->
                        p[2] + Min({counts[p[1]], Share(limit, n, p[1], p[2])})]
<1>1. n \in Nat \ {0} /\ \A i \in 1..n : counts[i] \in Nat \ {0}
  BY LenProperties, ElementOfSeq
<1>2. step \in [(1..n) \X Nat -> Nat]
  <2>. SUFFICES ASSUME NEW i \in 1..n, NEW t \in Nat
                PROVE  t + Min({counts[i], Share(limit, n, i, t)}) \in Nat
    OBVIOUS
  <2>1. Share(limit, n, i, t) \in Nat /\ counts[i] \in Nat
    <3>1. i \in Nat \ {0}
      BY <1>1
    <3>. QED  BY <1>1, <3>1, ShareBounds
  <2>2. Min({counts[i], Share(limit, n, i, t)}) \in Nat
    BY <2>1, MinOfTwo
  <2>. QED  BY <2>2
<1>3. \A i \in 1..n, t \in Nat : step[<<i, t>>] = t + Min({counts[i], Share(limit, n, i, t)})
  OBVIOUS
<1>. HIDE DEF step
<1>4. PICK g \in [0..n -> Nat] : Recursion(g, 0, step, n)
  BY <1>1, <1>2, RecursionExists
<1>5. /\ g[0] = 0
      /\ \A i \in 1..n : g[i] = g[i - 1] + Min({counts[i], Share(limit, n, i, g[i - 1])})
  <2>1. \A i \in 1..n : g[i - 1] \in Nat
    BY <1>1, <1>4
  <2>. QED  BY <1>3, <1>4, <2>1 DEF Recursion
<1>6. g = F(g)
  <2>1. g = [i \in 0..n |-> g[i]] /\ F(g) = [i \in 0..n |-> F(g)[i]]
    BY <1>4
  <2>2. ASSUME NEW i \in 0..n PROVE g[i] = F(g)[i]
    <3>1. CASE i = 0
      BY <1>5, <3>1
    <3>2. CASE i # 0
      <4>1. i \in 1..n
        BY <1>1, <3>2
      <4>. QED  BY <1>5, <3>2, <4>1
    <3>. QED  BY <3>1, <3>2
  <2>. HIDE DEF F
  <2>. QED  BY <2>1, <2>2, Zenon
<1>7. Distribution(limit, counts) = [i \in 1..n |-> taken[i] - taken[i - 1]]
  BY <1>1 DEF Distribution
<1>. HIDE DEF F
<1>8. taken = F(taken)
  BY <1>6
<1>. HIDE DEF taken
<1>9. /\ taken = [i \in 0..n |-> taken[i]] /\ taken[0] = 0
      /\ \A i \in 1..n : taken[i] = taken[i - 1] + Min({counts[i], Share(limit, n, i, taken[i - 1])})
  <2>1. taken = [i \in 0..n |-> taken[i]] /\ taken[0] = 0
    BY <1>1, <1>8 DEF F
  <2>2. ASSUME NEW i \in 1..n
        PROVE  taken[i] = taken[i - 1] + Min({counts[i], Share(limit, n, i, taken[i - 1])})
    <3>1. i \in 0..n /\ i # 0
      BY <1>1
    <3>. QED  BY <1>8, <3>1 DEF F
  <2>. QED  BY <2>1, <2>2
<1>10. \A i \in 0..n : taken[i] = g[i]
  <2>. DEFINE Same == {i \in 0..n : taken[i] = g[i]}
  <2>1. 0 \in Same /\ \A i \in 1..n : i - 1 \in Same => i \in Same
    <3>1. 0 \in Same
      BY <1>1, <1>5, <1>9
    <3>2. ASSUME NEW i \in 1..n, taken[i - 1] = g[i - 1] PROVE i \in 0..n /\ taken[i] = g[i]
      <4>1. taken[i] = g[i]
        BY <1>5, <1>9, <3>2
      <4>. QED  BY <1>1, <4>1
    <3>. QED  BY <3>1, <3>2
  <2>2. n \in Nat
    BY <1>1
  <2>3. 0..n \subseteq Same
    <3>. HIDE DEF Same, n
    <3>. QED  BY <2>1, <2>2, UpTo
  <2>. QED  BY <2>3
<1>11. taken \in [0..n -> Nat]
  <2>1. \A i \in 0..n : taken[i] \in Nat
    BY <1>4, <1>10
  <2>2. taken = [i \in 0..n |-> taken[i]]
    BY <1>9
  <2>. QED  BY <2>1, <2>2
<1>12. Taken(taken, limit, counts)
  BY <1>9, <1>11 DEF Taken
<1>. QED  BY <1>7, <1>12

LEMMA TakenBounds ==
    ASSUME NEW counts \in Seq(Nat \ {0}), Len(counts) > 1, NEW limit \in Nat \ {0},
           NEW t, Taken(t, limit, counts), NEW i \in 1..Len(counts)
    PROVE  /\ t[i] - t[i - 1] \in 1..counts[i]
           /\ t[i] - t[i - 1] <= CeilDiv(limit, i + 1)
           /\ \/ t[i] = t[i - 1] + 1
              \/ t[i] <= limit - CeilDiv(limit, Len(counts))
<1>. DEFINE n == Len(counts)
            s == Share(limit, n, i, t[i - 1])
<1>1. n \in Nat \ {0} /\ i \in Nat \ {0} /\ counts[i] \in Nat \ {0}
  BY LenProperties, ElementOfSeq
<1>2. t[i] \in Nat /\ t[i - 1] \in Nat /\ t[i] = t[i - 1] + Min({counts[i], s})
  <2>1. i \in 0..n /\ i - 1 \in 0..n
    BY <1>1
  <2>2. t[i] \in Nat /\ t[i - 1] \in Nat
    BY <2>1 DEF Taken
  <2>. QED  BY <2>2 DEF Taken
<1>3. /\ s \in Nat \ {0} /\ (s = 1 \/ s <= limit - t[i - 1] - CeilDiv(limit, n))
      /\ s <= CeilDiv(limit, i + 1)
  BY <1>1, <1>2, ShareBounds
<1>4. CeilDiv(limit, n) \in Int /\ CeilDiv(limit, i + 1) \in Int
  <2>1. i + 1 \in Nat \ {0}
    BY <1>1
  <2>. QED  BY <1>1, <2>1, CeilDivBounds
<1>. HIDE DEF s, n
<1>5. Min({counts[i], s}) = IF counts[i] <= s THEN counts[i] ELSE s
  BY <1>1, <1>3, MinOfTwo
<1>. DEFINE m == Min({counts[i], s})
<1>6. m \in 1..counts[i] /\ m <= s /\ m \in Int
  <2>. HIDE DEF m
  <2>1. m = IF counts[i] <= s THEN counts[i] ELSE s
    BY <1>5 DEF m
  <2>. QED  BY <1>1, <1>3, <2>1
<1>7. t[i] - t[i - 1] = m /\ t[i] = t[i - 1] + m
  <2>1. t[i] = t[i - 1] + m
    BY <1>2
  <2>. HIDE DEF m
  <2>. QED  BY <1>2, <1>6, <2>1
<1>. HIDE DEF m
<1>8. m = 1 \/ t[i - 1] + m <= limit - CeilDiv(limit, n)
  <2>. DEFINE T == t[i - 1]
              C == CeilDiv(limit, n)
  <2>1. T \in Nat /\ C \in Int /\ limit \in Int /\ s \in Int /\ m \in Int /\ m >= 1 /\ m <= s
    BY <1>2, <1>3, <1>4, <1>6
  <2>2. s = 1 \/ s <= limit - T - C
    BY <1>3
  <2>. HIDE DEF T, C
  <2>3. m = 1 \/ T + m <= limit - C
    BY <2>1, <2>2
  <2>. QED  BY <2>3 DEF T, C
<1>9. m <= CeilDiv(limit, i + 1)
  BY <1>3, <1>4, <1>6
<1>. QED  BY <1>6, <1>7, <1>8, <1>9 DEF n

LEMMA TakenTotal ==
    ASSUME NEW counts \in Seq(Nat \ {0}), Len(counts) > 1, NEW limit \in Nat \ {0},
           NEW t, Taken(t, limit, counts)
    PROVE  t[Len(counts)] < limit + Len(counts)
<1>. DEFINE n == Len(counts)
            C == CeilDiv(limit, n)
            Few == {i \in 0..n : t[i] <= limit - C + i}
<1>1. n \in Nat \ {0} /\ C \in 1..limit
  <2>1. n \in Nat \ {0}
    BY LenProperties
  <2>. QED  BY <2>1, CeilDivBounds
<1>2. t[0] = 0 /\ (\A i \in 0..n : t[i] \in Nat)
      /\ \A i \in 1..n : t[i] = t[i - 1] + 1 \/ t[i] <= limit - C
  BY TakenBounds DEF Taken
<1>. HIDE DEF C, n
<1>3. 0 \in Few
  BY <1>1, <1>2
<1>4. ASSUME NEW i \in 1..n, i - 1 \in Few PROVE i \in Few
  <2>1. t[i] \in Nat /\ t[i - 1] \in Nat /\ (t[i] = t[i - 1] + 1 \/ t[i] <= limit - C)
    BY <1>1, <1>2
  <2>. QED  BY <1>1, <1>4, <2>1
<1>5. 0..n \subseteq Few
  <2>1. n \in Nat
    BY <1>1
  <2>. HIDE DEF Few
  <2>. QED  BY <1>3, <1>4, <2>1, UpTo
<1>6. t[n] \in Nat /\ t[n] <= limit - C + n
  BY <1>1, <1>2, <1>5
<1>7. t[n] < limit + n
  BY <1>1, <1>6
<1>. QED  BY <1>7 DEF n

LEMMA TotalIsLast ==
    ASSUME NEW n \in Nat, NEW t \in [0..n -> Int], t[0] = 0, NEW rows, Len(rows) = n,
           \A i \in 1..n : rows[i] = t[i] - t[i - 1]
    PROVE  Total(rows) = t[n]
<1>. DEFINE F(f) == [i \in 0..n |-> IF i = 0 THEN 0 ELSE f[i - 1] + rows[i]]
            sum == CHOOSE f : f = F(f)
<1>1. \A i \in 1..n : t[i] = t[i - 1] + rows[i]
  <2>. SUFFICES ASSUME NEW i \in 1..n PROVE t[i] = t[i - 1] + rows[i]
    OBVIOUS
  <2>1. t[i] \in Int /\ t[i - 1] \in Int
    OBVIOUS
  <2>. QED  BY <2>1
<1>2. t = F(t)
  <2>1. t = [i \in 0..n |-> t[i]] /\ F(t) = [i \in 0..n |-> F(t)[i]]
    OBVIOUS
  <2>2. ASSUME NEW i \in 0..n PROVE t[i] = F(t)[i]
    <3>1. CASE i = 0
      BY <3>1
    <3>2. CASE i # 0
      <4>1. i \in 1..n
        BY <3>2
      <4>. QED  BY <1>1, <3>2, <4>1
    <3>. QED  BY <3>1, <3>2
  <2>. HIDE DEF F
  <2>. QED  BY <2>1, <2>2, Zenon
<1>3. Total(rows) = sum[n]
  BY DEF Total
<1>. HIDE DEF F
<1>4. sum = F(sum)
  BY <1>2
<1>. HIDE DEF sum
<1>5. sum[0] = t[0]
  BY <1>4 DEF F
<1>6. ASSUME NEW i \in 1..n, sum[i - 1] = t[i - 1] PROVE sum[i] = t[i]
  <2>1. i \in 0..n /\ i # 0
    OBVIOUS
  <2>2. sum[i] = sum[i - 1] + rows[i]
    BY <1>4, <2>1 DEF F
  <2>. QED  BY <1>1, <1>6, <2>2
<1>7. \A i \in 0..n : sum[i] = t[i]
  <2>. DEFINE Same == {i \in 0..n : sum[i] = t[i]}
  <2>1. 0 \in Same /\ \A i \in 1..n : i - 1 \in Same => i \in Same
    BY <1>5, <1>6
  <2>2. n \in Nat
    OBVIOUS
  <2>3. 0..n \subseteq Same
    <3>. HIDE DEF Same
    <3>. QED  BY <2>1, <2>2, UpTo
  <2>. QED  BY <2>3
<1>. QED  BY <1>3, <1>7

\* A row at least of each category and none that it does not have; all together exceed
\* the limit by less than one row for each category.
THEOREM DistributionBounds ==
    ASSUME NEW limit \in Nat, NEW counts \in Seq(Nat \ {0})
    PROVE  LET rows == Distribution(limit, counts)
           IN  /\ \A i \in 1..Len(counts) : rows[i] \in 1..counts[i]
               /\ limit > 0 /\ Len(counts) > 0 =>
                    /\ Total(rows) < limit + Len(counts)
                    /\ Len(counts) > 1 => rows[1] <= CeilDiv(limit, 2)
<1>. DEFINE n == Len(counts)
            rows == Distribution(limit, counts)
<1>1. n \in Nat /\ \A i \in 1..n : counts[i] \in Nat \ {0}
  BY LenProperties, ElementOfSeq
<1>2. CASE limit = 0
  <2>1. rows = counts
    BY <1>2 DEF Distribution
  <2>2. \A i \in 1..n : counts[i] \in 1..counts[i]
    BY <1>1
  <2>. QED  BY <1>2, <2>1, <2>2
<1>3. CASE limit # 0 /\ n = 1
  <2>. DEFINE m == Min({counts[1], limit})
              t == [i \in 0..1 |-> IF i = 0 THEN 0 ELSE m]
  <2>1. rows = <<m>>
    BY <1>3 DEF Distribution
  <2>2. counts[1] \in Nat \ {0} /\ limit \in Nat \ {0}
    BY <1>1, <1>3
  <2>3. m = IF counts[1] <= limit THEN counts[1] ELSE limit
    BY <2>2, MinOfTwo
  <2>. HIDE DEF m, rows
  <2>4. m \in 1..counts[1] /\ m <= limit /\ m \in Int
    BY <2>2, <2>3
  <2>5. rows[1] = m /\ Len(rows) = 1
    BY <2>1
  <2>6. t \in [0..1 -> Int] /\ t[0] = 0 /\ t[1] = m
    BY <2>4
  <2>7. \A i \in 1..1 : rows[i] = t[i] - t[i - 1]
    BY <2>4, <2>5, <2>6
  <2>. HIDE DEF t
  <2>8. Total(rows) = m
    BY <2>5, <2>6, <2>7, TotalIsLast
  <2>9. \A i \in 1..n : rows[i] \in 1..counts[i]
    BY <1>3, <2>4, <2>5
  <2>10. Total(rows) < limit + n
    BY <1>3, <2>4, <2>8
  <2>. QED  BY <1>3, <2>9, <2>10 DEF rows
<1>4. CASE limit # 0 /\ n > 1
  <2>1. limit \in Nat \ {0}
    BY <1>4
  <2>2. PICK t : Taken(t, limit, counts) /\ rows = [i \in 1..n |-> t[i] - t[i - 1]]
    BY <1>4, <2>1, DistributionDefined
  <2>3. t \in [0..n -> Nat] /\ t[0] = 0
    BY <2>2 DEF Taken
  <2>4. t \in [0..n -> Int]
    BY <2>3
  <2>5. Len(rows) = n /\ \A i \in 1..n : rows[i] = t[i] - t[i - 1]
    BY <1>1, <2>2
  <2>. HIDE DEF rows
  <2>6. Total(rows) = t[n]
    BY <1>1, <2>3, <2>4, <2>5, TotalIsLast
  <2>7. Total(rows) < limit + n
    BY <1>4, <2>1, <2>2, <2>6, TakenTotal
  <2>8. \A i \in 1..n : rows[i] \in 1..counts[i]
    BY <1>4, <2>1, <2>2, <2>5, TakenBounds
  <2>9. rows[1] <= CeilDiv(limit, 2)
    <3>1. 1 \in 1..n /\ 1 + 1 = 2
      BY <1>1, <1>4
    <3>. QED  BY <1>4, <2>1, <2>2, <2>5, <3>1, TakenBounds
  <2>. QED  BY <2>7, <2>8, <2>9 DEF rows
<1>5. CASE limit # 0 /\ n = 0
  BY <1>5
<1>6. n = 0 \/ n = 1 \/ n > 1
  <2>. HIDE DEF n
  <2>. QED  BY <1>1
<1>. QED  BY <1>2, <1>3, <1>4, <1>5, <1>6

-----------------------------------------------------------------------------
(* What a client is shown *)

Counts == [i \in DOMAIN sorted |-> Len(Rows(sorted[i]))]

LEMMA SortedTypes ==
    ASSUME TreeTypes
    PROVE  /\ Len(sorted) \in Nat /\ DOMAIN sorted = 1..Len(sorted)
           /\ \A i \in 1..Len(sorted) :
                /\ sorted[i] \in Range(categories)
                /\ Rows(sorted[i]) = matches[sorted[i]]
                /\ Rows(sorted[i]) \in Seq(Match) \ {<<>>}
                /\ Len(Rows(sorted[i])) \in Nat \ {0}
<1>1. Len(sorted) \in Nat /\ DOMAIN sorted = 1..Len(sorted)
  BY LenProperties DEF TreeTypes
<1>2. ASSUME NEW i \in 1..Len(sorted)
      PROVE  /\ sorted[i] \in Range(categories) /\ Rows(sorted[i]) = matches[sorted[i]]
             /\ Rows(sorted[i]) \in Seq(Match) \ {<<>>}
  <2>1. sorted[i] \in Range(sorted)
    BY <1>1 DEF Range
  <2>2. sorted[i] \in Range(categories) /\ sorted[i] \in DOMAIN matches
    BY <2>1 DEF TreeTypes
  <2>3. matches[sorted[i]] \in Seq(Match) \ {<<>>}
    BY <2>2 DEF TreeTypes
  <2>. QED  BY <2>2, <2>3 DEF Rows
<1>3. ASSUME NEW i \in 1..Len(sorted) PROVE Len(Rows(sorted[i])) \in Nat \ {0}
  BY <1>2, EmptySeq, LenProperties
<1>. QED  BY <1>1, <1>2, <1>3

LEMMA CountsType ==
    ASSUME TreeTypes
    PROVE  /\ Counts \in Seq(Nat \ {0}) /\ Len(Counts) = Len(sorted)
           /\ \A i \in 1..Len(sorted) : Counts[i] = Len(Rows(sorted[i]))
<1>1. /\ Len(sorted) \in Nat /\ DOMAIN sorted = 1..Len(sorted)
      /\ \A i \in 1..Len(sorted) : Len(Rows(sorted[i])) \in Nat \ {0}
  BY SortedTypes
<1>2. Counts \in [1..Len(sorted) -> Nat \ {0}]
  BY <1>1 DEF Counts
<1>. QED  BY <1>1, <1>2, SeqDef DEF Counts

\* Each category has a row and the client has not many more than it wants, for every limit,
\* every number of categories and all their sizes.
THEOREM EveryCategoryShownTheorem == Spec => []EveryCategoryShown
<1>1. ResultsInv => EveryCategoryShown
  <2>. SUFFICES ASSUME TreeTypes, NEW limit \in Limits
                PROVE  LET rows == Distribution(limit, Counts)
                       IN  /\ \A i \in DOMAIN sorted : rows[i] \in 1..Counts[i]
                           /\ limit > 0 /\ sorted # <<>> =>
                                /\ Total(rows) < limit + Len(sorted)
                                /\ Len(sorted) > 1 => rows[1] <= CeilDiv(limit, 2)
    BY DEF ResultsInv, ShownInv, EveryCategoryShown, Counts
  <2>1. limit \in Nat
    BY ResultsAssumption
  <2>2. /\ Counts \in Seq(Nat \ {0}) /\ Len(Counts) = Len(sorted)
        /\ Len(sorted) \in Nat /\ DOMAIN sorted = 1..Len(sorted)
    BY CountsType, SortedTypes
  <2>3. sorted # <<>> => Len(sorted) > 0
    BY <2>2, EmptySeq DEF TreeTypes
  <2>. QED  BY <2>1, <2>2, <2>3, DistributionBounds
<1>. QED  BY <1>1, ResultsInvariance, PTL

-----------------------------------------------------------------------------
(* Sequences that are put together *)

\* f[i] is what the first i sequences are when they are put together.
Joined(f, seqs, n) ==
    /\ f[0] = <<>>
    /\ \A i \in 1..n : f[i] = IF i = 1 THEN seqs[i] ELSE f[i - 1] \o seqs[i]

LEMMA FlattenDefined ==
    ASSUME NEW T, NEW n \in Nat \ {0}, NEW seqs \in [1..n -> Seq(T)]
    PROVE  \E f \in [0..n -> Seq(T)] : Joined(f, seqs, n) /\ FlattenSeq(seqs) = f[n]
<1>. DEFINE F(f) == [i \in 1..n |-> IF i = 1 THEN seqs[i] ELSE f[i - 1] \o seqs[i]]
            flatten == CHOOSE f : f = F(f)
            step == [p \in (1..n) \X Seq(T) |->
                        IF p[1] = 1 THEN seqs[p[1]] ELSE p[2] \o seqs[p[1]]]
<1>1. step \in [(1..n) \X Seq(T) -> Seq(T)]
  <2>. SUFFICES ASSUME NEW i \in 1..n, NEW s \in Seq(T)
                PROVE  (IF i = 1 THEN seqs[i] ELSE s \o seqs[i]) \in Seq(T)
    OBVIOUS
  <2>1. seqs[i] \in Seq(T)
    OBVIOUS
  <2>. QED  BY <2>1, ConcatProperties
<1>2. \A i \in 1..n, s \in Seq(T) : step[<<i, s>>] = IF i = 1 THEN seqs[i] ELSE s \o seqs[i]
  OBVIOUS
<1>. HIDE DEF step
<1>3. PICK g \in [0..n -> Seq(T)] : Recursion(g, <<>>, step, n)
  <2>1. <<>> \in Seq(T) /\ n \in Nat
    OBVIOUS
  <2>. QED  BY <1>1, <2>1, RecursionExists
<1>4. \A i \in 1..n : g[i] = IF i = 1 THEN seqs[i] ELSE g[i - 1] \o seqs[i]
  <2>1. \A i \in 1..n : g[i - 1] \in Seq(T)
    BY <1>3
  <2>. QED  BY <1>2, <1>3, <2>1 DEF Recursion
<1>. DEFINE h == [i \in 1..n |-> g[i]]
<1>5. h = F(h)
  <2>1. ASSUME NEW i \in 1..n PROVE h[i] = F(h)[i]
    <3>1. CASE i = 1
      BY <1>4, <3>1
    <3>2. CASE i # 1
      <4>1. i - 1 \in 1..n
        BY <3>2
      <4>. QED  BY <1>4, <3>2, <4>1
    <3>. QED  BY <3>1, <3>2
  <2>2. h = [i \in 1..n |-> h[i]] /\ F(h) = [i \in 1..n |-> F(h)[i]]
    OBVIOUS
  <2>. HIDE DEF F, h
  <2>. QED  BY <2>1, <2>2, Zenon
<1>6. FlattenSeq(seqs) = flatten[n]
  <2>1. Len(seqs) = n /\ n # 0
    BY SeqDef
  <2>. QED  BY <2>1 DEF FlattenSeq
<1>. HIDE DEF F, h
<1>7. flatten = F(flatten)
  BY <1>5
<1>. HIDE DEF flatten
<1>8. \A i \in 1..n : flatten[i] = IF i = 1 THEN seqs[i] ELSE flatten[i - 1] \o seqs[i]
  BY <1>7 DEF F
<1>. DEFINE Same == {i \in 0..n : i = 0 \/ flatten[i] = g[i]}
<1>9. 0 \in Same
  OBVIOUS
<1>10. ASSUME NEW i \in 1..n, i - 1 \in Same PROVE i \in Same
  BY <1>4, <1>8, <1>10
<1>11. 0..n \subseteq Same
  <2>. HIDE DEF Same
  <2>. QED  BY <1>9, <1>10, UpTo
<1>12. flatten[n] = g[n]
  BY <1>11
<1>. QED  BY <1>3, <1>4, <1>6, <1>12 DEF Recursion, Joined

LEMMA FlattenProperties ==
    ASSUME NEW T, NEW n \in Nat, NEW seqs \in [1..n -> Seq(T)]
    PROVE  /\ FlattenSeq(seqs) \in Seq(T)
           /\ Range(FlattenSeq(seqs)) = UNION {Range(seqs[i]) : i \in 1..n}
           /\ (\A i \in 1..n : IsInjective(seqs[i])) /\
              (\A i, j \in 1..n : i # j => Range(seqs[i]) \cap Range(seqs[j]) = {})
                => IsInjective(FlattenSeq(seqs))
<1>. DEFINE Apart == /\ \A i \in 1..n : IsInjective(seqs[i])
                     /\ \A i, j \in 1..n : i # j => Range(seqs[i]) \cap Range(seqs[j]) = {}
            Elements(k) == UNION {Range(seqs[i]) : i \in 1..k}
<1>1. CASE n = 0
  <2>1. seqs = <<>>
    BY <1>1
  <2>2. FlattenSeq(seqs) = <<>>
    BY <2>1 DEF FlattenSeq
  <2>. QED  BY <1>1, <2>2 DEF Range, IsInjective
<1>2. CASE n # 0
  <2>1. n \in Nat \ {0}
    BY <1>2
  <2>2. PICK f \in [0..n -> Seq(T)] : Joined(f, seqs, n) /\ FlattenSeq(seqs) = f[n]
    BY <2>1, FlattenDefined
  <2>. DEFINE Good(k) == Range(f[k]) = Elements(k) /\ (Apart => IsInjective(f[k]))
              Done == {k \in 0..n : Good(k)}
  <2>3. 0 \in Done
    <3>1. f[0] = <<>>
      BY <2>2 DEF Joined
    <3>. QED  BY <3>1 DEF Range, IsInjective
  <2>4. ASSUME NEW k \in 1..n, k - 1 \in Done PROVE k \in Done
    <3>1. f[k] = f[k - 1] \o seqs[k]
      <4>1. CASE k = 1
        <5>1. f[k] = seqs[k] /\ f[k - 1] = <<>>
          BY <2>2, <4>1 DEF Joined
        <5>2. seqs[k] \in Seq(T)
          OBVIOUS
        <5>. QED  BY <5>1, <5>2, ConcatEmptySeq
      <4>2. CASE k # 1
        BY <2>2, <4>2 DEF Joined
      <4>. QED  BY <4>1, <4>2
    <3>2. f[k - 1] \in Seq(T) /\ seqs[k] \in Seq(T)
      BY <2>1
    <3>3. Range(f[k - 1]) = Elements(k - 1) /\ (Apart => IsInjective(f[k - 1]))
      BY <2>4
    <3>4. Range(f[k]) = Elements(k - 1) \cup Range(seqs[k])
      BY <3>1, <3>2, <3>3, RangeConcatenation
    <3>5. Elements(k) = Elements(k - 1) \cup Range(seqs[k])
      <4>1. \A i : i \in 1..k <=> i \in 1..(k - 1) \/ i = k
        BY <2>1
      <4>. QED  BY <4>1
    <3>6. ASSUME Apart PROVE IsInjective(f[k])
      <4>1. IsInjective(f[k - 1]) /\ IsInjective(seqs[k])
        BY <3>3, <3>6
      <4>2. Elements(k - 1) \cap Range(seqs[k]) = {}
        <5>1. \A i \in 1..(k - 1) : i \in 1..n /\ i # k
          BY <2>1
        <5>. QED  BY <3>6, <5>1
      <4>. QED  BY <3>1, <3>2, <3>3, <4>1, <4>2, ConcatInjective
    <3>7. Good(k)
      <4>. HIDE DEF Apart, Elements
      <4>. QED  BY <3>4, <3>5, <3>6
    <3>. QED  BY <3>7
  <2>5. 0..n \subseteq Done
    <3>. HIDE DEF Done
    <3>. QED  BY <2>3, <2>4, UpTo
  <2>6. Good(n) /\ f[n] \in Seq(T)
    BY <2>5
  <2>. QED  BY <2>2, <2>6
<1>. QED  BY <1>1, <1>2

-----------------------------------------------------------------------------
(* The rows of the list *)

\* The rows of a category in their order: each of them once, the best first.
LEMMA SortedRowsProperties ==
    ASSUME NEW c, Rows(c) \in Seq(Match)
    PROVE  /\ SortedRows(c) \in Seq(1..Len(Rows(c))) /\ IsInjective(SortedRows(c))
           /\ Range(SortedRows(c)) = 1..Len(Rows(c)) /\ Len(SortedRows(c)) = Len(Rows(c))
           /\ \A i, j \in 1..Len(Rows(c)) :
                i < j => Rank[Rows(c)[SortedRows(c)[i]]] >= Rank[Rows(c)[SortedRows(c)[j]]]
<1>. DEFINE n == Len(Rows(c))
            S == 1..n
            F == [i \in S |-> 0]
            R == [i \in S |-> Rank[Rows(c)[i]]]
            P == [i \in S |-> i]
            before == {p \in S \X S :
                RowLessThan(c, p[2], p[1]) \/ (~RowLessThan(c, p[1], p[2]) /\ p[1] < p[2])}
            t == SortedRows(c)
<1>1. n \in Nat /\ DOMAIN Rows(c) = S /\ \A i \in S : Rows(c)[i] \in Match
  BY LenProperties, ElementOfSeq
<1>2. F \in [S -> Nat] /\ R \in [S -> Nat] /\ P \in [S -> Nat]
  <2>1. Rank \in [Match -> Nat]
    BY ResultsAssumption
  <2>. QED  BY <1>1, <2>1
<1>3. /\ \A i \in S : F[i] = 0 /\ P[i] = i /\ R[i] = Rank[Rows(c)[i]]
      /\ \A x, y \in S : P[x] = P[y] => x = y
  OBVIOUS
<1>4. t = Arranged(S, before)
  BY <1>1 DEF SortedRows
<1>. HIDE DEF F, R, P
<1>5. before = ByKeys(S, F, R, P)
  BY <1>3 DEF ByKeys, RowLessThan
<1>6. IsFiniteSet(S) /\ Cardinality(S) = n
  <2>1. 1 \in Int /\ n \in Int /\ n - 1 + 1 = n
    BY <1>1
  <2>. HIDE DEF n
  <2>. QED  BY <1>1, <2>1, FS_Interval
<1>. HIDE DEF S, t
<1>7. StrictOrder(S, before)
  <2>. HIDE DEF before
  <2>. QED  BY <1>2, <1>3, <1>5, KeysOrder
<1>8. t \in SetToSeqs(S) /\ \A i, j \in DOMAIN t : i < j => <<t[i], t[j]>> \in before
  <2>. HIDE DEF before
  <2>. QED  BY <1>4, <1>6, <1>7, ArrangedProperties
<1>9. t \in Seq(S) /\ IsInjective(t) /\ Range(t) = S /\ Len(t) = n
  BY <1>6, <1>8, SetToSeqsProperties
<1>10. ASSUME NEW i \in 1..n, NEW j \in 1..n, i < j
       PROVE  Rank[Rows(c)[t[i]]] >= Rank[Rows(c)[t[j]]]
  <2>1. DOMAIN t = 1..n /\ t[i] \in S /\ t[j] \in S
    BY <1>9, LenProperties, ElementOfSeq
  <2>2. <<t[i], t[j]>> \in before
    BY <1>8, <1>10, <2>1
  <2>3. R[t[i]] \in Nat /\ R[t[j]] \in Nat
    BY <1>2, <2>1
  <2>. QED  BY <1>3, <2>1, <2>2, <2>3 DEF RowLessThan
<1>. QED  BY <1>9, <1>10 DEF S, t

\* The pieces that the flattened tree is put together from, one for each category.
Shares(limit) == Distribution(limit, Counts)
ParentOf(i) == Place(categories, sorted[i]) - 1
ShownRows(limit, i) == SubSeq(SortedRows(sorted[i]), 1, Shares(limit)[i])
IndexOf(limit, i, k) == Index(ShownRows(limit, i)[k] - 1, ParentOf(i))
Piece(limit, i) ==
    <<CategoryIndex(ParentOf(i))>> \o [k \in DOMAIN ShownRows(limit, i) |-> IndexOf(limit, i, k)]
Places == [row : Nat, internalId : Nat]

LEMMA FlattenedPieces ==
    ASSUME NEW limit
    PROVE  Flattened(limit) = FlattenSeq([i \in DOMAIN sorted |-> Piece(limit, i)])
BY DEF Flattened, Piece, IndexOf, ShownRows, ParentOf, Shares, Counts

LEMMA ParentProperties ==
    ASSUME TreeTypes, NEW i \in 1..Len(sorted)
    PROVE  /\ ParentOf(i) \in Nat /\ ParentOf(i) + 1 \in DOMAIN categories
           /\ categories[ParentOf(i) + 1] = sorted[i]
           /\ \A j \in 1..Len(sorted) : ParentOf(i) = ParentOf(j) => i = j
<1>1. ASSUME NEW j \in 1..Len(sorted)
      PROVE  /\ ParentOf(j) \in Nat /\ ParentOf(j) + 1 \in DOMAIN categories
             /\ categories[ParentOf(j) + 1] = sorted[j]
  <2>1. /\ Place(categories, sorted[j]) \in 1..Len(categories)
        /\ categories[Place(categories, sorted[j])] = sorted[j]
    <3>1. sorted[j] \in Range(categories)
      BY SortedTypes
    <3>. QED  BY <3>1, PlaceProperties DEF TreeTypes
  <2>2. Len(categories) \in Nat /\ DOMAIN categories = 1..Len(categories)
    BY LenProperties DEF TreeTypes
  <2>. DEFINE p == Place(categories, sorted[j])
  <2>. HIDE DEF p
  <2>3. p \in 1..Len(categories) /\ categories[p] = sorted[j]
    BY <2>1 DEF p
  <2>4. p - 1 \in Nat /\ (p - 1) + 1 = p
    BY <2>2, <2>3
  <2>5. ParentOf(j) = p - 1
    BY DEF ParentOf, p
  <2>. QED  BY <2>2, <2>3, <2>4, <2>5
<1>2. \A j \in 1..Len(sorted) : sorted[i] = sorted[j] => i = j
  BY SortedTypes DEF TreeTypes, IsInjective
<1>. QED  BY <1>1, <1>2

\* The rows of a category that are shown are the first ones in its order.
LEMMA ShownRowsProperties ==
    ASSUME TreeTypes, NEW limit \in Nat, NEW i \in 1..Len(sorted)
    PROVE  LET c == sorted[i]
           IN  /\ Shares(limit)[i] \in 1..Len(Rows(c))
               /\ Len(ShownRows(limit, i)) = Shares(limit)[i]
               /\ DOMAIN ShownRows(limit, i) = 1..Shares(limit)[i]
               /\ IsInjective(ShownRows(limit, i))
               /\ \A k \in 1..Shares(limit)[i] :
                    /\ ShownRows(limit, i)[k] = SortedRows(c)[k]
                    /\ ShownRows(limit, i)[k] \in 1..Len(Rows(c))
<1>. DEFINE c == sorted[i]
            n == Shares(limit)[i]
            rows == ShownRows(limit, i)
            T == 1..Len(Rows(c))
<1>1. Rows(c) \in Seq(Match) /\ Len(Rows(c)) \in Nat
  BY SortedTypes
<1>2. n \in 1..Len(Rows(c))
  <2>1. Counts \in Seq(Nat \ {0}) /\ i \in 1..Len(Counts) /\ Counts[i] = Len(Rows(c))
    BY CountsType
  <2>. QED  BY <2>1, DistributionBounds DEF Shares
<1>3. SortedRows(c) \in Seq(T) /\ IsInjective(SortedRows(c)) /\ Len(SortedRows(c)) = Len(Rows(c))
  BY <1>1, SortedRowsProperties
<1>4. n \in 0..Len(SortedRows(c))
  <2>. HIDE DEF n, c
  <2>. QED  BY <1>1, <1>2, <1>3
<1>. HIDE DEF n, c, T
<1>5. rows = SubSeq(SortedRows(c), 1, n)
  BY DEF ShownRows, c, n
<1>. HIDE DEF rows
<1>6. /\ rows \in Seq(T) /\ Len(rows) = n /\ IsInjective(rows)
      /\ \A k \in 1..n : rows[k] = SortedRows(c)[k]
  BY <1>3, <1>4, <1>5, PrefixProperties
<1>7. DOMAIN rows = 1..n /\ \A k \in 1..n : rows[k] \in T
  BY <1>6, LenProperties, ElementOfSeq
<1>. QED  BY <1>2, <1>6, <1>7 DEF n, c, T, rows

LEMMA PieceProperties ==
    ASSUME TreeTypes, NEW limit \in Nat, NEW i \in 1..Len(sorted)
    PROVE  /\ Piece(limit, i) \in Seq(Places) /\ IsInjective(Piece(limit, i))
           /\ Range(Piece(limit, i)) =
                {CategoryIndex(ParentOf(i))} \cup {IndexOf(limit, i, k) : k \in 1..Shares(limit)[i]}
           /\ \A k \in 1..Shares(limit)[i] :
                /\ IndexOf(limit, i, k).row = ShownRows(limit, i)[k] - 1
                /\ IndexOf(limit, i, k).internalId = ParentOf(i) + 1
                /\ IndexOf(limit, i, k).internalId # 0
<1>. DEFINE n == Shares(limit)[i]
            p == ParentOf(i)
            rows == ShownRows(limit, i)
            head == <<CategoryIndex(p)>>
            tail == [k \in 1..n |-> IndexOf(limit, i, k)]
<1>1. p \in Nat
  BY ParentProperties
<1>2. /\ n \in Nat /\ DOMAIN rows = 1..n /\ IsInjective(rows)
      /\ \A k \in 1..n : rows[k] \in Nat \ {0}
  <2>1. Len(Rows(sorted[i])) \in Nat
    BY SortedTypes
  <2>2. /\ n \in 1..Len(Rows(sorted[i])) /\ DOMAIN rows = 1..n /\ IsInjective(rows)
        /\ \A k \in 1..n : rows[k] \in 1..Len(Rows(sorted[i]))
    BY ShownRowsProperties
  <2>. HIDE DEF n, rows
  <2>. QED  BY <2>1, <2>2
<1>. HIDE DEF n, p, rows
<1>3. \A k \in 1..n : IndexOf(limit, i, k) = [row |-> rows[k] - 1, internalId |-> p + 1]
  BY DEF IndexOf, Index, rows, p
<1>4. \A k \in 1..n : rows[k] - 1 \in Nat /\ p + 1 \in Nat /\ p + 1 # 0
  BY <1>1, <1>2
<1>5. \A k \in 1..n : /\ IndexOf(limit, i, k) \in Places
                      /\ IndexOf(limit, i, k).row = rows[k] - 1
                      /\ IndexOf(limit, i, k).internalId = p + 1
  BY <1>3, <1>4 DEF Places
<1>6. tail \in Seq(Places) /\ Range(tail) = {IndexOf(limit, i, k) : k \in 1..n}
  <2>1. tail \in [1..n -> Places]
    BY <1>5
  <2>. QED  BY <1>2, <2>1, SeqDef DEF Range
<1>7. IsInjective(tail)
  <2>. SUFFICES ASSUME NEW a \in 1..n, NEW b \in 1..n, tail[a] = tail[b] PROVE a = b
    BY DEF IsInjective
  <2>1. rows[a] - 1 = rows[b] - 1
    BY <1>5
  <2>2. rows[a] = rows[b]
    BY <1>2, <2>1
  <2>. QED  BY <1>2, <2>2 DEF IsInjective
<1>8. /\ head \in Seq(Places) /\ Range(head) = {CategoryIndex(p)} /\ IsInjective(head)
      /\ CategoryIndex(p).internalId = 0
  <2>1. CategoryIndex(p) \in Places /\ CategoryIndex(p).internalId = 0
    BY <1>1 DEF CategoryIndex, Places
  <2>2. head \in Seq(Places) /\ DOMAIN head = {1} /\ head[1] = CategoryIndex(p)
    BY <2>1
  <2>. HIDE DEF head
  <2>. QED  BY <2>1, <2>2 DEF Range, IsInjective
<1>9. Range(head) \cap Range(tail) = {}
  BY <1>4, <1>5, <1>6, <1>8
<1>10. Piece(limit, i) = head \o tail
  BY <1>2 DEF Piece, p, rows
<1>. HIDE DEF head, tail
<1>11. Piece(limit, i) \in Seq(Places) /\ IsInjective(Piece(limit, i))
  BY <1>6, <1>7, <1>8, <1>9, <1>10, ConcatInjective, ConcatProperties
<1>12. Range(Piece(limit, i)) = Range(head) \cup Range(tail)
  BY <1>6, <1>8, <1>10, RangeConcatenation
<1>. QED  BY <1>4, <1>5, <1>6, <1>8, <1>11, <1>12 DEF n, p, rows

\* The list of a client holds the rows that are shown, of every category, and no other.
LEMMA ShownProperties ==
    ASSUME TreeTypes, NEW limit \in Nat
    PROVE  /\ Shown(limit) \in Seq(Places) /\ IsInjective(Shown(limit))
           /\ \A index : index \in Range(Shown(limit)) <=>
                \E i \in 1..Len(sorted) : \E k \in 1..Shares(limit)[i] : index = IndexOf(limit, i, k)
<1>. DEFINE n == Len(sorted)
            pieces == [i \in 1..n |-> Piece(limit, i)]
            flat == Flattened(limit)
            S == {index \in Range(flat) : index.internalId # 0}
<1>1. n \in Nat /\ DOMAIN sorted = 1..n
  BY SortedTypes
<1>2. flat = FlattenSeq(pieces)
  BY <1>1, FlattenedPieces
<1>3. /\ pieces \in [1..n -> Seq(Places)] /\ \A i \in 1..n : pieces[i] = Piece(limit, i)
  BY PieceProperties
<1>4. \A i \in 1..n : IsInjective(pieces[i])
  BY <1>3, PieceProperties
<1>5. ASSUME NEW i \in 1..n, NEW x \in Range(pieces[i])
      PROVE  /\ x.internalId = 0 => x.row = ParentOf(i)
             /\ x.internalId # 0 => x.internalId = ParentOf(i) + 1
  <2>1. x \in {CategoryIndex(ParentOf(i))} \cup {IndexOf(limit, i, k) : k \in 1..Shares(limit)[i]}
    BY <1>3, PieceProperties
  <2>2. CASE x = CategoryIndex(ParentOf(i))
    <3>1. x.internalId = 0 /\ x.row = ParentOf(i)
      BY <2>2 DEF CategoryIndex
    <3>. QED  BY <3>1
  <2>3. CASE x \in {IndexOf(limit, i, k) : k \in 1..Shares(limit)[i]}
    <3>1. x.internalId # 0 /\ x.internalId = ParentOf(i) + 1
      BY <2>3, PieceProperties
    <3>. QED  BY <3>1
  <2>. QED  BY <2>1, <2>2, <2>3
<1>6. ASSUME NEW i \in 1..n, NEW j \in 1..n, i # j PROVE Range(pieces[i]) \cap Range(pieces[j]) = {}
  <2>1. ParentOf(i) # ParentOf(j) /\ ParentOf(i) \in Nat /\ ParentOf(j) \in Nat
    BY <1>6, ParentProperties
  <2>2. ParentOf(i) + 1 # ParentOf(j) + 1
    BY <2>1
  <2>. HIDE DEF pieces
  <2>. QED  BY <1>5, <2>1, <2>2
<1>. HIDE DEF pieces, n
<1>7. flat \in Seq(Places) /\ IsInjective(flat) /\ Range(flat) = UNION {Range(pieces[i]) : i \in 1..n}
  BY <1>1, <1>2, <1>3, <1>4, <1>6, FlattenProperties
<1>. HIDE DEF flat
<1>8. Shown(limit) = Within(flat, S)
  BY DEF Shown, HideRootLevel, flat
<1>9. /\ Shown(limit) \in Seq(Places) /\ IsInjective(Shown(limit))
      /\ Range(Shown(limit)) = Range(flat) \cap S
  <2>. HIDE DEF S
  <2>. QED  BY <1>7, <1>8, WithinProperties
<1>10. ASSUME NEW index
      PROVE  index \in Range(Shown(limit)) <=>
                \E i \in 1..n : \E k \in 1..Shares(limit)[i] : index = IndexOf(limit, i, k)
  <2>1. index \in Range(Shown(limit)) <=>
            \E i \in 1..n : index \in Range(pieces[i]) /\ index.internalId # 0
    BY <1>7, <1>9
  <2>2. ASSUME NEW i \in 1..n
        PROVE  index \in Range(pieces[i]) /\ index.internalId # 0 <=>
                    \E k \in 1..Shares(limit)[i] : index = IndexOf(limit, i, k)
    <3>1. Range(pieces[i]) =
            {CategoryIndex(ParentOf(i))} \cup {IndexOf(limit, i, k) : k \in 1..Shares(limit)[i]}
      BY <1>3, PieceProperties DEF n
    <3>2. \A k \in 1..Shares(limit)[i] : IndexOf(limit, i, k).internalId # 0
      BY PieceProperties DEF n
    <3>3. CategoryIndex(ParentOf(i)).internalId = 0
      BY DEF CategoryIndex
    <3>. QED  BY <3>1, <3>2, <3>3
  <2>. QED  BY <2>1, <2>2
<1>. QED  BY <1>9, <1>10 DEF n

\* The match that a view has at a row of the list is the one that fetchMatch finds there.
LEMMA MatchAt ==
    ASSUME TreeTypes, ViewMirrors, NEW limit \in Nat,
           NEW i \in 1..Len(sorted), NEW k \in 1..Shares(limit)[i]
    PROVE  LET index == IndexOf(limit, i, k)
               m == Rows(sorted[i])[SortedRows(sorted[i])[k]]
           IN  /\ view[Parent(index).row + 1].rows[index.row + 1] = m
               /\ FetchMatch(index) = {m}
<1>. DEFINE index == IndexOf(limit, i, k)
            p == ParentOf(i)
            q == SortedRows(sorted[i])[k]
<1>1. p \in Nat /\ p + 1 \in DOMAIN categories /\ categories[p + 1] = sorted[i]
  BY ParentProperties
<1>2. /\ ShownRows(limit, i)[k] = q /\ q \in 1..Len(Rows(sorted[i]))
      /\ DOMAIN Rows(sorted[i]) = 1..Len(Rows(sorted[i])) /\ Rows(sorted[i]) = matches[sorted[i]]
      /\ Len(Rows(sorted[i])) \in Nat
  <2>1. Rows(sorted[i]) \in Seq(Match) /\ Rows(sorted[i]) = matches[sorted[i]]
    BY SortedTypes
  <2>2. k \in 1..Shares(limit)[i]
    OBVIOUS
  <2>. QED  BY <2>1, <2>2, ShownRowsProperties, LenProperties
<1>3. index.row = q - 1 /\ index.internalId = p + 1
  BY <1>2, PieceProperties
<1>. HIDE DEF index, p, q
<1>4. index.row + 1 = q /\ index.internalId - 1 = p
  BY <1>1, <1>2, <1>3
<1>5. Parent(index).row + 1 = p + 1
  BY <1>4 DEF Parent, CategoryIndex
<1>6. view[p + 1].rows = Rows(sorted[i])
  BY <1>1, <1>2 DEF ViewMirrors, Tree
<1>7. FetchMatch(index) = {Rows(sorted[i])[q]}
  BY <1>1, <1>2, <1>3, <1>4 DEF FetchMatch
<1>. QED  BY <1>4, <1>5, <1>6, <1>7 DEF index, q

\* A match of the list that is not shown is a row of its category further down, and no
\* better than those that are.
LEMMA HiddenIsWorse ==
    ASSUME TreeTypes, TreeShowsList, emitted \in Lists, update = NoUpdate, NEW limit \in Nat,
           NEW i \in 1..Len(sorted), NEW k \in 1..Shares(limit)[i], NEW n \in Range(emitted),
           Category(Rows(sorted[i])[SortedRows(sorted[i])[k]]) = Category(n),
           \A j \in 1..Shares(limit)[i] : n # Rows(sorted[i])[SortedRows(sorted[i])[j]]
    PROVE  Rank[Rows(sorted[i])[SortedRows(sorted[i])[k]]] >= Rank[n]
<1>. DEFINE c == sorted[i]
            order == SortedRows(c)
            rows == Rows(c)
<1>1. rows \in Seq(Match) /\ Len(rows) \in Nat /\ c \in Range(categories) /\ rows = matches[c]
  BY SortedTypes
<1>2. Shares(limit)[i] \in 1..Len(rows)
  BY ShownRowsProperties
<1>3. /\ order \in Seq(1..Len(rows)) /\ Range(order) = 1..Len(rows) /\ Len(order) = Len(rows)
      /\ \A a, b \in 1..Len(rows) : a < b => Rank[rows[order[a]]] >= Rank[rows[order[b]]]
  BY <1>1, SortedRowsProperties
<1>4. Range(rows) = {m \in Range(emitted) : Category(m) = c}
  BY <1>1, NewRowsProperties DEF TreeShowsList
<1>. HIDE DEF c, order, rows
<1>5. k \in 1..Len(rows) /\ order[k] \in 1..Len(rows)
  <2>1. k \in 1..Len(rows)
    BY <1>1, <1>2
  <2>. QED  BY <1>3, <2>1, ElementOfSeq
<1>6. DOMAIN rows = 1..Len(rows) /\ DOMAIN order = 1..Len(rows)
  BY <1>1, <1>3, LenProperties
<1>7. Category(rows[order[k]]) = c
  BY <1>4, <1>5, <1>6 DEF Range
<1>8. n \in Range(rows)
  BY <1>4, <1>7 DEF c, order, rows
<1>9. PICK q \in 1..Len(rows) : rows[q] = n
  BY <1>6, <1>8 DEF Range
<1>10. PICK j \in 1..Len(rows) : order[j] = q
  BY <1>3, <1>6, <1>9 DEF Range
<1>11. j \notin 1..Shares(limit)[i]
  BY <1>9, <1>10 DEF c, order, rows
<1>12. k < j
  BY <1>1, <1>2, <1>5, <1>11
<1>13. Rank[rows[order[k]]] >= Rank[n]
  BY <1>3, <1>5, <1>9, <1>10, <1>12
<1>. QED  BY <1>13 DEF c, order, rows

\* For every tree, every limit and every order of the categories, the row that a client
\* chooses in the flat list runs the match that it shows, through all proxies; no row is
\* there twice, and a limit hides the worst of a category.
THEOREM RunsTheShownMatchTheorem == Spec => []RunsTheShownMatch
<1>1. ResultsInv => RunsTheShownMatch
  <2>. SUFFICES ASSUME ResultsInv, update = NoUpdate, NEW limit \in Limits
                PROVE  LET list == Shown(limit)
                           match(k) == view[Parent(list[k]).row + 1].rows[list[k].row + 1]
                           shown == {match(k) : k \in DOMAIN list}
                       IN  /\ \A k \in DOMAIN list : FetchMatch(list[k]) = {match(k)}
                           /\ IsInjective(list)
                           /\ \A m \in shown, n \in Range(emitted) \ shown :
                                Category(m) = Category(n) => Rank[m] >= Rank[n]
    BY DEF RunsTheShownMatch
  <2>. DEFINE list == Shown(limit)
              match(k) == view[Parent(list[k]).row + 1].rows[list[k].row + 1]
              shown == {match(k) : k \in DOMAIN list}
              MatchOf(i, k) == Rows(sorted[i])[SortedRows(sorted[i])[k]]
  <2>1. limit \in Nat
    BY ResultsAssumption
  <2>2. TreeTypes /\ ViewMirrors /\ TreeShowsList /\ emitted \in Lists
    BY DEF ResultsInv, ShownInv, UpdateTypes
  <2>3. /\ IsInjective(list)
        /\ \A index : index \in Range(list) <=>
              \E i \in 1..Len(sorted) : \E k \in 1..Shares(limit)[i] : index = IndexOf(limit, i, k)
    BY <2>1, <2>2, ShownProperties
  <2>4. ASSUME NEW l \in DOMAIN list
        PROVE  /\ FetchMatch(list[l]) = {match(l)}
               /\ \E i \in 1..Len(sorted) : \E k \in 1..Shares(limit)[i] : match(l) = MatchOf(i, k)
    <3>1. list[l] \in Range(list)
      BY DEF Range
    <3>2. PICK i \in 1..Len(sorted) : \E k \in 1..Shares(limit)[i] : list[l] = IndexOf(limit, i, k)
      BY <2>3, <3>1
    <3>3. PICK k \in 1..Shares(limit)[i] : list[l] = IndexOf(limit, i, k)
      BY <3>2
    <3>4. match(l) = MatchOf(i, k) /\ FetchMatch(list[l]) = {MatchOf(i, k)}
      BY <2>1, <2>2, <3>3, MatchAt
    <3>. QED  BY <3>4
  <2>5. ASSUME NEW i \in 1..Len(sorted), NEW k \in 1..Shares(limit)[i] PROVE MatchOf(i, k) \in shown
    <3>1. PICK l \in DOMAIN list : list[l] = IndexOf(limit, i, k)
      BY <2>3 DEF Range
    <3>2. match(l) = MatchOf(i, k)
      BY <2>1, <2>2, <3>1, MatchAt
    <3>. QED  BY <3>2
  <2>6. ASSUME NEW m \in shown, NEW n \in Range(emitted) \ shown, Category(m) = Category(n)
        PROVE  Rank[m] >= Rank[n]
    <3>1. PICK i \in 1..Len(sorted) : \E k \in 1..Shares(limit)[i] : m = MatchOf(i, k)
      BY <2>4
    <3>2. PICK k \in 1..Shares(limit)[i] : m = MatchOf(i, k)
      BY <3>1
    <3>3. \A j \in 1..Shares(limit)[i] : n # MatchOf(i, j)
      BY <2>5
    <3>. QED  BY <2>1, <2>2, <2>6, <3>2, <3>3, HiddenIsWorse
  <2>. HIDE DEF list
  <2>. QED  BY <2>3, <2>4, <2>6 DEF list
<1>. QED  BY <1>1, ResultsInvariance, PTL

=============================================================================
