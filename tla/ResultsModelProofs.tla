-------------------------- MODULE ResultsModelProofs --------------------------
(***************************************************************************)
(* Proofs about the models that show the matches: the tree and its signals, *)
(* the order of the categories and the history.                            *)
(***************************************************************************)
EXTENDS ResultsModel, SequenceTheorems, FiniteSetTheorems, WellFoundedInduction, TLAPS

-----------------------------------------------------------------------------
(* Least and greatest numbers *)

LEMMA LeastElement ==
    ASSUME NEW T, T \subseteq Nat, T # {} PROVE \E x \in T : \A y \in T : x <= y
<1>1. IsWellFoundedOn(OpToRel(<, Nat), Nat)
  BY NatLessThanWellFounded
<1>. DEFINE R == OpToRel(<, Nat)
<1>2. \A x, y \in Nat : x < y => <<x, y>> \in R
  BY DEF OpToRel
<1>. HIDE DEF R
<1>3. PICK x \in T : \A y \in T : <<y, x>> \notin R
  BY <1>1, WFMin DEF R
<1>4. x \in Nat /\ \A y \in T : y \in Nat /\ ~(y < x)
  BY <1>2, <1>3, Zenon
<1>5. \A y \in T : x <= y
  BY <1>4
<1>. QED  BY <1>3, <1>5

LEMMA MinIsLeast ==
    ASSUME NEW T, T \subseteq Nat, T # {}
    PROVE  Min(T) \in T /\ Min(T) \in Nat /\ \A y \in T : Min(T) <= y
BY LeastElement DEF Min

LEMMA MinOfTwo ==
    ASSUME NEW a \in Int, NEW b \in Int
    PROVE  Min({a, b}) = IF a <= b THEN a ELSE b
<1>. DEFINE least == IF a <= b THEN a ELSE b
<1>1. least \in {a, b} /\ \A y \in {a, b} : least <= y
  OBVIOUS
<1>2. \A x \in {a, b} : (\A y \in {a, b} : x <= y) => x = least
  OBVIOUS
<1>. QED  BY <1>1, <1>2 DEF Min

LEMMA MaxIsGreatest ==
    ASSUME NEW T, T \subseteq Nat, T # {}, NEW b \in Nat, \A y \in T : y <= b
    PROVE  Max(T) \in T /\ Max(T) \in Nat /\ \A y \in T : y <= Max(T)
<1>. DEFINE D == {d \in Nat : b - d \in T}
<1>1. PICK y \in T : y \in Nat /\ y <= b
  OBVIOUS
<1>2. b - y \in D
  BY <1>1
<1>3. PICK d \in D : \A e \in D : d <= e
  <2>1. D \subseteq Nat /\ D # {}
    BY <1>2
  <2>. HIDE DEF D
  <2>. QED  BY <2>1, LeastElement
<1>4. d \in Nat /\ b - d \in T
  BY <1>3
<1>5. ASSUME NEW z \in T PROVE z <= b - d
  <2>1. z \in Nat /\ z <= b
    OBVIOUS
  <2>2. b - z \in Nat /\ b - (b - z) = z
    BY <2>1
  <2>3. d <= b - z
    BY <1>3, <2>2
  <2>. QED  BY <1>4, <2>1, <2>3
<1>6. \E x \in T : \A z \in T : x >= z
  BY <1>4, <1>5
<1>7. Max(T) \in T /\ \A z \in T : Max(T) >= z
  BY <1>6 DEF Max
<1>. QED  BY <1>7

LEMMA NumbersBounded ==
    ASSUME NEW n \in Nat, NEW f, \A i \in 1..n : f[i] \in Nat
    PROVE  \E b \in Nat : \A i \in 1..n : f[i] <= b
<1>. DEFINE Bad == {k \in 0..n : ~\E b \in Nat : \A i \in 1..k : f[i] <= b}
<1>. SUFFICES ASSUME n \in Bad PROVE FALSE
  OBVIOUS
<1>1. PICK k \in Bad : \A j \in Bad : k <= j
  <2>1. Bad \subseteq Nat /\ Bad # {}
    OBVIOUS
  <2>. HIDE DEF Bad
  <2>. QED  BY <2>1, LeastElement
<1>2. k \in 0..n /\ ~\E b \in Nat : \A i \in 1..k : f[i] <= b
  BY <1>1
<1>3. k # 0
  BY <1>2
<1>4. k - 1 \in 0..n /\ k - 1 \notin Bad
  <2>1. k - 1 \in 0..n /\ ~(k <= k - 1)
    BY <1>2, <1>3
  <2>. HIDE DEF Bad
  <2>. QED  BY <1>1, <2>1
<1>5. PICK b \in Nat : \A i \in 1..(k - 1) : f[i] <= b
  BY <1>4
<1>. DEFINE c == IF f[k] <= b THEN b ELSE f[k]
<1>6. f[k] \in Nat /\ c \in Nat /\ b <= c /\ f[k] <= c
  BY <1>2, <1>3
<1>7. ASSUME NEW i \in 1..k PROVE f[i] <= c
  <2>1. CASE i = k
    BY <1>6, <2>1
  <2>2. CASE i # k
    <3>1. i \in 1..(k - 1) /\ f[i] \in Nat
      BY <1>2, <2>2
    <3>. QED  BY <1>5, <1>6, <3>1
  <2>. QED  BY <2>1, <2>2
<1>. QED  BY <1>2, <1>6, <1>7

-----------------------------------------------------------------------------
(* A sequence without some of its elements *)

LEMMA FunctionIsSeq ==
    ASSUME NEW T, NEW n \in Nat, NEW s \in [1..n -> T]
    PROVE  s \in Seq(T) /\ Len(s) = n /\ DOMAIN s = 1..n
BY SeqDef

\* The values of the function by which Within is defined.
Parts(g, s, S, n) ==
    /\ g = [i \in 0..n |-> g[i]] /\ g[0] = <<>>
    /\ \A i \in 1..n : g[i] = IF s[i] \in S THEN Append(g[i - 1], s[i]) ELSE g[i - 1]

LEMMA PartsExist ==
    ASSUME NEW s, NEW S, NEW n \in Nat PROVE \E g : Parts(g, s, S, n)
<1>. DEFINE Bad == {k \in 0..n : ~\E g : Parts(g, s, S, k)}
<1>. SUFFICES ASSUME n \in Bad PROVE FALSE
  OBVIOUS
<1>1. PICK k \in Bad : \A j \in Bad : k <= j
  <2>1. Bad \subseteq Nat /\ Bad # {}
    OBVIOUS
  <2>. HIDE DEF Bad
  <2>. QED  BY <2>1, LeastElement
<1>2. k \in 0..n /\ ~\E g : Parts(g, s, S, k)
  BY <1>1
<1>3. k # 0
  <2>1. Parts([i \in 0..0 |-> <<>>], s, S, 0)
    BY DEF Parts
  <2>. QED  BY <1>2, <2>1
<1>4. k - 1 \in 0..n /\ k - 1 \notin Bad
  BY <1>1, <1>2, <1>3
<1>5. PICK g : Parts(g, s, S, k - 1)
  BY <1>4
<1>. DEFINE last == IF s[k] \in S THEN Append(g[k - 1], s[k]) ELSE g[k - 1]
            h == [i \in 0..k |-> IF i < k THEN g[i] ELSE last]
<1>6. h[k] = last /\ \A i \in 0..(k - 1) : h[i] = g[i]
  BY <1>2
<1>11. h = [i \in 0..k |-> h[i]]
  OBVIOUS
<1>7. g[0] = <<>> /\ \A i \in 1..(k - 1) :
          g[i] = IF s[i] \in S THEN Append(g[i - 1], s[i]) ELSE g[i - 1]
  BY <1>5 DEF Parts
<1>. HIDE DEF h
<1>8. h[0] = <<>>
  BY <1>2, <1>3, <1>6, <1>7
<1>9. ASSUME NEW i \in 1..k
      PROVE  h[i] = IF s[i] \in S THEN Append(h[i - 1], s[i]) ELSE h[i - 1]
  <2>1. CASE i = k
    <3>1. h[k - 1] = g[k - 1]
      BY <1>2, <1>3, <1>6
    <3>. QED  BY <1>6, <2>1, <3>1
  <2>2. CASE i # k
    <3>1. i \in 1..(k - 1) /\ h[i] = g[i] /\ h[i - 1] = g[i - 1]
      BY <1>2, <1>6, <2>2
    <3>. QED  BY <1>7, <3>1
  <2>. QED  BY <2>1, <2>2
<1>10. Parts(h, s, S, k)
  BY <1>8, <1>9, <1>11 DEF Parts
<1>. QED  BY <1>2, <1>10

LEMMA WithinDefined ==
    ASSUME NEW s, NEW S, Len(s) \in Nat
    PROVE  \E g : Parts(g, s, S, Len(s)) /\ Within(s, S) = g[Len(s)]
<1>. DEFINE n == Len(s)
            F(f) == [i \in 0..n |-> IF i = 0 THEN <<>>
                                    ELSE IF s[i] \in S THEN Append(f[i - 1], s[i]) ELSE f[i - 1]]
            part == CHOOSE f : f = F(f)
<1>1. PICK g : Parts(g, s, S, n)
  BY PartsExist
<1>2. g = F(g)
  <2>1. g = [i \in 0..n |-> g[i]] /\ F(g) = [i \in 0..n |-> F(g)[i]]
    BY <1>1 DEF Parts
  <2>2. ASSUME NEW i \in 0..n PROVE g[i] = F(g)[i]
    <3>1. CASE i = 0
      BY <1>1, <3>1 DEF Parts
    <3>2. CASE i # 0
      <4>1. i \in 1..n
        BY <3>2
      <4>. QED  BY <1>1, <3>2, <4>1 DEF Parts
    <3>. QED  BY <3>1, <3>2
  <2>. HIDE DEF F
  <2>. QED  BY <2>1, <2>2, Zenon
<1>3. Within(s, S) = part[n]
  BY DEF Within
<1>. HIDE DEF F
<1>4. part = F(part)
  BY <1>2
<1>. HIDE DEF part
<1>5. Parts(part, s, S, n)
  <2>1. part = [i \in 0..n |-> part[i]] /\ part[0] = <<>>
    BY <1>4 DEF F
  <2>2. ASSUME NEW i \in 1..n
        PROVE  part[i] = IF s[i] \in S THEN Append(part[i - 1], s[i]) ELSE part[i - 1]
    <3>1. i \in 0..n /\ i # 0
      OBVIOUS
    <3>. QED  BY <1>4, <3>1 DEF F
  <2>. QED  BY <2>1, <2>2 DEF Parts
<1>. QED  BY <1>3, <1>5

\* t has the elements of the first k of s that belong to S, at the places p.
Picks(p, t, s, S, k) ==
    /\ p \in [1..Len(t) -> 1..k]
    /\ \A i, j \in 1..Len(t) : i < j => p[i] < p[j]
    /\ \A i \in 1..Len(t) : t[i] = s[p[i]] /\ t[i] \in S
    /\ \A q \in 1..k : s[q] \in S => \E i \in 1..Len(t) : p[i] = q

LEMMA PartsPick ==
    ASSUME NEW T, NEW s \in Seq(T), NEW S, NEW g, Parts(g, s, S, Len(s)), NEW k \in 0..Len(s)
    PROVE  g[k] \in Seq(T) /\ \E p : Picks(p, g[k], s, S, k)
<1>. DEFINE Good(i) == g[i] \in Seq(T) /\ \E p : Picks(p, g[i], s, S, i)
            Bad == {i \in 0..Len(s) : ~Good(i)}
<1>. SUFFICES ASSUME Bad # {} PROVE FALSE
  OBVIOUS
<1>0. Len(s) \in Nat
  OBVIOUS
<1>1. PICK m \in Bad : \A j \in Bad : m <= j
  <2>1. Bad \subseteq Nat
    BY <1>0
  <2>. HIDE DEF Bad
  <2>. QED  BY <2>1, LeastElement
<1>2. m \in 0..Len(s) /\ ~Good(m)
  BY <1>1
<1>3. m # 0
  <2>1. g[0] = <<>>
    BY DEF Parts
  <2>2. <<>> \in Seq(T) /\ Len(<<>>) = 0
    OBVIOUS
  <2>3. Picks([i \in 1..0 |-> 0], <<>>, s, S, 0)
    BY <2>2 DEF Picks
  <2>. QED  BY <1>2, <2>1, <2>2, <2>3
<1>4. m - 1 \in 0..Len(s) /\ m \in 1..Len(s) /\ m \in Nat
  BY <1>0, <1>2, <1>3
<1>5. Good(m - 1)
  <2>1. ~(m <= m - 1)
    BY <1>4
  <2>2. m - 1 \notin Bad
    <3>. HIDE DEF Bad
    <3>. QED  BY <1>1, <2>1
  <2>. QED  BY <1>4, <2>2
<1>. DEFINE t == g[m - 1]
<1>6. t \in Seq(T) /\ Len(t) \in Nat /\ s[m] \in T
  BY <1>4, <1>5
<1>7. PICK p : Picks(p, t, s, S, m - 1)
  BY <1>5
<1>8. g[m] = IF s[m] \in S THEN Append(t, s[m]) ELSE t
  BY <1>4 DEF Parts
<1>. HIDE DEF t
<1>9. CASE s[m] \notin S
  <2>1. Picks(p, t, s, S, m)
    <3>1. \A q \in 1..m : q = m \/ q \in 1..(m - 1)
      BY <1>4
    <3>2. 1..(m - 1) \subseteq 1..m
      BY <1>4
    <3>. QED  BY <1>7, <1>9, <3>1, <3>2 DEF Picks
  <2>. QED  BY <1>2, <1>6, <1>8, <1>9, <2>1
<1>10. CASE s[m] \in S
  <2>. DEFINE u == Append(t, s[m])
              n == Len(t)
              r == [i \in 1..(n + 1) |-> IF i <= n THEN p[i] ELSE m]
  <2>1. /\ u \in Seq(T) /\ Len(u) = n + 1 /\ u[n + 1] = s[m]
        /\ \A i \in 1..n : u[i] = t[i]
    BY <1>6
  <2>2. /\ \A i \in 1..n : r[i] = p[i] /\ p[i] \in 1..(m - 1) /\ t[i] = s[p[i]] /\ t[i] \in S
        /\ r[n + 1] = m
        /\ \A i, j \in 1..n : i < j => p[i] < p[j]
        /\ \A q \in 1..(m - 1) : s[q] \in S => \E i \in 1..n : p[i] = q
    BY <1>6, <1>7 DEF Picks
  <2>3. \A i \in 1..(n + 1) : i = n + 1 \/ i \in 1..n
    BY <1>6
  <2>4. r \in [1..(n + 1) -> 1..m]
    <3>1. ASSUME NEW i \in 1..(n + 1) PROVE r[i] \in 1..m
      <4>. HIDE DEF r
      <4>1. CASE i = n + 1
        BY <1>4, <2>2, <4>1
      <4>2. CASE i \in 1..n
        <5>1. r[i] \in 1..(m - 1)
          BY <2>2, <4>2
        <5>. QED  BY <1>4, <5>1
      <4>. QED  BY <2>3, <4>1, <4>2
    <3>. QED  BY <3>1
  <2>. HIDE DEF r, u
  <2>5. ASSUME NEW i \in 1..(n + 1), NEW j \in 1..(n + 1), i < j PROVE r[i] < r[j]
    <3>1. i \in 1..n
      BY <1>6, <2>5
    <3>2. CASE j = n + 1
      BY <1>4, <2>2, <3>1, <3>2
    <3>3. CASE j \in 1..n
      BY <2>2, <2>5, <3>1, <3>3
    <3>. QED  BY <2>3, <3>2, <3>3
  <2>6. ASSUME NEW i \in 1..(n + 1) PROVE u[i] = s[r[i]] /\ u[i] \in S
    BY <1>10, <2>1, <2>2, <2>3
  <2>7. ASSUME NEW q \in 1..m, s[q] \in S PROVE \E i \in 1..(n + 1) : r[i] = q
    <3>1. CASE q = m
      <4>1. n + 1 \in 1..(n + 1)
        BY <1>6
      <4>. QED  BY <2>2, <3>1, <4>1
    <3>2. CASE q # m
      <4>1. q \in 1..(m - 1)
        BY <1>4, <3>2
      <4>2. PICK i \in 1..n : p[i] = q
        BY <2>2, <2>7, <4>1
      <4>3. i \in 1..(n + 1)
        BY <1>6
      <4>. QED  BY <2>2, <4>2, <4>3
    <3>. QED  BY <3>1, <3>2
  <2>8. Picks(r, u, s, S, m)
    BY <2>1, <2>4, <2>5, <2>6, <2>7 DEF Picks
  <2>9. g[m] = u
    BY <1>8, <1>10 DEF u
  <2>. QED  BY <1>2, <2>1, <2>8, <2>9
<1>. QED  BY <1>9, <1>10

LEMMA WithinPicks ==
    ASSUME NEW T, NEW s \in Seq(T), NEW S
    PROVE  /\ Within(s, S) \in Seq(T)
           /\ \E p : Picks(p, Within(s, S), s, S, Len(s))
<1>1. Len(s) \in Nat /\ Len(s) \in 0..Len(s)
  OBVIOUS
<1>2. PICK g : Parts(g, s, S, Len(s)) /\ Within(s, S) = g[Len(s)]
  BY <1>1, WithinDefined
<1>. QED  BY <1>1, <1>2, PartsPick

LEMMA WithinProperties ==
    ASSUME NEW T, NEW s \in Seq(T), NEW S
    PROVE  /\ Within(s, S) \in Seq(T)
           /\ Range(Within(s, S)) = Range(s) \cap S
           /\ IsInjective(s) => IsInjective(Within(s, S))
<1>. DEFINE t == Within(s, S)
<1>1. t \in Seq(T)
  BY WithinPicks
<1>2. PICK p : Picks(p, t, s, S, Len(s))
  BY WithinPicks
<1>3. /\ DOMAIN s = 1..Len(s) /\ DOMAIN t = 1..Len(t) /\ Len(s) \in Nat /\ Len(t) \in Nat
  BY <1>1, LenProperties
<1>. HIDE DEF t
<1>4. /\ \A i \in 1..Len(t) : p[i] \in 1..Len(s) /\ t[i] = s[p[i]] /\ t[i] \in S
      /\ \A i, j \in 1..Len(t) : i < j => p[i] < p[j]
      /\ \A q \in 1..Len(s) : s[q] \in S => \E i \in 1..Len(t) : p[i] = q
  BY <1>2 DEF Picks
<1>5. Range(t) = Range(s) \cap S
  <2>1. \A x \in Range(t) : x \in Range(s) /\ x \in S
    BY <1>3, <1>4 DEF Range
  <2>2. ASSUME NEW x \in Range(s), x \in S PROVE x \in Range(t)
    <3>1. PICK q \in 1..Len(s) : s[q] = x
      BY <1>3 DEF Range
    <3>2. PICK i \in 1..Len(t) : p[i] = q
      BY <1>4, <2>2, <3>1
    <3>. QED  BY <1>3, <1>4, <3>1, <3>2 DEF Range
  <2>. QED  BY <2>1, <2>2
<1>6. ASSUME IsInjective(s) PROVE IsInjective(t)
  <2>. SUFFICES ASSUME NEW i \in 1..Len(t), NEW j \in 1..Len(t), t[i] = t[j] PROVE i = j
    BY <1>3 DEF IsInjective
  <2>1. p[i] = p[j]
    BY <1>3, <1>4, <1>6 DEF IsInjective
  <2>2. p[i] \in Int /\ ~(i < j) /\ ~(j < i)
    BY <1>3, <1>4, <2>1
  <2>. QED  BY <1>3, <2>2
<1>. QED  BY <1>1, <1>5, <1>6 DEF t

LEMMA WithoutProperties ==
    ASSUME NEW T, NEW s \in Seq(T), NEW e
    PROVE  /\ Without(s, e) \in Seq(T)
           /\ Range(Without(s, e)) = Range(s) \ {e}
           /\ IsInjective(s) => IsInjective(Without(s, e))
<1>1. Range(s) \cap (Range(s) \ {e}) = Range(s) \ {e}
  OBVIOUS
<1>. QED  BY <1>1, WithinProperties DEF Without

LEMMA RemoveAtProperties ==
    ASSUME NEW T, NEW s \in Seq(T), NEW n \in 1..Len(s)
    PROVE  /\ RemoveAt(s, n) \in Seq(T)
           /\ Len(RemoveAt(s, n)) = Len(s) - 1
           /\ \A i \in 1..(Len(s) - 1) : RemoveAt(s, n)[i] = IF i < n THEN s[i] ELSE s[i + 1]
<1>. DEFINE a == SubSeq(s, 1, n - 1)
            b == SubSeq(s, n + 1, Len(s))
<1>1. Len(s) \in Nat /\ n \in Nat /\ 1 \in Int /\ n - 1 \in Int /\ n + 1 \in Int
  OBVIOUS
<1>2. /\ a \in Seq(T) /\ Len(a) = n - 1
      /\ \A i \in 1..(n - 1) : a[i] = s[i]
  <2>1. \A i \in 1..(n - 1) : s[i] \in T
    BY <1>1
  <2>2. /\ a \in Seq(T) /\ Len(a) = IF 1 <= n - 1 THEN (n - 1) - 1 + 1 ELSE 0
        /\ \A i \in 1..((n - 1) - 1 + 1) : a[i] = s[1 + i - 1]
    BY <1>1, <2>1, SubSeqProperties
  <2>. HIDE DEF a
  <2>. QED  BY <1>1, <2>2
<1>3. /\ b \in Seq(T) /\ Len(b) = Len(s) - n
      /\ \A i \in 1..(Len(s) - n) : b[i] = s[n + i]
  <2>1. \A i \in (n + 1)..Len(s) : s[i] \in T
    BY <1>1
  <2>2. /\ b \in Seq(T) /\ Len(b) = IF n + 1 <= Len(s) THEN Len(s) - (n + 1) + 1 ELSE 0
        /\ \A i \in 1..(Len(s) - (n + 1) + 1) : b[i] = s[(n + 1) + i - 1]
    BY <1>1, <2>1, SubSeqProperties
  <2>. HIDE DEF b
  <2>3. Len(b) = Len(s) - n
    BY <1>1, <2>2
  <2>4. ASSUME NEW i \in 1..(Len(s) - n) PROVE b[i] = s[n + i]
    <3>1. i \in 1..(Len(s) - (n + 1) + 1) /\ (n + 1) + i - 1 = n + i
      BY <1>1
    <3>. QED  BY <2>2, <3>1
  <2>. QED  BY <2>2, <2>3, <2>4
<1>4. RemoveAt(s, n) = a \o b
  BY DEF RemoveAt
<1>. HIDE DEF a, b
<1>5. /\ a \o b \in Seq(T) /\ Len(a \o b) = Len(a) + Len(b)
      /\ \A i \in 1..(Len(a) + Len(b)) : (a \o b)[i] = IF i <= Len(a) THEN a[i] ELSE b[i - Len(a)]
  BY <1>2, <1>3, ConcatProperties
<1>6. Len(a \o b) = Len(s) - 1
  BY <1>1, <1>2, <1>3, <1>5
<1>7. ASSUME NEW i \in 1..(Len(s) - 1) PROVE (a \o b)[i] = IF i < n THEN s[i] ELSE s[i + 1]
  <2>1. i \in 1..(Len(a) + Len(b)) /\ i \in Nat
    BY <1>1, <1>2, <1>3
  <2>2. CASE i < n
    <3>1. i \in 1..(n - 1) /\ i <= Len(a)
      BY <1>1, <1>2, <2>1, <2>2
    <3>. QED  BY <1>2, <1>5, <2>1, <2>2, <3>1
  <2>3. CASE ~(i < n)
    <3>1. ~(i <= Len(a)) /\ i - Len(a) \in 1..(Len(s) - n) /\ n + (i - Len(a)) = i + 1
      BY <1>1, <1>2, <2>1, <2>3
    <3>. QED  BY <1>3, <1>5, <2>1, <2>3, <3>1
  <2>. QED  BY <2>2, <2>3
<1>. QED  BY <1>4, <1>5, <1>6, <1>7

\* In a sequence that has no element twice.
LEMMA RemoveAtInjective ==
    ASSUME NEW T, NEW s \in Seq(T), NEW n \in 1..Len(s), IsInjective(s)
    PROVE  /\ IsInjective(RemoveAt(s, n))
           /\ Range(RemoveAt(s, n)) = Range(s) \ {s[n]}
           /\ SameOrder(s, RemoveAt(s, n))
<1>. DEFINE t == RemoveAt(s, n)
            at(i) == IF i < n THEN i ELSE i + 1
<1>1. /\ Len(s) \in Nat /\ n \in Nat
      /\ t \in Seq(T) /\ Len(t) = Len(s) - 1 /\ DOMAIN t = 1..(Len(s) - 1) /\ DOMAIN s = 1..Len(s)
      /\ \A i \in 1..(Len(s) - 1) : t[i] = s[at(i)]
  BY RemoveAtProperties
<1>. HIDE DEF t
<1>2. \A i \in 1..(Len(s) - 1) : at(i) \in 1..Len(s) /\ at(i) # n
  BY <1>1
<1>3. \A i, j \in 1..(Len(s) - 1) : i < j <=> at(i) < at(j)
  BY <1>1
<1>4. \A q \in 1..Len(s) : q # n => \E i \in 1..(Len(s) - 1) : at(i) = q
  <2>. SUFFICES ASSUME NEW q \in 1..Len(s), q # n PROVE \E i \in 1..(Len(s) - 1) : at(i) = q
    OBVIOUS
  <2>1. CASE q < n
    <3>1. q \in 1..(Len(s) - 1) /\ at(q) = q
      BY <1>1, <2>1
    <3>. QED  BY <3>1
  <2>2. CASE q > n
    <3>1. q - 1 \in 1..(Len(s) - 1) /\ at(q - 1) = q
      BY <1>1, <2>2
    <3>. QED  BY <3>1
  <2>. QED  BY <1>1, <2>1, <2>2
<1>5. \A i \in 1..(Len(s) - 1) : at(i) \in Nat /\ i \in Nat
  BY <1>1
<1>. HIDE DEF at
<1>6. \A i, j \in 1..Len(s) : s[i] = s[j] => i = j
  BY <1>1 DEF IsInjective
<1>7. IsInjective(t)
  <2>. SUFFICES ASSUME NEW i \in 1..(Len(s) - 1), NEW j \in 1..(Len(s) - 1), t[i] = t[j] PROVE i = j
    BY <1>1 DEF IsInjective
  <2>1. at(i) = at(j)
    BY <1>1, <1>2, <1>6
  <2>2. ~(i < j) /\ ~(j < i)
    BY <1>3, <1>5, <2>1
  <2>. QED  BY <1>5, <2>2
<1>8. Range(t) = Range(s) \ {s[n]}
  <2>1. \A x \in Range(t) : x \in Range(s) /\ x # s[n]
    BY <1>1, <1>2, <1>6 DEF Range
  <2>2. ASSUME NEW x \in Range(s), x # s[n] PROVE x \in Range(t)
    <3>1. PICK q \in 1..Len(s) : s[q] = x
      BY <1>1 DEF Range
    <3>2. PICK i \in 1..(Len(s) - 1) : at(i) = q
      BY <1>4, <2>2, <3>1
    <3>. QED  BY <1>1, <3>1, <3>2 DEF Range
  <2>. QED  BY <2>1, <2>2
<1>9. SameOrder(s, t)
  <2>. SUFFICES ASSUME NEW i \in 1..Len(s), NEW j \in 1..Len(s),
                       NEW k \in 1..(Len(s) - 1), NEW l \in 1..(Len(s) - 1),
                       s[i] = t[k], s[j] = t[l]
                PROVE  i < j <=> k < l
    BY <1>1 DEF SameOrder
  <2>1. at(k) = i /\ at(l) = j
    BY <1>1, <1>2, <1>6
  <2>. QED  BY <1>3, <2>1
<1>. QED  BY <1>7, <1>8, <1>9 DEF t

LEMMA ConcatInjective ==
    ASSUME NEW T, NEW s \in Seq(T), NEW t \in Seq(T), IsInjective(s), IsInjective(t),
           Range(s) \cap Range(t) = {}
    PROVE  IsInjective(s \o t) /\ SameOrder(s, s \o t)
<1>. DEFINE u == s \o t
<1>1. /\ Len(s) \in Nat /\ Len(t) \in Nat /\ DOMAIN s = 1..Len(s) /\ DOMAIN t = 1..Len(t)
      /\ DOMAIN u = 1..(Len(s) + Len(t))
      /\ \A i \in 1..(Len(s) + Len(t)) : u[i] = IF i <= Len(s) THEN s[i] ELSE t[i - Len(s)]
  BY ConcatProperties, LenProperties
<1>. HIDE DEF u
<1>2. \A i \in 1..(Len(s) + Len(t)) :
          \/ i \in 1..Len(s) /\ u[i] = s[i]
          \/ i - Len(s) \in 1..Len(t) /\ u[i] = t[i - Len(s)] /\ i > Len(s)
  BY <1>1
<1>3. \A i \in 1..Len(s), j \in 1..Len(t) : s[i] # t[j]
  BY <1>1 DEF Range
<1>4. IsInjective(u)
  <2>. SUFFICES ASSUME NEW i \in 1..(Len(s) + Len(t)), NEW j \in 1..(Len(s) + Len(t)), u[i] = u[j]
                PROVE  i = j
    BY <1>1 DEF IsInjective
  <2>1. CASE i \in 1..Len(s) /\ u[i] = s[i]
    <3>1. j \in 1..Len(s) /\ u[j] = s[j]
      BY <1>2, <1>3, <2>1
    <3>. QED  BY <1>1, <2>1, <3>1 DEF IsInjective
  <2>2. CASE i - Len(s) \in 1..Len(t) /\ u[i] = t[i - Len(s)]
    <3>1. j - Len(s) \in 1..Len(t) /\ u[j] = t[j - Len(s)]
      BY <1>2, <1>3, <2>2
    <3>2. i - Len(s) = j - Len(s)
      BY <1>1, <2>2, <3>1 DEF IsInjective
    <3>. QED  BY <1>1, <3>2
  <2>. QED  BY <1>2, <2>1, <2>2
<1>5. SameOrder(s, u)
  <2>. SUFFICES ASSUME NEW i \in 1..Len(s), NEW j \in 1..Len(s),
                       NEW k \in 1..(Len(s) + Len(t)), NEW l \in 1..(Len(s) + Len(t)),
                       s[i] = u[k], s[j] = u[l]
                PROVE  i < j <=> k < l
    BY <1>1 DEF SameOrder
  <2>1. k \in 1..Len(s) /\ u[k] = s[k] /\ l \in 1..Len(s) /\ u[l] = s[l]
    BY <1>2, <1>3
  <2>2. i = k /\ j = l
    BY <1>1, <2>1 DEF IsInjective
  <2>. QED  BY <2>2
<1>. QED  BY <1>4, <1>5 DEF u

LEMMA OrderKept ==
    ASSUME NEW T, NEW s \in Seq(T), IsInjective(s) PROVE SameOrder(s, s)
BY DEF SameOrder, IsInjective

LEMMA PlaceProperties ==
    ASSUME NEW T, NEW s \in Seq(T), NEW e \in Range(s)
    PROVE  Place(s, e) \in 1..Len(s) /\ s[Place(s, e)] = e
<1>. DEFINE I == {i \in 1..Len(s) : s[i] = e}
<1>1. Place(s, e) = IF I # {} THEN Min(I) ELSE 0
  BY DEF Place, SelectInSeq
<1>2. I # {} /\ I \subseteq Nat
  BY DEF Range
<1>3. Min(I) \in I
  <2>. HIDE DEF I
  <2>. QED  BY <1>2, MinIsLeast
<1>. QED  BY <1>1, <1>2, <1>3

-----------------------------------------------------------------------------
(* Finite sets in a sequence *)

LEMMA RangeFinite ==
    ASSUME NEW T, NEW s \in Seq(T) PROVE IsFiniteSet(Range(s))
<1>1. Len(s) \in Nat /\ DOMAIN s = 1..Len(s) /\ s \in [1..Len(s) -> T]
  BY LenProperties
<1>2. s \in Surjection(1..Len(s), Range(s))
  <2>1. s \in [1..Len(s) -> Range(s)]
    BY <1>1 DEF Range
  <2>2. \A x \in Range(s) : \E i \in 1..Len(s) : s[i] = x
    BY <1>1 DEF Range
  <2>. QED  BY <2>1, <2>2 DEF Surjection
<1>3. IsFiniteSet(1..Len(s))
  BY <1>1, FS_Interval
<1>. QED  BY <1>2, <1>3, FS_Surjection

LEMMA SetToSeqsProperties ==
    ASSUME NEW S, IsFiniteSet(S), NEW s \in SetToSeqs(S)
    PROVE  s \in Seq(S) /\ IsInjective(s) /\ Range(s) = S /\ Len(s) = Cardinality(S)
<1>. DEFINE n == Cardinality(S)
<1>1. n \in Nat
  BY FS_CardinalityType
<1>2. s \in [1..n -> S] /\ \A i, j \in 1..n : i # j => s[i] # s[j]
  BY DEF SetToSeqs
<1>. HIDE DEF n
<1>3. s \in Seq(S) /\ Len(s) = n /\ DOMAIN s = 1..n
  BY <1>1, <1>2, SeqDef
<1>4. IsInjective(s)
  BY <1>2, <1>3 DEF IsInjective
<1>5. s \in Injection(1..n, S)
  BY <1>2, <1>4 DEF Injection
<1>6. Cardinality(1..n) = n
  BY <1>1, FS_Interval
<1>7. s \in Surjection(1..n, S)
  BY <1>5, <1>6, FS_Injection DEF n
<1>8. Range(s) = S
  BY <1>2, <1>3, <1>7 DEF Range, Surjection
<1>. QED  BY <1>3, <1>4, <1>8 DEF n

StrictOrder(S, before) ==
    /\ \A x \in S : <<x, x>> \notin before
    /\ \A x, y, z \in S : <<x, y>> \in before /\ <<y, z>> \in before => <<x, z>> \in before
    /\ \A x, y \in S : x # y => <<x, y>> \in before \/ <<y, x>> \in before

\* Every finite set with a strict order can be arranged: an element gets the place after
\* all that are before it.
LEMMA ArrangedProperties ==
    ASSUME NEW S, IsFiniteSet(S), NEW before, StrictOrder(S, before)
    PROVE  /\ Arranged(S, before) \in SetToSeqs(S)
           /\ \A i, j \in DOMAIN Arranged(S, before) :
                i < j => <<Arranged(S, before)[i], Arranged(S, before)[j]>> \in before
<1>. DEFINE n == Cardinality(S)
            Before(x) == {y \in S : <<y, x>> \in before}
            rank == [x \in S |-> Cardinality(Before(x)) + 1]
            s == [i \in 1..n |-> CHOOSE x \in S : rank[x] = i]
<1>1. n \in Nat
  BY FS_CardinalityType
<1>2. ASSUME NEW x \in S
      PROVE  IsFiniteSet(Before(x)) /\ Cardinality(Before(x)) \in Nat /\ Cardinality(Before(x)) + 1 <= n
  <2>1. Before(x) \in SUBSET (S \ {x})
    BY DEF StrictOrder
  <2>2. IsFiniteSet(S \ {x}) /\ Cardinality(S \ {x}) = n - 1
    BY FS_RemoveElement
  <2>. HIDE DEF Before, n
  <2>3. IsFiniteSet(Before(x)) /\ Cardinality(Before(x)) <= n - 1
    BY <2>1, <2>2, FS_Subset
  <2>4. Cardinality(Before(x)) \in Nat
    BY <2>3, FS_CardinalityType
  <2>. QED  BY <1>1, <2>3, <2>4
<1>3. ASSUME NEW x \in S, NEW y \in S, <<x, y>> \in before
      PROVE  Cardinality(Before(x)) < Cardinality(Before(y))
  <2>1. Before(x) \in SUBSET Before(y) /\ x \in Before(y) /\ x \notin Before(x)
    BY <1>3 DEF StrictOrder
  <2>. HIDE DEF Before, n
  <2>2. Cardinality(Before(x)) <= Cardinality(Before(y))
        /\ Cardinality(Before(x)) # Cardinality(Before(y))
    BY <1>2, <2>1, FS_Subset
  <2>. QED  BY <1>2, <2>2
<1>4. rank \in [S -> 1..n]
  <2>1. \A x \in S : Cardinality(Before(x)) + 1 \in 1..n
    <3>. HIDE DEF Before, n
    <3>. QED  BY <1>1, <1>2
  <2>. QED  BY <2>1
<1>5. \A x, y \in S : <<x, y>> \in before => rank[x] < rank[y]
  <2>1. \A x \in S : rank[x] = Cardinality(Before(x)) + 1
    OBVIOUS
  <2>. HIDE DEF Before, rank
  <2>. QED  BY <1>2, <1>3, <2>1
<1>. HIDE DEF n, Before, rank
<1>6. IsInjective(rank)
  <2>. SUFFICES ASSUME NEW x \in S, NEW y \in S, rank[x] = rank[y] PROVE x = y
    BY <1>4 DEF IsInjective
  <2>1. rank[x] \in Nat
    BY <1>1, <1>4
  <2>2. <<x, y>> \notin before /\ <<y, x>> \notin before
    BY <1>5, <2>1
  <2>. QED  BY <2>2 DEF StrictOrder
<1>7. rank \in Surjection(S, 1..n)
  <2>1. rank \in Injection(S, 1..n)
    BY <1>4, <1>6 DEF Injection
  <2>2. IsFiniteSet(1..n) /\ Cardinality(1..n) = n
    BY <1>1, FS_Interval
  <2>. QED  BY <2>1, <2>2, FS_Injection DEF n
<1>8. \A i \in 1..n : s[i] \in S /\ rank[s[i]] = i
  BY <1>7 DEF Surjection
<1>9. s \in [1..n -> S] /\ DOMAIN s = 1..n
  BY <1>8
<1>. HIDE DEF s
<1>10. s \in SetToSeqs(S)
  <2>1. \A i, j \in 1..n : i # j => s[i] # s[j]
    BY <1>8
  <2>. QED  BY <1>9, <2>1 DEF SetToSeqs, n
<1>11. ASSUME NEW i \in 1..n, NEW j \in 1..n, i < j PROVE <<s[i], s[j]>> \in before
  <2>1. s[i] \in S /\ s[j] \in S /\ rank[s[i]] < rank[s[j]] /\ rank[s[i]] \in Int /\ rank[s[j]] \in Int
    BY <1>1, <1>8, <1>11
  <2>2. s[i] # s[j] /\ <<s[j], s[i]>> \notin before
    BY <1>5, <2>1
  <2>. QED  BY <2>1, <2>2 DEF StrictOrder
<1>12. \E t \in SetToSeqs(S) : \A i, j \in DOMAIN t : i < j => <<t[i], t[j]>> \in before
  BY <1>9, <1>10, <1>11
<1>. QED  BY <1>12 DEF Arranged

-----------------------------------------------------------------------------
(* The order of the categories *)

LEMMA FavoriteIndexType ==
    ASSUME favorites \in Seq(STRING), NEW rows, NEW c PROVE FavoriteIndex(rows, c) \in Nat
<1>. DEFINE places == FavoritePlaces(rows, c)
<1>1. places \subseteq Nat /\ Len(favorites) + 1 \in Nat
  BY DEF FavoritePlaces
<1>2. places # {} => Min(places) \in Nat
  <2>. HIDE DEF places
  <2>. QED  BY <1>1, MinIsLeast
<1>. QED  BY <1>1, <1>2 DEF FavoriteIndex

LEMMA IntRelevanceType ==
    ASSUME NEW m \in Match PROVE IntRelevance(m) \in Nat
<1>1. CategoryRank[m] \in Nat
  BY ResultsAssumption
<1>2. (CategoryRank[m] + 5) \div 10 \in Nat
  BY <1>1
<1>. QED  BY <1>2 DEF IntRelevance

LEMMA CategoryRelevanceProperties ==
    ASSUME NEW rows, NEW c, rows[c] \in Seq(Match) \ {<<>>}
    PROVE  /\ CategoryRelevance(rows, c) \in Nat
           /\ \A m \in Range(rows[c]) : IntRelevance(m) <= CategoryRelevance(rows, c)
           /\ \E m \in Range(rows[c]) : IntRelevance(m) = CategoryRelevance(rows, c)
<1>. DEFINE s == rows[c]
            ranks == {0} \cup {IntRelevance(m) : m \in Range(s)}
            f == [i \in 1..Len(s) |-> IntRelevance(s[i])]
<1>1. /\ Len(s) \in Nat \ {0} /\ DOMAIN s = 1..Len(s)
      /\ \A i \in 1..Len(s) : s[i] \in Match
  BY EmptySeq, LenProperties
<1>2. \A i \in 1..Len(s) : f[i] \in Nat
  BY <1>1, IntRelevanceType
<1>3. PICK b \in Nat : \A i \in 1..Len(s) : f[i] <= b
  <2>. HIDE DEF f
  <2>. QED  BY <1>1, <1>2, NumbersBounded
<1>4. \A m \in Range(s) : IntRelevance(m) \in Nat /\ IntRelevance(m) <= b
  BY <1>1, <1>2, <1>3 DEF Range
<1>5. s[1] \in Range(s)
  <2>1. 1 \in 1..Len(s)
    BY <1>1
  <2>. QED  BY <1>1, <2>1 DEF Range
<1>6. ranks \subseteq Nat /\ ranks # {} /\ \A y \in ranks : y <= b
  BY <1>4
<1>7. Max(ranks) \in ranks /\ Max(ranks) \in Nat /\ \A y \in ranks : y <= Max(ranks)
  <2>. HIDE DEF ranks
  <2>. QED  BY <1>6, MaxIsGreatest
<1>8. \A m \in Range(s) : IntRelevance(m) \in ranks
  OBVIOUS
<1>9. \E m \in Range(s) : IntRelevance(m) = Max(ranks)
  <2>1. CASE Max(ranks) = 0
    <3>1. IntRelevance(s[1]) \in Nat /\ IntRelevance(s[1]) <= Max(ranks)
      BY <1>4, <1>5, <1>7, <1>8
    <3>. HIDE DEF ranks
    <3>. QED  BY <1>5, <2>1, <3>1
  <2>2. CASE Max(ranks) # 0
    BY <1>7, <2>2
  <2>. QED  BY <2>1, <2>2
<1>10. CategoryRelevance(rows, c) = Max(ranks)
  BY DEF CategoryRelevance
<1>. HIDE DEF ranks
<1>. QED  BY <1>7, <1>8, <1>9, <1>10

\* A stable descending sort by two keys, the first of them reversed.
ByKeys(S, F, R, P) ==
    {p \in S \X S :
        \/ F[p[2]] > F[p[1]] \/ (F[p[2]] = F[p[1]] /\ R[p[2]] < R[p[1]])
        \/ /\ ~(F[p[1]] > F[p[2]] \/ (F[p[1]] = F[p[2]] /\ R[p[1]] < R[p[2]]))
           /\ P[p[1]] < P[p[2]]}

LEMMA KeysOrder ==
    ASSUME NEW S, NEW F \in [S -> Nat], NEW R \in [S -> Nat], NEW P \in [S -> Nat],
           \A x, y \in S : P[x] = P[y] => x = y
    PROVE  StrictOrder(S, ByKeys(S, F, R, P))
<1>. DEFINE Less(x, y) == \/ F[y] > F[x]
                          \/ F[y] = F[x] /\ R[y] < R[x]
                          \/ F[y] = F[x] /\ R[y] = R[x] /\ P[x] < P[y]
<1>1. \A x, y \in S : <<x, y>> \in ByKeys(S, F, R, P) <=> Less(x, y)
  BY DEF ByKeys
<1>2. \A x \in S : ~Less(x, x)
  OBVIOUS
<1>3. ASSUME NEW x \in S, NEW y \in S, NEW z \in S, Less(x, y), Less(y, z) PROVE Less(x, z)
  BY <1>3
<1>4. ASSUME NEW x \in S, NEW y \in S, x # y PROVE Less(x, y) \/ Less(y, x)
  BY <1>4
<1>. HIDE DEF Less
<1>. QED  BY <1>1, <1>2, <1>3, <1>4 DEF StrictOrder

LEMMA SortingProperties ==
    ASSUME favorites \in Seq(STRING), NEW cs \in Seq(Categories), NEW rows,
           \A c \in Range(cs) : rows[c] \in Seq(Match) \ {<<>>}
    PROVE  /\ Sorting(rows, cs) \in SetToSeqs(Range(cs))
           /\ InOrder(rows, Sorting(rows, cs))
<1>. DEFINE S == Range(cs)
            F == [c \in S |-> FavoriteIndex(rows, c)]
            R == [c \in S |-> CategoryRelevance(rows, c)]
            P == [c \in S |-> Place(cs, c)]
            keys == ByKeys(S, F, R, P)
            before == {p \in S \X S :
                \/ LessThan(rows, p[2], p[1])
                \/ ~LessThan(rows, p[1], p[2]) /\ Place(cs, p[1]) < Place(cs, p[2])}
<1>1. F \in [S -> Nat]
  BY FavoriteIndexType
<1>2. R \in [S -> Nat]
  BY CategoryRelevanceProperties
<1>3. P \in [S -> Nat] /\ \A x, y \in S : P[x] = P[y] => x = y
  BY PlaceProperties
<1>4. \A x, y \in S : LessThan(rows, x, y) <=> F[x] > F[y] \/ (F[x] = F[y] /\ R[x] < R[y])
  BY DEF LessThan
<1>5. \A x \in S : P[x] = Place(cs, x)
  OBVIOUS
<1>. HIDE DEF F, R, P, S
<1>6. before = keys
  BY <1>4, <1>5 DEF ByKeys
<1>7. StrictOrder(S, keys)
  BY <1>1, <1>2, <1>3, KeysOrder
<1>. HIDE DEF keys
<1>8. IsFiniteSet(S)
  BY RangeFinite DEF S
<1>9. Sorting(rows, cs) = Arranged(S, before)
  BY DEF Sorting, S
<1>. DEFINE t == Sorting(rows, cs)
<1>10. t \in SetToSeqs(S) /\ \A i, j \in DOMAIN t : i < j => <<t[i], t[j]>> \in before
  <2>. HIDE DEF before, t
  <2>. QED  BY <1>6, <1>7, <1>8, <1>9, ArrangedProperties DEF t
<1>. HIDE DEF t
<1>11. ASSUME NEW x \in S, NEW y \in S, <<x, y>> \in before PROVE ~LessThan(rows, x, y)
  <2>1. F[x] \in Nat /\ F[y] \in Nat /\ R[x] \in Nat /\ R[y] \in Nat
    BY <1>1, <1>2
  <2>2. LessThan(rows, y, x) \/ ~LessThan(rows, x, y)
    BY <1>11
  <2>. QED  BY <1>4, <2>1, <2>2
<1>12. \A i \in DOMAIN t : t[i] \in S
  BY <1>8, <1>10, SetToSeqsProperties DEF Range
<1>13. InOrder(rows, t)
  <2>. HIDE DEF before
  <2>. QED  BY <1>10, <1>11, <1>12 DEF InOrder
<1>. QED  BY <1>10, <1>13 DEF S, t

LEMMA InOrderBestFirst ==
    ASSUME favorites \in Seq(STRING), NEW rows, NEW s, InOrder(rows, s),
           \A i \in DOMAIN s : rows[s[i]] \in Seq(Match) \ {<<>>},
           NEW i \in DOMAIN s, NEW j \in DOMAIN s, i < j
    PROVE  /\ \A k \in FavoritePlaces(rows, s[j]) : \E l \in FavoritePlaces(rows, s[i]) : l <= k
           /\ FavoritePlaces(rows, s[i]) = FavoritePlaces(rows, s[j]) =>
                \A m \in Range(rows[s[j]]) :
                    \E n \in Range(rows[s[i]]) : IntRelevance(n) >= IntRelevance(m)
<1>. DEFINE a == s[i]
            b == s[j]
            F(c) == FavoriteIndex(rows, c)
            R(c) == CategoryRelevance(rows, c)
<1>1. ~LessThan(rows, a, b)
  BY DEF InOrder
<1>2. F(a) \in Nat /\ F(b) \in Nat
  BY FavoriteIndexType
<1>3. R(a) \in Nat /\ R(b) \in Nat
  BY CategoryRelevanceProperties
<1>4. F(a) <= F(b) /\ (F(a) = F(b) => R(a) >= R(b))
  BY <1>1, <1>2, <1>3 DEF LessThan
<1>5. \A c : FavoritePlaces(rows, c) \subseteq Nat /\ FavoritePlaces(rows, c) \subseteq 1..Len(favorites)
  BY DEF FavoritePlaces
<1>6. \A c : F(c) = IF FavoritePlaces(rows, c) = {} THEN Len(favorites) + 1 ELSE Min(FavoritePlaces(rows, c))
  BY DEF FavoriteIndex
<1>7. ASSUME NEW k \in FavoritePlaces(rows, b) PROVE \E l \in FavoritePlaces(rows, a) : l <= k
  <2>1. F(b) = Min(FavoritePlaces(rows, b)) /\ Min(FavoritePlaces(rows, b)) <= k
    BY <1>5, <1>6, MinIsLeast
  <2>2. k \in 1..Len(favorites) /\ Len(favorites) \in Nat
    BY <1>5
  <2>3. F(a) <= k
    BY <1>2, <1>4, <2>1, <2>2
  <2>4. FavoritePlaces(rows, a) # {}
    BY <1>6, <2>2, <2>3
  <2>5. F(a) \in FavoritePlaces(rows, a)
    BY <1>5, <1>6, <2>4, MinIsLeast
  <2>. QED  BY <2>3, <2>5
<1>8. ASSUME FavoritePlaces(rows, a) = FavoritePlaces(rows, b), NEW m \in Range(rows[b])
      PROVE  \E n \in Range(rows[a]) : IntRelevance(n) >= IntRelevance(m)
  <2>1. F(a) = F(b)
    BY <1>6, <1>8
  <2>2. PICK n \in Range(rows[a]) : IntRelevance(n) = R(a)
    BY CategoryRelevanceProperties
  <2>3. IntRelevance(m) <= R(b)
    BY CategoryRelevanceProperties
  <2>4. IntRelevance(m) \in Nat
    <3>1. m \in Match
      BY RangeOfSeq
    <3>. QED  BY <3>1, IntRelevanceType
  <2>. QED  BY <1>3, <1>4, <2>1, <2>2, <2>3, <2>4
<1>. QED  BY <1>7, <1>8

-----------------------------------------------------------------------------
(* The rows of a list *)

LEMMA CategoryType ==
    ASSUME NEW m \in Match PROVE Category(m) \in Categories
BY ResultsAssumption DEF Category, IsValid

LEMMA NewRowsProperties ==
    ASSUME NEW list \in Lists
    PROVE  /\ NewCategories(list) \subseteq Categories
           /\ IsFiniteSet(NewCategories(list))
           /\ \A c : /\ NewRows(list, c) \in Seq(Match)
                     /\ Range(NewRows(list, c)) = {m \in Range(list) : Category(m) = c}
           /\ \A c \in NewCategories(list) : NewRows(list, c) # <<>>
<1>1. list \in Seq(Match)
  BY ResultsAssumption
<1>2. /\ Len(list) \in Nat /\ DOMAIN list = 1..Len(list) /\ \A i \in 1..Len(list) : list[i] \in Match
  BY <1>1, LenProperties
<1>3. \A m \in Range(list) : m \in Match
  BY <1>2 DEF Range
<1>4. NewCategories(list) \subseteq Categories
  BY <1>3, CategoryType DEF NewCategories
<1>5. IsFiniteSet(NewCategories(list))
  <2>. DEFINE f == [i \in 1..Len(list) |-> Category(list[i])]
  <2>1. f \in Surjection(1..Len(list), NewCategories(list))
    BY <1>2 DEF NewCategories, Range, Surjection
  <2>2. IsFiniteSet(1..Len(list))
    BY <1>2, FS_Interval
  <2>. QED  BY <2>1, <2>2, FS_Surjection
<1>6. ASSUME NEW c
      PROVE  /\ NewRows(list, c) \in Seq(Match)
             /\ Range(NewRows(list, c)) = {m \in Range(list) : Category(m) = c}
  <2>. DEFINE S == {m \in Range(list) : Category(m) = c}
  <2>1. Range(list) \cap S = S
    OBVIOUS
  <2>. HIDE DEF S
  <2>2. NewRows(list, c) = Within(list, S)
    BY DEF NewRows, S
  <2>3. Within(list, S) \in Seq(Match) /\ Range(Within(list, S)) = Range(list) \cap S
    BY <1>1, WithinProperties
  <2>. QED  BY <2>1, <2>2, <2>3 DEF S
<1>7. ASSUME NEW c \in NewCategories(list) PROVE NewRows(list, c) # <<>>
  <2>1. PICK m \in Range(list) : Category(m) = c
    BY DEF NewCategories
  <2>2. m \in Range(NewRows(list, c))
    BY <1>6, <2>1
  <2>. QED  BY <2>2 DEF Range
<1>. QED  BY <1>4, <1>5, <1>6, <1>7

LEMMA NothingNew == NewCategories(<<>>) = {} /\ \A c : NewRows(<<>>, c) = <<>>
<1>1. NewCategories(<<>>) = {}
  BY DEF NewCategories, Range
<1>2. ASSUME NEW c PROVE NewRows(<<>>, c) = <<>>
  <2>1. NewRows(<<>>, c) \in Seq(Match) /\ Range(NewRows(<<>>, c)) = {}
    <3>1. <<>> \in Lists
      BY ResultsAssumption
    <3>. QED  BY <3>1, NewRowsProperties DEF Range
  <2>2. Len(NewRows(<<>>, c)) \in Nat /\ 1 \notin 1..Len(NewRows(<<>>, c))
    BY <2>1 DEF Range
  <2>. QED  BY <2>1, <2>2, EmptySeq
<1>. QED  BY <1>1, <1>2

-----------------------------------------------------------------------------
(* The history *)

LEMMA WithoutFirst ==
    ASSUME NEW T, NEW s \in Seq(T), s # <<>>, IsInjective(s)
    PROVE  Without(s, s[1]) = Tail(s)
<1>. DEFINE S == Range(s) \ {s[1]}
<1>1. Len(s) \in Nat \ {0} /\ DOMAIN s = 1..Len(s) /\ \A i \in 1..Len(s) : s[i] \in T
  BY EmptySeq, LenProperties
<1>2. \A i \in 1..Len(s) : s[i] \in S <=> i # 1
  BY <1>1 DEF Range, IsInjective
<1>. HIDE DEF S
<1>3. PICK g : Parts(g, s, S, Len(s)) /\ Within(s, S) = g[Len(s)]
  BY <1>1, WithinDefined
<1>4. /\ g[0] = <<>>
      /\ \A i \in 1..Len(s) : g[i] = IF s[i] \in S THEN Append(g[i - 1], s[i]) ELSE g[i - 1]
  BY <1>3 DEF Parts
<1>. DEFINE Bad == {k \in 1..Len(s) : g[k] # SubSeq(s, 2, k)}
<1>5. Bad = {}
  <2>. SUFFICES ASSUME Bad # {} PROVE FALSE
    OBVIOUS
  <2>1. PICK k \in Bad : \A j \in Bad : k <= j
    <3>1. Bad \subseteq Nat
      BY <1>1
    <3>. HIDE DEF Bad
    <3>. QED  BY <3>1, LeastElement
  <2>2. k \in 1..Len(s) /\ g[k] # SubSeq(s, 2, k)
    BY <2>1
  <2>3. k # 1
    <3>1. 1 \in 1..Len(s) /\ g[1] = g[1 - 1] /\ 1 - 1 = 0
      BY <1>1, <1>2, <1>4
    <3>2. SubSeq(s, 2, 1) = <<>>
      BY SubSeqEmpty
    <3>. QED  BY <1>4, <2>2, <3>1, <3>2
  <2>4. k - 1 \in 1..Len(s) /\ ~(k <= k - 1)
    BY <1>1, <2>2, <2>3
  <2>5. k - 1 \notin Bad
    <3>. HIDE DEF Bad
    <3>. QED  BY <2>1, <2>4
  <2>6. g[k - 1] = SubSeq(s, 2, k - 1)
    BY <2>4, <2>5
  <2>7. g[k] = Append(SubSeq(s, 2, k - 1), s[k])
    BY <1>2, <1>4, <2>2, <2>3, <2>6
  <2>8. SubSeq(s, 2, k - 1) \in Seq(T)
    <3>1. \A i \in 2..(k - 1) : s[i] \in T
      BY <1>1, <2>2
    <3>2. 2 \in Int /\ k - 1 \in Int
      BY <1>1, <2>2
    <3>. QED  BY <3>1, <3>2, SubSeqProperties
  <2>9. g[k] = SubSeq(s, 2, k - 1) \o <<s[k]>>
    BY <1>1, <2>2, <2>7, <2>8, AppendIsConcat
  <2>10. SubSeq(s, 2, k) = SubSeq(s, 2, k - 1) \o <<s[k]>>
    <3>1. 2 \in 1..Len(s) /\ k \in 2..Len(s)
      BY <1>1, <2>2, <2>3
    <3>. QED  BY <3>1, SubSeqRecursiveSecond
  <2>. QED  BY <2>2, <2>9, <2>10
<1>6. Len(s) \in 1..Len(s)
  BY <1>1
<1>7. g[Len(s)] = SubSeq(s, 2, Len(s))
  BY <1>5, <1>6
<1>. QED  BY <1>3, <1>7, TailIsSubSeq DEF S, Without

\* The entries that remain when one is put first.
LEMMA EntriesOfNew ==
    ASSUME NEW T, NEW o \in Seq(T), NEW term \in T
    PROVE  Entries(<<term>> \o o) = <<term>> \o SubSeq(o, 1, Min({Len(o), MaxEntries - 1}))
<1>. DEFINE n == Min({Len(o), MaxEntries - 1})
            m == Min({Len(<<term>> \o o), MaxEntries})
            u == <<term>> \o o
            v == SubSeq(o, 1, n)
<1>1. Len(o) \in Nat /\ MaxEntries \in Nat \ {0} /\ \A i \in 1..Len(o) : o[i] \in T
  <2>1. MaxEntries \in Nat \ {0}
    BY ResultsAssumption
  <2>. QED  BY <2>1, LenProperties, ElementOfSeq
<1>2. <<term>> \in Seq(T) /\ Len(<<term>>) = 1 /\ <<term>>[1] = term
  OBVIOUS
<1>3. /\ u \in Seq(T) /\ Len(u) = 1 + Len(o)
      /\ u[1] = term /\ \A i \in 2..(1 + Len(o)) : u[i] = o[i - 1]
  <2>1. /\ u \in Seq(T) /\ Len(u) = Len(<<term>>) + Len(o)
        /\ \A i \in 1..(Len(<<term>>) + Len(o)) :
              u[i] = IF i <= Len(<<term>>) THEN <<term>>[i] ELSE o[i - Len(<<term>>)]
    BY <1>2, ConcatProperties
  <2>. HIDE DEF u
  <2>2. u[1] = term
    <3>1. 1 \in 1..(1 + Len(o))
      BY <1>1
    <3>. QED  BY <1>2, <2>1, <3>1
  <2>3. ASSUME NEW i \in 2..(1 + Len(o)) PROVE u[i] = o[i - 1]
    <3>1. i \in 1..(1 + Len(o)) /\ ~(i <= 1)
      BY <1>1
    <3>. QED  BY <1>2, <2>1, <3>1
  <2>. QED  BY <1>2, <2>1, <2>2, <2>3
<1>. HIDE DEF u
<1>4. n \in Nat /\ n <= Len(o) /\ m = n + 1 /\ m \in Nat
  <2>1. n = IF Len(o) <= MaxEntries - 1 THEN Len(o) ELSE MaxEntries - 1
    BY <1>1, MinOfTwo
  <2>2. m = IF 1 + Len(o) <= MaxEntries THEN 1 + Len(o) ELSE MaxEntries
    BY <1>1, <1>3, MinOfTwo DEF u
  <2>. HIDE DEF n, m
  <2>. QED  BY <1>1, <2>1, <2>2
<1>. HIDE DEF n, m
<1>5. v \in Seq(T) /\ Len(v) = n /\ \A i \in 1..n : v[i] = o[i]
  <2>1. \A i \in 1..n : o[i] \in T
    BY <1>1, <1>4
  <2>2. /\ v \in Seq(T) /\ Len(v) = IF 1 <= n THEN n - 1 + 1 ELSE 0
        /\ \A i \in 1..(n - 1 + 1) : v[i] = o[1 + i - 1]
    BY <1>4, <2>1, SubSeqProperties
  <2>. HIDE DEF v
  <2>. QED  BY <1>4, <2>2
<1>6. /\ SubSeq(u, 1, m) \in Seq(T) /\ Len(SubSeq(u, 1, m)) = m
      /\ \A i \in 1..m : SubSeq(u, 1, m)[i] = u[i]
  <2>. DEFINE w == SubSeq(u, 1, m)
  <2>1. \A i \in 1..m : u[i] \in T
    <3>1. \A i \in 1..m : i \in 1..Len(u)
      BY <1>1, <1>3, <1>4
    <3>. QED  BY <1>3, <3>1, ElementOfSeq
  <2>2. /\ w \in Seq(T) /\ Len(w) = IF 1 <= m THEN m - 1 + 1 ELSE 0
        /\ \A i \in 1..(m - 1 + 1) : w[i] = u[1 + i - 1]
    BY <1>4, <2>1, SubSeqProperties
  <2>. HIDE DEF w
  <2>3. w \in Seq(T) /\ Len(w) = m /\ \A i \in 1..m : w[i] = u[i]
    BY <1>4, <2>2
  <2>. QED  BY <2>3 DEF w
<1>. HIDE DEF v
<1>7. /\ <<term>> \o v \in Seq(T) /\ Len(<<term>> \o v) = 1 + n
      /\ \A i \in 1..(1 + n) : (<<term>> \o v)[i] = IF i <= 1 THEN <<term>>[i] ELSE v[i - 1]
  BY <1>2, <1>5, ConcatProperties
<1>8. ASSUME NEW i \in 1..m PROVE SubSeq(u, 1, m)[i] = (<<term>> \o v)[i]
  <2>1. i \in 1..(1 + n) /\ i \in Nat
    BY <1>4
  <2>2. CASE i = 1
    BY <1>2, <1>3, <1>6, <1>7, <2>1, <2>2
  <2>3. CASE i # 1
    <3>1. i \in 2..(1 + Len(o)) /\ i - 1 \in 1..n /\ ~(i <= 1)
      BY <1>1, <1>4, <2>1, <2>3
    <3>. QED  BY <1>3, <1>5, <1>6, <1>7, <2>1, <3>1
  <2>. QED  BY <2>2, <2>3
<1>9. Len(SubSeq(u, 1, m)) = Len(<<term>> \o v)
  BY <1>4, <1>6, <1>7
<1>10. SubSeq(u, 1, m) = <<term>> \o v
  BY <1>6, <1>7, <1>8, <1>9, SeqEqual
<1>. QED  BY <1>10 DEF Entries, u, v, m, n

\* The history that WithEntry returns is the one that EntryGoesFirst asks for.
LEMMA WithEntryGoesFirst ==
    ASSUME NEW T, NEW h \in Seq(T), IsInjective(h), Len(h) <= MaxEntries, NEW term \in T
    PROVE  LET others == Without(h, term)
           IN  WithEntry(h, term) = <<term>> \o SubSeq(others, 1, Min({Len(others), MaxEntries - 1}))
<1>. DEFINE others == Without(h, term)
<1>1. others \in Seq(T)
  BY WithoutProperties
<1>2. CASE ~(h # <<>> /\ h[1] = term)
  <2>1. WithEntry(h, term) = Entries(<<term>> \o others)
    BY <1>2 DEF WithEntry
  <2>. HIDE DEF others
  <2>. QED  BY <1>1, <2>1, EntriesOfNew DEF others
<1>3. CASE h # <<>> /\ h[1] = term
  <2>1. others = Tail(h) /\ WithEntry(h, term) = h
    BY <1>3, WithoutFirst DEF WithEntry
  <2>. HIDE DEF others
  <2>2. /\ Len(h) \in Nat \ {0} /\ Len(others) = Len(h) - 1 /\ MaxEntries \in Nat
        /\ \A i \in 1..Len(others) : others[i] = h[i + 1]
    BY <1>3, <2>1, EmptySeq, HeadTailProperties, ResultsAssumption
  <2>3. Min({Len(others), MaxEntries - 1}) = Len(others)
    BY <2>2, MinOfTwo
  <2>4. SubSeq(others, 1, Len(others)) = others
    BY <1>1, SubSeqFull
  <2>5. h = <<term>> \o others
    <3>1. <<term>> \in Seq(T) /\ Len(<<term>>) = 1 /\ <<term>>[1] = term
      OBVIOUS
    <3>2. /\ <<term>> \o others \in Seq(T) /\ Len(<<term>> \o others) = 1 + Len(others)
          /\ \A i \in 1..(1 + Len(others)) :
                (<<term>> \o others)[i] = IF i <= 1 THEN <<term>>[i] ELSE others[i - 1]
      BY <1>1, <3>1, ConcatProperties
    <3>3. ASSUME NEW i \in 1..Len(h) PROVE h[i] = (<<term>> \o others)[i]
      <4>1. i \in 1..(1 + Len(others)) /\ i \in Nat
        BY <2>2
      <4>2. CASE i = 1
        BY <1>3, <3>1, <3>2, <4>1, <4>2
      <4>3. CASE i # 1
        <5>1. ~(i <= 1) /\ i - 1 \in 1..Len(others) /\ (i - 1) + 1 = i
          BY <2>2, <4>1, <4>3
        <5>. QED  BY <2>2, <3>2, <4>1, <5>1
      <4>. QED  BY <4>2, <4>3
    <3>4. Len(h) = Len(<<term>> \o others)
      BY <2>2, <3>2
    <3>. QED  BY <3>2, <3>3, <3>4, SeqEqual
  <2>. QED  BY <2>1, <2>3, <2>4, <2>5 DEF others
<1>. QED  BY <1>2, <1>3

LEMMA PrefixProperties ==
    ASSUME NEW T, NEW s \in Seq(T), NEW n \in 0..Len(s)
    PROVE  /\ SubSeq(s, 1, n) \in Seq(T) /\ Len(SubSeq(s, 1, n)) = n
           /\ \A i \in 1..n : SubSeq(s, 1, n)[i] = s[i]
           /\ Range(SubSeq(s, 1, n)) \subseteq Range(s)
           /\ IsInjective(s) => IsInjective(SubSeq(s, 1, n))
<1>. DEFINE v == SubSeq(s, 1, n)
<1>1. Len(s) \in Nat /\ DOMAIN s = 1..Len(s) /\ n \in Nat /\ n \in Int /\ 1 \in Int
  BY LenProperties
<1>2. \A i \in 1..n : i \in 1..Len(s) /\ s[i] \in T
  <2>1. \A i \in 1..n : i \in 1..Len(s)
    BY <1>1
  <2>. QED  BY <2>1, ElementOfSeq
<1>3. /\ v \in Seq(T) /\ Len(v) = IF 1 <= n THEN n - 1 + 1 ELSE 0
      /\ \A i \in 1..(n - 1 + 1) : v[i] = s[1 + i - 1]
  BY <1>1, <1>2, SubSeqProperties
<1>. HIDE DEF v
<1>4. v \in Seq(T) /\ Len(v) = n /\ \A i \in 1..n : v[i] = s[i]
  BY <1>1, <1>3
<1>5. DOMAIN v = 1..n
  BY <1>4, LenProperties
<1>6. Range(v) \subseteq Range(s)
  BY <1>1, <1>2, <1>4, <1>5 DEF Range
<1>7. IsInjective(s) => IsInjective(v)
  BY <1>1, <1>2, <1>4, <1>5 DEF IsInjective
<1>. QED  BY <1>4, <1>6, <1>7 DEF v

LEMMA WithEntryTidy ==
    ASSUME NEW T, NEW h \in Seq(T), IsInjective(h), Len(h) <= MaxEntries, NEW term \in T
    PROVE  /\ WithEntry(h, term) \in Seq(T)
           /\ IsInjective(WithEntry(h, term)) /\ Len(WithEntry(h, term)) <= MaxEntries
           /\ Range(WithEntry(h, term)) \subseteq Range(h) \cup {term}
<1>. DEFINE others == Without(h, term)
            n == Min({Len(others), MaxEntries - 1})
            v == SubSeq(others, 1, n)
            one == <<term>>
            w == one \o v
<1>1. others \in Seq(T) /\ IsInjective(others) /\ Range(others) = Range(h) \ {term}
  BY WithoutProperties
<1>2. WithEntry(h, term) = w
  BY WithEntryGoesFirst
<1>. HIDE DEF others
<1>3. n \in 0..Len(others) /\ n <= MaxEntries - 1 /\ MaxEntries \in Nat
  <2>1. MaxEntries \in Nat \ {0}
    BY ResultsAssumption
  <2>2. Len(others) \in Nat
    BY <1>1, LenProperties
  <2>3. n = IF Len(others) <= MaxEntries - 1 THEN Len(others) ELSE MaxEntries - 1
    BY <2>1, <2>2, MinOfTwo
  <2>. HIDE DEF n
  <2>. QED  BY <2>1, <2>2, <2>3
<1>. HIDE DEF n
<1>4. v \in Seq(T) /\ Len(v) = n /\ Range(v) \subseteq Range(others) /\ IsInjective(v)
  BY <1>1, <1>3, PrefixProperties
<1>. HIDE DEF v
<1>5. one \in Seq(T) /\ Len(one) = 1 /\ Range(one) = {term} /\ IsInjective(one)
  BY DEF Range, IsInjective
<1>. HIDE DEF one
<1>6. w \in Seq(T) /\ Len(w) = 1 + n /\ Range(w) = {term} \cup Range(v)
  <2>1. w \in Seq(T) /\ Len(w) = Len(one) + Len(v)
    BY <1>4, <1>5, ConcatProperties
  <2>2. Range(w) = Range(one) \cup Range(v)
    BY <1>4, <1>5, RangeConcatenation
  <2>. HIDE DEF w
  <2>. QED  BY <1>4, <1>5, <2>1, <2>2
<1>7. IsInjective(w)
  <2>1. Range(one) \cap Range(v) = {}
    BY <1>1, <1>4, <1>5
  <2>. QED  BY <1>4, <1>5, <2>1, ConcatInjective
<1>. HIDE DEF w
<1>8. Len(w) <= MaxEntries
  BY <1>3, <1>6
<1>. QED  BY <1>1, <1>2, <1>4, <1>6, <1>7, <1>8

-----------------------------------------------------------------------------
(* The inductive invariant *)

\* An update is made of the list that was emitted; it is empty if the input is.
UpdateOfEmitted ==
    /\ update # NoUpdate => update.new = emitted
    /\ queryString = "" => emitted = <<>>

\* What is stale goes before the walk over the categories begins.
WalkAfterRemoval ==
    update # NoUpdate /\ (update.category > 1 \/ update.step = "resize") => Stale = {}

\* The categories that the walk has left behind have their new rows, and the one whose
\* rows were overwritten has those that both lists have.
WalkDone ==
    update # NoUpdate =>
        /\ \A i \in DOMAIN categories :
                i < update.category => matches[categories[i]] = NewRows(update.new, categories[i])
        /\ update.step = "resize" =>
                /\ update.category \in DOMAIN categories
                /\ \A i \in 1..OldCount :
                        i <= NewCount => Rows(Current)[i] = NewRows(update.new, Current)[i]

InputTypes ==
    /\ query \in Terms /\ queryRunner \in SingleRunners
    /\ indented \in BOOLEAN /\ ignored \in BOOLEAN
    /\ queryString \in Strings /\ prevRunner \in SingleRunners /\ singleRunner \in SingleRunners

TreeTypes ==
    /\ categories \in Seq(Categories) /\ IsInjective(categories)
    /\ DOMAIN matches = Range(categories)
    /\ \A c \in DOMAIN matches : matches[c] \in Seq(Match) \ {<<>>}
    /\ sorted \in Seq(Categories) /\ IsInjective(sorted) /\ Range(sorted) = Range(categories)

UpdateTypes ==
    /\ words \in Terms /\ favorites \in Favorites \cup {<<>>}
    /\ emitted \in Lists
    /\ update \in Updates \cup {NoUpdate}

HistoryInv ==
    /\ history \in Seq(Terms) /\ IsInjective(history) /\ Len(history) <= MaxEntries
    /\ \A i \in DOMAIN history : history[i] # ""

\* The parts of the tree's invariant that do not type the input or the history.
ShownInv ==
    /\ TreeTypes /\ UpdateTypes
    /\ ViewMirrors /\ TreeShowsList
    /\ queryString = "" => categories = <<>>
    /\ UpdateOfEmitted /\ WalkAfterRemoval /\ WalkDone

ResultsInv ==
    /\ InputTypes /\ HistoryInv /\ ShownInv
    /\ queryString = "" => query = ""

LEMMA FavoritesType ==
    ASSUME UpdateTypes PROVE favorites \in Seq(STRING)
<1>1. favorites \in Favorites \cup {<<>>}
  BY DEF UpdateTypes
<1>2. Favorites \subseteq Seq(STRING)
  BY ResultsAssumption
<1>3. <<>> \in Seq(STRING)
  OBVIOUS
<1>. QED  BY <1>1, <1>2, <1>3

LEMMA EmptyTree ==
    /\ <<>> \in Seq(Categories) /\ IsInjective(<<>>) /\ DOMAIN <<>> = {} /\ Range(<<>>) = {}
    /\ Tree(<<>>, <<>>) = <<>>
<1>1. DOMAIN <<>> = {}
  OBVIOUS
<1>2. Tree(<<>>, <<>>) = <<>>
  BY <1>1 DEF Tree
<1>. QED  BY <1>1, <1>2 DEF IsInjective, Range

LEMMA InitHolds == Init => ResultsInv
<1>. SUFFICES ASSUME Init PROVE ResultsInv
  OBVIOUS
<1>1. InputTypes /\ (queryString = "" => query = "")
  BY ResultsAssumption DEF Init, InputTypes
<1>2. HistoryInv
  <2>1. MaxEntries \in Nat
    BY ResultsAssumption
  <2>2. <<>> \in Seq(Terms) /\ Len(<<>>) = 0 /\ 0 <= MaxEntries
    BY <2>1
  <2>. QED  BY <2>2, EmptyTree DEF Init, HistoryInv
<1>3. TreeTypes
  BY EmptyTree DEF Init, TreeTypes
<1>4. UpdateTypes
  BY ResultsAssumption DEF Init, UpdateTypes
<1>5. ViewMirrors
  BY EmptyTree DEF Init, ViewMirrors
<1>6. TreeShowsList
  BY EmptyTree, NothingNew DEF Init, TreeShowsList
<1>7. UpdateOfEmitted /\ WalkAfterRemoval /\ WalkDone
  BY DEF Init, UpdateOfEmitted, WalkAfterRemoval, WalkDone
<1>8. queryString = "" => categories = <<>>
  BY DEF Init
<1>. QED  BY <1>1, <1>2, <1>3, <1>4, <1>5, <1>6, <1>7, <1>8 DEF ResultsInv, ShownInv

\* What holds of the tree depends on it and on the update only.
LEMMA TreeUntouched ==
    ASSUME ShownInv, UNCHANGED <<treeVars, sorted, update, emitted>>,
           words' \in Terms, favorites' \in Favorites \cup {<<>>},
           queryString' = "" => queryString = ""
    PROVE  ShownInv'
<1>. USE DEF treeVars
<1>1. TreeTypes' /\ UpdateTypes'
  BY DEF ShownInv, TreeTypes, UpdateTypes
<1>2. ViewMirrors' /\ TreeShowsList'
  BY DEF ShownInv, ViewMirrors, TreeShowsList
<1>3. (queryString = "" => categories = <<>>)' /\ UpdateOfEmitted'
  BY DEF ShownInv, UpdateOfEmitted
<1>4. WalkAfterRemoval'
  BY DEF ShownInv, WalkAfterRemoval, Stale
<1>5. WalkDone'
  BY DEF ShownInv, WalkDone, OldCount, NewCount, Current, Rows
<1>. QED  BY <1>1, <1>2, <1>3, <1>4, <1>5 DEF ShownInv

-----------------------------------------------------------------------------
(* The input and the history after a step *)

InputInv == InputTypes /\ (queryString = "" => query = "")

LEMMA InputUntouched ==
    ASSUME InputInv, UNCHANGED <<managerVars, stringVars>> PROVE InputInv'
BY DEF InputInv, InputTypes, managerVars, stringVars

LEMMA ClearInput ==
    ASSUME InputInv, Clear PROVE InputInv'
BY ResultsAssumption DEF InputInv, InputTypes, Clear, ResetTree

LEMMA SetQueryStringInput ==
    ASSUME InputInv, NEW s \in Strings, SetQueryString(s) PROVE InputInv'
<1>1. Trimmed[s] \in Terms /\ Trimmed[""] = "" /\ "" \in Terms
  BY ResultsAssumption
<1>2. prevRunner' = singleRunner /\ queryString' = s /\ singleRunner' = singleRunner
  BY DEF SetQueryString
<1>3. CASE s = "" /\ ResetTree
  BY <1>1, <1>2, <1>3 DEF InputInv, InputTypes, ResetTree
<1>4. CASE s # "" /\ Trimmed[s] = "" /\ UNCHANGED managerVars
  BY <1>2, <1>4 DEF InputInv, InputTypes, managerVars
<1>5. CASE Trimmed[s] # "" /\ LaunchQuery(s)
  <2>1. s # ""
    BY <1>1, <1>5
  <2>2. query' \in Terms /\ queryRunner' = singleRunner
    BY <1>1, <1>5 DEF LaunchQuery
  <2>3. indented' \in BOOLEAN
    <3>1. indented' = (s \in Indented)
      BY <1>5 DEF LaunchQuery
    <3>2. CASE s \in Indented
      BY <3>1, <3>2
    <3>3. CASE s \notin Indented
      BY <3>1, <3>3
    <3>. QED  BY <3>2, <3>3
  <2>4. ignored' \in BOOLEAN
    <3>1. CASE ignored' = (ignored /\ query = Trimmed[s] /\ queryRunner = singleRunner)
      BY <3>1
    <3>2. CASE ignored' = FALSE
      BY <3>2
    <3>. QED  BY <1>5, <3>1, <3>2 DEF LaunchQuery
  <2>. QED  BY <1>2, <2>1, <2>2, <2>3, <2>4 DEF InputInv, InputTypes
<1>. QED  BY <1>3, <1>4, <1>5 DEF SetQueryString

LEMMA SetSingleRunnerInput ==
    ASSUME InputInv, NEW r \in SingleRunners, SetSingleRunner(r) PROVE InputInv'
BY DEF InputInv, InputTypes, SetSingleRunner, managerVars

LEMMA RunInput ==
    ASSUME InputInv, NEW index, NEW ignore \in BOOLEAN, NEW enabled, Run(index, ignore, enabled)
    PROVE  InputInv'
<1>1. ignored' \in BOOLEAN
  BY DEF Run, Ignored, InputInv, InputTypes
<1>. QED  BY <1>1 DEF InputInv, InputTypes, Run, stringVars

LEMMA RunHistory ==
    ASSUME InputTypes, HistoryInv, NEW index, NEW ignore, NEW enabled, Run(index, ignore, enabled)
    PROVE  HistoryInv'
<1>1. CASE history' = history
  BY <1>1 DEF HistoryInv
<1>2. CASE query # "" /\ history' = WithEntry(history, query)
  <2>1. query \in Terms
    BY DEF InputTypes
  <2>2. history \in Seq(Terms) /\ IsInjective(history) /\ Len(history) <= MaxEntries
    BY DEF HistoryInv
  <2>. DEFINE w == WithEntry(history, query)
  <2>3. /\ w \in Seq(Terms) /\ IsInjective(w) /\ Len(w) <= MaxEntries
        /\ Range(w) \subseteq Range(history) \cup {query}
    BY <2>1, <2>2, WithEntryTidy
  <2>4. \A x \in Range(history) \cup {query} : x # ""
    BY <1>2 DEF HistoryInv, Range
  <2>. HIDE DEF w
  <2>5. \A i \in DOMAIN w : w[i] # ""
    BY <2>3, <2>4 DEF Range
  <2>. QED  BY <1>2, <2>3, <2>5 DEF HistoryInv, w
<1>. QED  BY <1>1, <1>2 DEF Run, AddToHistory

LEMMA RemoveFromHistoryHistory ==
    ASSUME HistoryInv, NEW i \in DOMAIN history, RemoveFromHistory(i)
    PROVE  HistoryInv'
<1>. DEFINE h == RemoveAt(history, i)
<1>1. /\ history \in Seq(Terms) /\ IsInjective(history) /\ Len(history) <= MaxEntries
      /\ \A j \in DOMAIN history : history[j] # ""
  BY DEF HistoryInv
<1>2. i \in 1..Len(history) /\ Len(history) \in Nat /\ MaxEntries \in Nat
  <2>1. MaxEntries \in Nat
    BY ResultsAssumption
  <2>. QED  BY <1>1, <2>1, LenProperties
<1>3. h \in Seq(Terms) /\ Len(h) = Len(history) - 1
  BY <1>1, <1>2, RemoveAtProperties
<1>4. IsInjective(h) /\ Range(h) = Range(history) \ {history[i]}
  BY <1>1, <1>2, RemoveAtInjective
<1>5. history' = h
  BY DEF RemoveFromHistory
<1>. HIDE DEF h
<1>6. \A j \in DOMAIN h : h[j] # ""
  BY <1>1, <1>4 DEF Range
<1>7. Len(h) <= MaxEntries
  <2>1. Len(history) \in Nat /\ Len(history) <= MaxEntries /\ MaxEntries \in Nat
    BY <1>1, <1>2
  <2>2. Len(h) = Len(history) - 1
    BY <1>3
  <2>. QED  BY <2>1, <2>2
<1>. QED  BY <1>3, <1>4, <1>5, <1>6, <1>7 DEF HistoryInv

LEMMA InputStep ==
    ASSUME InputInv, HistoryInv, [Next]_vars PROVE InputInv' /\ HistoryInv'
<1>1. CASE UNCHANGED <<managerVars, stringVars, history>>
  <2>1. InputInv'
    BY <1>1, InputUntouched
  <2>2. HistoryInv'
    BY <1>1 DEF HistoryInv
  <2>. QED  BY <2>1, <2>2
<1>2. CASE InputInv' /\ UNCHANGED history
  BY <1>2 DEF HistoryInv
<1>3. CASE \E list \in Lists : MatchesChanged(list)
  BY <1>1, <1>3 DEF MatchesChanged
<1>4. CASE Update
  <2>1. CASE RemoveCategory
    BY <1>1, <2>1 DEF RemoveCategory
  <2>2. CASE ChangeRows
    BY <1>1, <2>2 DEF ChangeRows
  <2>3. CASE GrowRows
    BY <1>1, <2>3 DEF GrowRows
  <2>4. CASE ShrinkRows
    BY <1>1, <2>4 DEF ShrinkRows
  <2>5. CASE EndUpdate
    BY <1>1, <2>5 DEF EndUpdate
  <2>. QED  BY <1>4, <2>1, <2>2, <2>3, <2>4, <2>5 DEF Update
<1>5. CASE Clear
  BY <1>2, <1>5, ClearInput DEF Clear
<1>6. CASE \E s \in Strings : SetQueryString(s)
  BY <1>2, <1>6, SetQueryStringInput DEF SetQueryString
<1>7. CASE \E r \in SingleRunners : SetSingleRunner(r)
  BY <1>2, <1>7, SetSingleRunnerInput DEF SetSingleRunner
<1>8. CASE \E ids \in Favorites : SetFavoriteIds(ids)
  BY <1>1, <1>8 DEF SetFavoriteIds
<1>9. CASE \E index \in Indexes, ignore \in BOOLEAN, enabled \in HistoryEnabled :
                \/ Run(index, ignore, enabled)
                \/ \E number \in Numbers : RunAction(index, number, ignore, enabled)
  <2>1. InputTypes
    BY DEF InputInv
  <2>. QED  BY <1>9, <2>1, RunInput, RunHistory DEF RunAction
<1>10. CASE \E i \in DOMAIN history : RemoveFromHistory(i)
  <2>1. InputInv'
    BY <1>10, InputUntouched DEF RemoveFromHistory
  <2>. QED  BY <1>10, <2>1, RemoveFromHistoryHistory
<1>11. CASE UNCHANGED vars
  BY <1>1, <1>11 DEF vars
<1>. QED
  BY <1>3, <1>4, <1>5, <1>6, <1>7, <1>8, <1>9, <1>10, <1>11 DEF Next

-----------------------------------------------------------------------------
(* The tree after a step *)

\* The category that the walk has come to, with its rows before and after.
LEMMA Walking ==
    ASSUME ShownInv, NEW step, At(step)
    PROVE  /\ update \in Updates
           /\ update.step = step /\ update.new \in Lists /\ update.category \in DOMAIN categories
           /\ Current = categories[update.category]
           /\ Current \in DOMAIN matches /\ Rows(Current) = matches[Current]
           /\ Rows(Current) \in Seq(Match) \ {<<>>}
           /\ NewRows(update.new, Current) \in Seq(Match) \ {<<>>}
           /\ OldCount = Len(Rows(Current)) /\ OldCount \in Nat \ {0}
           /\ NewCount = Len(NewRows(update.new, Current)) /\ NewCount \in Nat \ {0}
           /\ Common \in Nat \ {0} /\ Common = IF OldCount <= NewCount THEN OldCount ELSE NewCount
<1>1. /\ update \in Updates
      /\ update.step = step /\ update.category \in DOMAIN categories /\ Stale = {}
  BY DEF ShownInv, UpdateTypes, At
<1>2. update.new \in Lists
  BY <1>1 DEF Updates
<1>3. Current = categories[update.category]
  BY DEF Current
<1>4. Current \in DOMAIN matches /\ Rows(Current) = matches[Current]
  BY <1>1, <1>3 DEF ShownInv, TreeTypes, Range, Rows
<1>5. Rows(Current) \in Seq(Match) \ {<<>>}
  BY <1>4 DEF ShownInv, TreeTypes
<1>6. Current \in NewCategories(update.new)
  BY <1>1, <1>3 DEF Stale
<1>7. NewRows(update.new, Current) \in Seq(Match) \ {<<>>}
  BY <1>2, <1>6, NewRowsProperties
<1>8. OldCount = Len(Rows(Current)) /\ OldCount \in Nat \ {0}
  BY <1>5, EmptySeq DEF OldCount
<1>9. NewCount = Len(NewRows(update.new, Current)) /\ NewCount \in Nat \ {0}
  BY <1>7, EmptySeq DEF NewCount
<1>10. Common = IF OldCount <= NewCount THEN OldCount ELSE NewCount
  BY <1>8, <1>9, MinOfTwo DEF Common
<1>11. Common \in Nat \ {0}
  BY <1>8, <1>9, <1>10
<1>. QED  BY <1>1, <1>2, <1>3, <1>4, <1>5, <1>7, <1>8, <1>9, <1>10, <1>11

\* The rows of one category are replaced, and the view is told so.
LEMMA RowsReplaced ==
    ASSUME TreeTypes, ViewMirrors, NEW k \in DOMAIN categories, NEW rows \in Seq(Match) \ {<<>>},
           categories' = categories, sorted' = sorted,
           matches' = [matches EXCEPT ![categories[k]] = rows],
           view' = [view EXCEPT ![k].rows = rows]
    PROVE  /\ TreeTypes' /\ ViewMirrors'
           /\ matches'[categories[k]] = rows
           /\ \A i \in DOMAIN categories : i # k => matches'[categories[i]] = matches[categories[i]]
<1>1. DOMAIN matches = Range(categories) /\ IsInjective(categories)
  BY DEF TreeTypes
<1>2. /\ DOMAIN matches' = DOMAIN matches
      /\ \A c \in DOMAIN matches : matches'[c] = IF c = categories[k] THEN rows ELSE matches[c]
  OBVIOUS
<1>3. \A i \in DOMAIN categories : categories[i] \in DOMAIN matches
  BY <1>1 DEF Range
<1>4. \A i \in DOMAIN categories : i # k => categories[i] # categories[k]
  BY <1>1 DEF IsInjective
<1>5. TreeTypes'
  BY <1>2 DEF TreeTypes
<1>6. /\ matches'[categories[k]] = rows
      /\ \A i \in DOMAIN categories : i # k => matches'[categories[i]] = matches[categories[i]]
  BY <1>2, <1>3, <1>4
<1>7. ViewMirrors'
  <2>1. view = [i \in DOMAIN categories |-> [name |-> categories[i], rows |-> matches[categories[i]]]]
    BY DEF ViewMirrors, Tree
  <2>. DEFINE after == [i \in DOMAIN categories |->
                            [name |-> categories[i], rows |-> matches'[categories[i]]]]
  <2>2. view' = [i \in DOMAIN categories |-> IF i = k THEN [view[k] EXCEPT !.rows = rows] ELSE view[i]]
    BY <2>1
  <2>3. [view[k] EXCEPT !.rows = rows] = [name |-> categories[k], rows |-> rows]
    BY <2>1
  <2>4. ASSUME NEW i \in DOMAIN categories PROVE view'[i] = after[i]
    <3>1. CASE i = k
      BY <1>6, <2>2, <2>3, <3>1
    <3>2. CASE i # k
      BY <1>6, <2>1, <2>2, <3>2
    <3>. QED  BY <3>1, <3>2
  <2>5. view' = after
    BY <2>2, <2>4
  <2>. QED  BY <2>5 DEF ViewMirrors, Tree
<1>. QED  BY <1>5, <1>6, <1>7

LEMMA UpdateFields ==
    ASSUME NEW u \in Updates
    PROVE  /\ u.category \in Nat \ {0} /\ u # NoUpdate
           /\ LET v == [u EXCEPT !.step = "resize"]
              IN  v \in Updates /\ v # NoUpdate /\ v.new = u.new /\ v.category = u.category
                  /\ v.step = "resize"
           /\ LET v == [new |-> u.new, category |-> u.category + 1, step |-> "change"]
              IN  v \in Updates /\ v # NoUpdate /\ v.new = u.new /\ v.category = u.category + 1
                  /\ v.step = "change"
<1>1. NoUpdate \notin Updates
  BY ResultsAssumption
<1>2. /\ u = [new |-> u.new, category |-> u.category, step |-> u.step]
      /\ u.new \in Lists /\ u.category \in Nat \ {0}
  BY DEF Updates
<1>3. u.category + 1 \in Nat \ {0}
  BY <1>2
<1>4. [u EXCEPT !.step = "resize"] = [new |-> u.new, category |-> u.category, step |-> "resize"]
  BY <1>2
<1>6. [new |-> u.new, category |-> u.category, step |-> "resize"] \in Updates
  BY <1>2 DEF Updates
<1>7. [new |-> u.new, category |-> u.category + 1, step |-> "change"] \in Updates
  BY <1>2, <1>3 DEF Updates
<1>. QED  BY <1>1, <1>2, <1>4, <1>6, <1>7

\* The walk goes on: to the size of the category, or to the next one.
ToSize(rows) ==
    /\ update' = [update EXCEPT !.step = "resize"]
    /\ Len(rows) = OldCount
    /\ \A i \in 1..OldCount : i <= NewCount => rows[i] = NewRows(update.new, Current)[i]
ToNext(rows) ==
    /\ update' = NextCategory
    /\ rows = NewRows(update.new, Current)

LEMMA WalkGoesOn ==
    ASSUME ShownInv, NEW step, At(step), NEW rows \in Seq(Match) \ {<<>>},
           matches' = [matches EXCEPT ![Current] = rows],
           view' = [view EXCEPT ![update.category].rows = rows],
           UNCHANGED <<queryString, categories, sorted, words, favorites, emitted>>,
           ToSize(rows) \/ ToNext(rows)
    PROVE  ShownInv'
<1>. DEFINE k == update.category
<1>1. /\ update \in Updates /\ update # NoUpdate /\ Stale = {}
      /\ update.new \in Lists /\ k \in DOMAIN categories /\ Current = categories[k]
  BY Walking DEF At
<1>2. update' \in Updates /\ update' # NoUpdate /\ update'.new = update.new
  <2>1. CASE ToSize(rows)
    BY <1>1, <2>1, UpdateFields DEF ToSize
  <2>2. CASE ToNext(rows)
    BY <1>1, <2>2, UpdateFields DEF ToNext, NextCategory
  <2>. QED  BY <2>1, <2>2
<1>3. /\ TreeTypes' /\ ViewMirrors'
      /\ matches'[Current] = rows
      /\ \A i \in DOMAIN categories : i # k => matches'[categories[i]] = matches[categories[i]]
  <2>1. TreeTypes /\ ViewMirrors /\ categories' = categories /\ sorted' = sorted
    BY DEF ShownInv
  <2>2. matches' = [matches EXCEPT ![categories[k]] = rows]
    BY <1>1
  <2>. HIDE DEF k
  <2>3. view' = [view EXCEPT ![k].rows = rows]
    BY DEF k
  <2>. QED  BY <1>1, <2>1, <2>2, <2>3, RowsReplaced
<1>4. UpdateTypes'
  BY <1>2 DEF ShownInv, UpdateTypes
<1>5. TreeShowsList'
  BY <1>2 DEF TreeShowsList
<1>6. (queryString = "" => categories = <<>>)' /\ UpdateOfEmitted'
  BY <1>1, <1>2 DEF ShownInv, UpdateOfEmitted
<1>7. WalkAfterRemoval'
  <2>1. Stale' = {}
    BY <1>1, <1>2 DEF Stale
  <2>. QED  BY <2>1 DEF WalkAfterRemoval
<1>8. \A i \in DOMAIN categories :
          i < k => matches[categories[i]] = NewRows(update.new, categories[i])
  BY <1>1 DEF ShownInv, WalkDone
<1>9. k \in Nat /\ \A i \in DOMAIN categories : i \in Int
  <2>1. DOMAIN categories = 1..Len(categories)
    BY LenProperties DEF ShownInv, TreeTypes
  <2>. QED  BY <1>1, <2>1
<1>10. WalkDone'
  <2>1. CASE ToSize(rows)
    <3>1. update'.category = k /\ update'.step = "resize"
      BY <1>1, <2>1 DEF ToSize
    <3>2. Current' = Current
      BY <1>1, <3>1 DEF Current
    <3>3. Rows(Current)' = rows
      <4>1. Current \in DOMAIN matches'
        BY <1>1, Walking
      <4>. QED  BY <1>3, <3>2, <4>1 DEF Rows
    <3>4. OldCount' = OldCount /\ NewCount' = NewCount
      BY <1>2, <2>1, <3>2, <3>3 DEF OldCount, NewCount, ToSize
    <3>5. NewRows(update.new, Current)' = NewRows(update.new, Current)
      BY <1>2, <3>2
    <3>6. \A i \in 1..OldCount : i <= NewCount => rows[i] = NewRows(update.new, Current)[i]
      BY <2>1 DEF ToSize
    <3>7. \A i \in DOMAIN categories :
              i < k => matches'[categories[i]] = NewRows(update.new, categories[i])
      BY <1>3, <1>8, <1>9
    <3>. QED  BY <1>1, <1>2, <3>1, <3>3, <3>4, <3>5, <3>6, <3>7 DEF WalkDone
  <2>2. CASE ToNext(rows)
    <3>1. update'.category = k + 1 /\ update'.step = "change"
      BY <1>1, <2>2 DEF ToNext, NextCategory
    <3>2. ASSUME NEW i \in DOMAIN categories, i < k + 1
          PROVE  matches'[categories[i]] = NewRows(update.new, categories[i])
      <4>1. CASE i = k
        BY <1>1, <1>3, <2>2, <4>1 DEF ToNext
      <4>2. CASE i # k
        <5>1. i < k
          BY <1>9, <3>2, <4>2
        <5>. QED  BY <1>3, <1>8, <4>2, <5>1
      <4>. QED  BY <4>1, <4>2
    <3>. QED  BY <1>2, <3>1, <3>2 DEF WalkDone
  <2>. QED  BY <2>1, <2>2
<1>. QED  BY <1>3, <1>4, <1>5, <1>6, <1>7, <1>10 DEF ShownInv

LEMMA ViewOfCategory ==
    ASSUME ShownInv, NEW k \in DOMAIN categories
    PROVE  /\ view[k].rows = matches[categories[k]]
           /\ [view EXCEPT ![k].rows = matches[categories[k]]] = view
<1>1. view = [i \in DOMAIN categories |-> [name |-> categories[i], rows |-> matches[categories[i]]]]
  BY DEF ShownInv, ViewMirrors, Tree
<1>2. view[k] = [name |-> categories[k], rows |-> matches[categories[k]]]
  BY <1>1
<1>3. [view[k] EXCEPT !.rows = matches[categories[k]]] = view[k]
  BY <1>2
<1>. QED  BY <1>1, <1>2, <1>3

LEMMA ChangeRowsShown ==
    ASSUME ShownInv, ChangeRows PROVE ShownInv'
<1>. DEFINE k == update.category
            old == Rows(Current)
            new == NewRows(update.new, Current)
            rows == Overwritten(old, new)
<1>1. At("change")
  BY DEF ChangeRows
<1>2. /\ k \in DOMAIN categories /\ Current = categories[k] /\ old = matches[Current]
      /\ old \in Seq(Match) \ {<<>>} /\ new \in Seq(Match) \ {<<>>}
      /\ OldCount = Len(old) /\ NewCount = Len(new)
      /\ Common = IF OldCount <= NewCount THEN OldCount ELSE NewCount
      /\ OldCount \in Nat \ {0} /\ NewCount \in Nat \ {0}
  BY <1>1, Walking
<1>3. /\ matches' = [matches EXCEPT ![Current] = rows]
      /\ view' = IF Changed THEN [view EXCEPT ![k].rows = Overwritten(@, rows)] ELSE view
      /\ update' = [update EXCEPT !.step = "resize"]
      /\ UNCHANGED <<queryString, categories, sorted, words, favorites, emitted>>
  BY DEF ChangeRows, stringVars, orderVars
<1>4. view[k].rows = old /\ [view EXCEPT ![k].rows = old] = view
  BY <1>2, ViewOfCategory
<1>5. Changed <=> \E i \in 1..Common : old[i] # new[i]
  BY DEF Changed
<1>. HIDE DEF k, old, new
<1>6. DOMAIN old = 1..OldCount /\ old = [i \in 1..OldCount |-> old[i]]
      /\ (\A i \in 1..OldCount : old[i] \in Match) /\ \A i \in 1..NewCount : new[i] \in Match
  BY <1>2, LenProperties, ElementOfSeq
<1>7. rows = [i \in 1..OldCount |-> IF i <= Common THEN new[i] ELSE old[i]]
  BY <1>6 DEF Overwritten
<1>8. \A i \in 1..OldCount : i <= Common <=> i <= NewCount
  BY <1>2
<1>9. rows \in Seq(Match) \ {<<>>} /\ Len(rows) = OldCount
  <2>1. \A i \in 1..OldCount : i <= Common => i \in 1..NewCount
    BY <1>2, <1>8
  <2>2. rows \in [1..OldCount -> Match]
    BY <1>6, <1>7, <2>1
  <2>3. OldCount \in Nat
    BY <1>2
  <2>. HIDE DEF rows
  <2>4. rows \in Seq(Match) /\ Len(rows) = OldCount
    BY <2>2, <2>3, FunctionIsSeq
  <2>. QED  BY <1>2, <2>4, EmptySeq
<1>10. \A i \in 1..OldCount : i <= NewCount => rows[i] = new[i]
  BY <1>7, <1>8
<1>11. Overwritten(old, rows) = rows
  <2>1. Overwritten(old, rows) = [i \in 1..OldCount |-> IF i <= Common THEN rows[i] ELSE old[i]]
    BY <1>6 DEF Overwritten
  <2>. QED  BY <1>7, <2>1
<1>12. view' = [view EXCEPT ![k].rows = rows]
  <2>1. CASE Changed
    <3>1. view' = [view EXCEPT ![k].rows = Overwritten(view[k].rows, rows)]
      BY <1>3, <2>1
    <3>. HIDE DEF rows
    <3>. QED  BY <1>4, <1>11, <3>1
  <2>2. CASE ~Changed
    <3>1. \A i \in 1..OldCount : i <= Common => new[i] = old[i]
      <4>1. \A i \in 1..OldCount : i <= Common => i \in 1..Common
        BY <1>2
      <4>. QED  BY <1>5, <2>2, <4>1
    <3>2. rows = [i \in 1..OldCount |-> old[i]]
      BY <1>7, <3>1
    <3>3. rows = old
      BY <1>6, <3>2
    <3>. HIDE DEF rows
    <3>. QED  BY <1>3, <1>4, <2>2, <3>3
  <2>. QED  BY <2>1, <2>2
<1>13. ToSize(rows)
  BY <1>3, <1>9, <1>10 DEF ToSize, new
<1>. HIDE DEF rows
<1>. QED  BY <1>1, <1>3, <1>9, <1>12, <1>13, WalkGoesOn DEF k

LEMMA GrowRowsShown ==
    ASSUME ShownInv, GrowRows PROVE ShownInv'
<1>. DEFINE k == update.category
            old == Rows(Current)
            new == NewRows(update.new, Current)
            more == SubSeq(new, OldCount + 1, NewCount)
<1>1. At("resize") /\ NewCount >= OldCount
  BY DEF GrowRows
<1>2. /\ k \in DOMAIN categories /\ Current = categories[k] /\ old = matches[Current]
      /\ old \in Seq(Match) \ {<<>>} /\ new \in Seq(Match) \ {<<>>}
      /\ OldCount = Len(old) /\ NewCount = Len(new)
      /\ OldCount \in Nat \ {0} /\ NewCount \in Nat \ {0}
  BY <1>1, Walking
<1>3. /\ matches' = [matches EXCEPT ![Current] = new]
      /\ view' = [view EXCEPT ![k].rows = @ \o more]
      /\ update' = NextCategory
      /\ UNCHANGED <<queryString, categories, sorted, words, favorites, emitted>>
  BY DEF GrowRows, stringVars, orderVars
<1>4. \A i \in 1..OldCount : i <= NewCount => old[i] = new[i]
  BY <1>1 DEF ShownInv, WalkDone, At
<1>5. view[k].rows = old
  BY <1>2, ViewOfCategory
<1>6. ToNext(new)
  BY <1>3 DEF ToNext
<1>. HIDE DEF k, old, new
<1>7. old = SubSeq(new, 1, OldCount)
  <2>1. OldCount \in 0..Len(new)
    BY <1>1, <1>2
  <2>2. /\ SubSeq(new, 1, OldCount) \in Seq(Match) /\ Len(SubSeq(new, 1, OldCount)) = OldCount
        /\ \A i \in 1..OldCount : SubSeq(new, 1, OldCount)[i] = new[i]
    BY <1>2, <2>1, PrefixProperties
  <2>3. \A i \in 1..OldCount : old[i] = SubSeq(new, 1, OldCount)[i]
    BY <1>1, <1>2, <1>4, <2>2
  <2>. QED  BY <1>2, <2>2, <2>3, SeqEqual
<1>8. old \o more = new
  <2>1. 1 \in 1..(Len(new) + 1) /\ OldCount \in (1 - 1)..Len(new) /\ NewCount \in OldCount..Len(new)
    BY <1>1, <1>2
  <2>2. SubSeq(new, 1, OldCount) \o more = SubSeq(new, 1, NewCount)
    BY <1>2, <2>1, ConcatAdjacentSubSeq
  <2>. HIDE DEF more
  <2>. QED  BY <1>2, <1>7, <2>2, SubSeqFull
<1>9. view' = [view EXCEPT ![k].rows = new]
  <2>1. view' = [view EXCEPT ![k].rows = view[k].rows \o more]
    BY <1>3
  <2>. HIDE DEF more
  <2>. QED  BY <1>5, <1>8, <2>1
<1>. QED  BY <1>1, <1>2, <1>3, <1>6, <1>9, WalkGoesOn DEF k

LEMMA ShrinkRowsShown ==
    ASSUME ShownInv, ShrinkRows PROVE ShownInv'
<1>. DEFINE k == update.category
            old == Rows(Current)
            new == NewRows(update.new, Current)
<1>1. At("resize") /\ NewCount < OldCount
  BY DEF ShrinkRows
<1>2. /\ k \in DOMAIN categories /\ Current = categories[k] /\ old = matches[Current]
      /\ old \in Seq(Match) \ {<<>>} /\ new \in Seq(Match) \ {<<>>}
      /\ OldCount = Len(old) /\ NewCount = Len(new)
      /\ OldCount \in Nat \ {0} /\ NewCount \in Nat \ {0}
  BY <1>1, Walking
<1>3. /\ matches' = [matches EXCEPT ![Current] = new]
      /\ view' = [view EXCEPT ![k].rows = SubSeq(@, 1, NewCount)]
      /\ update' = NextCategory
      /\ UNCHANGED <<queryString, categories, sorted, words, favorites, emitted>>
  BY DEF ShrinkRows, stringVars, orderVars
<1>4. \A i \in 1..OldCount : i <= NewCount => old[i] = new[i]
  BY <1>1 DEF ShownInv, WalkDone, At
<1>5. view[k].rows = old
  BY <1>2, ViewOfCategory
<1>6. ToNext(new)
  BY <1>3 DEF ToNext
<1>. HIDE DEF k, old, new
<1>7. SubSeq(old, 1, NewCount) = new
  <2>1. NewCount \in 0..Len(old)
    BY <1>1, <1>2
  <2>2. /\ SubSeq(old, 1, NewCount) \in Seq(Match) /\ Len(SubSeq(old, 1, NewCount)) = NewCount
        /\ \A i \in 1..NewCount : SubSeq(old, 1, NewCount)[i] = old[i]
    BY <1>2, <2>1, PrefixProperties
  <2>3. \A i \in 1..NewCount : SubSeq(old, 1, NewCount)[i] = new[i]
    <3>1. \A i \in 1..NewCount : i \in 1..OldCount /\ i <= NewCount
      BY <1>1, <1>2
    <3>. QED  BY <1>4, <2>2, <3>1
  <2>. QED  BY <1>2, <2>2, <2>3, SeqEqual
<1>8. view' = [view EXCEPT ![k].rows = new]
  <2>1. view' = [view EXCEPT ![k].rows = SubSeq(view[k].rows, 1, NewCount)]
    BY <1>3
  <2>. QED  BY <1>5, <1>7, <2>1
<1>. QED  BY <1>1, <1>2, <1>3, <1>6, <1>8, WalkGoesOn DEF k

\* A tree is a sequence with the length of its categories.
LEMMA TreeProperties ==
    ASSUME NEW T, NEW cs \in Seq(T), NEW rows, NEW V,
           \A i \in DOMAIN cs : [name |-> cs[i], rows |-> rows[cs[i]]] \in V
    PROVE  /\ Tree(cs, rows) \in Seq(V) /\ Len(Tree(cs, rows)) = Len(cs)
           /\ \A i \in 1..Len(cs) : Tree(cs, rows)[i] = [name |-> cs[i], rows |-> rows[cs[i]]]
<1>1. Len(cs) \in Nat /\ DOMAIN cs = 1..Len(cs)
  BY LenProperties
<1>2. Tree(cs, rows) \in [1..Len(cs) -> V]
  BY <1>1 DEF Tree
<1>3. Tree(cs, rows) \in Seq(V) /\ Len(Tree(cs, rows)) = Len(cs)
  <2>. DEFINE t == Tree(cs, rows)
  <2>. HIDE DEF t
  <2>1. t \in [1..Len(cs) -> V]
    BY <1>2 DEF t
  <2>2. t \in Seq(V) /\ Len(t) = Len(cs)
    BY <1>1, <2>1, SeqDef
  <2>. QED  BY <2>2 DEF t
<1>. QED  BY <1>1, <1>3 DEF Tree

LEMMA RemoveCategoryShown ==
    ASSUME ShownInv, RemoveCategory PROVE ShownInv'
<1>. DEFINE n == Min(Stale)
            c == categories[n]
            rest == RemoveAt(categories, n)
<1>1. /\ update # NoUpdate /\ Stale # {}
      /\ categories' = rest
      /\ matches' = [d \in DOMAIN matches \ {c} |-> matches[d]]
      /\ view' = RemoveAt(view, n) /\ sorted' = Without(sorted, c)
      /\ UNCHANGED <<queryString, update, emitted, words, favorites>>
  BY DEF RemoveCategory, stringVars
<1>2. /\ categories \in Seq(Categories) /\ IsInjective(categories)
      /\ DOMAIN matches = Range(categories)
      /\ (\A d \in DOMAIN matches : matches[d] \in Seq(Match) \ {<<>>})
      /\ sorted \in Seq(Categories) /\ IsInjective(sorted) /\ Range(sorted) = Range(categories)
  BY DEF ShownInv, TreeTypes
<1>3. Len(categories) \in Nat /\ DOMAIN categories = 1..Len(categories)
  BY <1>2, LenProperties
<1>4. n \in 1..Len(categories)
  <2>1. Stale \subseteq 1..Len(categories)
    BY <1>3 DEF Stale
  <2>2. Stale \subseteq Nat
    BY <1>3, <2>1
  <2>. QED  BY <1>1, <2>1, <2>2, MinIsLeast
<1>. HIDE DEF n
<1>5. /\ rest \in Seq(Categories) /\ Len(rest) = Len(categories) - 1
      /\ \A i \in 1..(Len(categories) - 1) :
            rest[i] = IF i < n THEN categories[i] ELSE categories[i + 1]
  BY <1>2, <1>4, RemoveAtProperties
<1>6. IsInjective(rest) /\ Range(rest) = Range(categories) \ {c}
  BY <1>2, <1>4, RemoveAtInjective
<1>7. /\ Without(sorted, c) \in Seq(Categories) /\ IsInjective(Without(sorted, c))
      /\ Range(Without(sorted, c)) = Range(sorted) \ {c}
  BY <1>2, WithoutProperties
<1>. HIDE DEF rest, c
<1>8. DOMAIN matches' = Range(rest) /\ \A d \in Range(rest) : matches'[d] = matches[d]
  BY <1>1, <1>2, <1>6
<1>9. TreeTypes'
  BY <1>1, <1>2, <1>5, <1>6, <1>7, <1>8 DEF TreeTypes
<1>10. UpdateTypes'
  BY <1>1 DEF ShownInv, UpdateTypes
<1>11. ViewMirrors'
  <2>. DEFINE V == {[name |-> categories[i], rows |-> matches[categories[i]]] : i \in DOMAIN categories}
              left == RemoveAt(view, n)
              after == Tree(rest, matches')
  <2>1. view = Tree(categories, matches)
    BY DEF ShownInv, ViewMirrors
  <2>2. /\ Tree(categories, matches) \in Seq(V) /\ Len(Tree(categories, matches)) = Len(categories)
        /\ \A i \in 1..Len(categories) : Tree(categories, matches)[i]
                = [name |-> categories[i], rows |-> matches[categories[i]]]
    <3>1. \A i \in DOMAIN categories :
                [name |-> categories[i], rows |-> matches[categories[i]]] \in V
      OBVIOUS
    <3>. HIDE DEF V
    <3>. QED  BY <1>2, <3>1, TreeProperties
  <2>. HIDE DEF V
  <2>3. /\ left \in Seq(V) /\ Len(left) = Len(categories) - 1
        /\ \A i \in 1..(Len(categories) - 1) : left[i] = IF i < n THEN view[i] ELSE view[i + 1]
    <3>1. view \in Seq(V) /\ Len(view) = Len(categories)
      BY <2>1, <2>2
    <3>2. n \in 1..Len(view)
      BY <1>4, <3>1
    <3>. QED  BY <3>1, <3>2, RemoveAtProperties
  <2>. HIDE DEF left
  <2>4. ASSUME NEW i \in 1..(Len(categories) - 1)
        PROVE  left[i] = [name |-> rest[i], rows |-> matches'[rest[i]]]
    <3>1. i \in 1..Len(categories) /\ i + 1 \in 1..Len(categories)
      BY <1>3
    <3>2. rest[i] \in Range(rest)
      <4>1. DOMAIN rest = 1..(Len(categories) - 1)
        BY <1>5, LenProperties
      <4>. QED  BY <4>1 DEF Range
    <3>3. matches'[rest[i]] = matches[rest[i]]
      BY <1>8, <3>2
    <3>4. PICK q \in 1..Len(categories) : left[i] = view[q] /\ rest[i] = categories[q]
      BY <1>5, <2>3, <3>1
    <3>5. view[q] = [name |-> categories[q], rows |-> matches[categories[q]]]
      BY <2>1, <2>2
    <3>. QED  BY <3>3, <3>4, <3>5
  <2>5. left = after
    <3>1. DOMAIN rest = 1..(Len(categories) - 1)
      BY <1>5, LenProperties
    <3>2. after = [i \in 1..(Len(categories) - 1) |-> [name |-> rest[i], rows |-> matches'[rest[i]]]]
      BY <3>1 DEF Tree
    <3>3. left = [i \in 1..(Len(categories) - 1) |-> left[i]]
      BY <2>3, LenProperties
    <3>. HIDE DEF after
    <3>. QED  BY <2>4, <3>2, <3>3
  <2>. QED  BY <1>1, <2>5 DEF ViewMirrors, left
<1>12. TreeShowsList'
  BY <1>1 DEF TreeShowsList
<1>13. UpdateOfEmitted'
  BY <1>1 DEF ShownInv, UpdateOfEmitted
<1>14. (queryString = "" => categories = <<>>)'
  <2>1. categories # <<>>
    BY <1>3, <1>4
  <2>. QED  BY <1>1, <2>1 DEF ShownInv
<1>15. update.category = 1 /\ update.step = "change"
  <2>1. update \in Updates
    BY <1>1 DEF ShownInv, UpdateTypes
  <2>2. update.category \in Nat \ {0} /\ update.step \in {"change", "resize"}
    BY <2>1 DEF Updates
  <2>3. ~(update.category > 1) /\ update.step # "resize"
    BY <1>1 DEF ShownInv, WalkAfterRemoval
  <2>. QED  BY <2>2, <2>3
<1>16. WalkAfterRemoval'
  BY <1>1, <1>15 DEF WalkAfterRemoval
<1>17. WalkDone'
  <2>1. DOMAIN rest = 1..Len(rest)
    BY <1>5, LenProperties
  <2>2. \A i \in DOMAIN rest : ~(i < 1)
    BY <2>1
  <2>. QED  BY <1>1, <1>15, <2>2 DEF WalkDone
<1>. QED
  BY <1>9, <1>10, <1>11, <1>12, <1>13, <1>14, <1>16, <1>17 DEF ShownInv

\* An order of the categories of a tree.
LEMMA OrderOfCategories ==
    ASSUME NEW cs \in Seq(Categories), NEW t \in SetToSeqs(Range(cs))
    PROVE  t \in Seq(Categories) /\ IsInjective(t) /\ Range(t) = Range(cs)
<1>1. IsFiniteSet(Range(cs)) /\ Range(cs) \subseteq Categories
  BY RangeFinite, RangeOfSeq
<1>2. t \in Seq(Range(cs)) /\ IsInjective(t) /\ Range(t) = Range(cs)
  BY <1>1, SetToSeqsProperties
<1>. QED  BY <1>1, <1>2, SeqMonotonic

LEMMA EndUpdateShown ==
    ASSUME InputTypes, ShownInv, EndUpdate PROVE ShownInv'
<1>. DEFINE new == NewCategories(update.new) \ Range(categories)
<1>1. PICK order \in SetToSeqs(new) :
          /\ categories' = categories \o order
          /\ matches' = [c \in DOMAIN matches \cup new |->
                            IF c \in new THEN NewRows(update.new, c) ELSE matches[c]]
          /\ view' = view \o Tree(order, matches')
  BY DEF EndUpdate
<1>2. /\ update # NoUpdate /\ Stale = {} /\ update.category > Len(categories)
      /\ words' = Trimmed[queryString] /\ update' = NoUpdate
      /\ sorted' = Sorting(matches', categories') \/ sorted' \in Inserted(matches', sorted, new)
      /\ UNCHANGED <<queryString, favorites, emitted>>
  BY DEF EndUpdate, stringVars
<1>3. /\ categories \in Seq(Categories) /\ IsInjective(categories)
      /\ DOMAIN matches = Range(categories)
      /\ (\A d \in DOMAIN matches : matches[d] \in Seq(Match) \ {<<>>})
      /\ sorted \in Seq(Categories) /\ Range(sorted) = Range(categories)
  BY DEF ShownInv, TreeTypes
<1>4. update \in Updates /\ update.new \in Lists /\ update.category \in Nat \ {0}
      /\ favorites \in Seq(STRING)
  <2>1. update \in Updates
    BY <1>2 DEF ShownInv, UpdateTypes
  <2>2. favorites \in Seq(STRING)
    BY FavoritesType DEF ShownInv
  <2>3. update.new \in Lists /\ update.category \in Nat \ {0}
    BY <2>1 DEF Updates
  <2>. QED  BY <2>1, <2>2, <2>3
<1>5. update.new = emitted /\ (queryString = "" => emitted = <<>> /\ categories = <<>>)
  BY <1>2 DEF ShownInv, UpdateOfEmitted
<1>. DEFINE list == update.new
<1>6. /\ NewCategories(list) \subseteq Categories /\ IsFiniteSet(NewCategories(list))
      /\ \A c : NewRows(list, c) \in Seq(Match)
      /\ \A c \in NewCategories(list) : NewRows(list, c) # <<>>
  BY <1>4, NewRowsProperties
<1>7. IsFiniteSet(new) /\ new \subseteq Categories
  BY <1>6, FS_Difference
<1>8. order \in Seq(Categories) /\ IsInjective(order) /\ Range(order) = new
  <2>. HIDE DEF new
  <2>1. order \in Seq(new) /\ IsInjective(order) /\ Range(order) = new
    BY <1>7, SetToSeqsProperties
  <2>. QED  BY <1>7, <2>1, SeqMonotonic
<1>9. DOMAIN categories = 1..Len(categories) /\ Len(categories) \in Nat
  BY <1>3, LenProperties
<1>10. Range(categories) \subseteq NewCategories(list)
  BY <1>2 DEF Stale, Range
<1>11. /\ categories' \in Seq(Categories) /\ IsInjective(categories')
       /\ Range(categories') = NewCategories(list)
  <2>1. Range(categories) \cap Range(order) = {} /\ Range(categories) \cup new = NewCategories(list)
    BY <1>8, <1>10
  <2>. HIDE DEF new, list
  <2>2. categories \o order \in Seq(Categories)
    BY <1>3, <1>8, ConcatProperties
  <2>3. IsInjective(categories \o order)
    BY <1>3, <1>8, <2>1, ConcatInjective
  <2>4. Range(categories \o order) = Range(categories) \cup Range(order)
    BY <1>3, <1>8, RangeConcatenation
  <2>. QED  BY <1>1, <1>8, <2>1, <2>2, <2>3, <2>4
<1>12. DOMAIN matches' = NewCategories(list)
  BY <1>1, <1>3, <1>10
<1>13. ASSUME NEW c \in NewCategories(list) PROVE matches'[c] = NewRows(list, c)
  <2>1. CASE c \in new
    BY <1>1, <2>1
  <2>2. CASE c \notin new
    <3>1. PICK i \in 1..Len(categories) : categories[i] = c
      BY <1>9, <2>2 DEF Range
    <3>2. i < update.category
      BY <1>2, <1>4, <1>9
    <3>3. matches[c] = NewRows(list, c)
      BY <1>2, <1>9, <3>1, <3>2 DEF ShownInv, WalkDone
    <3>4. c \in DOMAIN matches
      BY <1>3, <2>2
    <3>. QED  BY <1>1, <2>2, <3>3, <3>4
  <2>. QED  BY <2>1, <2>2
<1>14. \A c \in Range(categories) : matches'[c] = matches[c]
  BY <1>1, <1>3
<1>15. TreeTypes'
  <2>1. \A c \in DOMAIN matches' : matches'[c] \in Seq(Match) \ {<<>>}
    BY <1>6, <1>12, <1>13
  <2>2. Range(categories') = Range(sorted) \cup new
    BY <1>3, <1>10, <1>11
  <2>. HIDE DEF new, list
  <2>3. sorted' \in Seq(Categories) /\ IsInjective(sorted') /\ Range(sorted') = Range(categories')
    <3>1. categories' \in Seq(Categories) /\ sorted \in Seq(Categories) /\ favorites \in Seq(STRING)
      BY <1>3, <1>4, <1>11
    <3>2. \A c \in Range(categories') : matches'[c] \in Seq(Match) \ {<<>>}
      BY <1>11, <1>12, <2>1
    <3>3. sorted' \in SetToSeqs(Range(categories'))
      <4>1. CASE sorted' = Sorting(matches', categories')
        BY <3>1, <3>2, <4>1, SortingProperties
      <4>2. CASE sorted' \in Inserted(matches', sorted, new)
        BY <2>2, <4>2 DEF Inserted
      <4>. QED  BY <1>2, <4>1, <4>2
    <3>. QED  BY <3>1, <3>3, OrderOfCategories
  <2>. QED  BY <1>11, <1>12, <2>1, <2>3 DEF TreeTypes
<1>16. UpdateTypes'
  <2>1. words' \in Terms
    <3>1. queryString \in Strings
      BY DEF InputTypes
    <3>. QED  BY <1>2, <3>1, ResultsAssumption
  <2>. QED  BY <1>2, <2>1 DEF ShownInv, UpdateTypes
<1>17. ViewMirrors'
  <2>. DEFINE R(c) == [name |-> c, rows |-> matches'[c]]
              V == {R(c) : c \in NewCategories(list)}
              old == Tree(categories, matches')
              added == Tree(order, matches')
              after == Tree(categories', matches')
  <2>1. view = old
    BY <1>14 DEF ShownInv, ViewMirrors, Tree, Range
  <2>2. /\ \A i \in DOMAIN categories : R(categories[i]) \in V
        /\ \A i \in DOMAIN order : R(order[i]) \in V
        /\ \A i \in DOMAIN categories' : R(categories'[i]) \in V
    BY <1>8, <1>10, <1>11 DEF Range
  <2>. HIDE DEF V
  <2>3. /\ old \in Seq(V) /\ Len(old) = Len(categories)
        /\ \A i \in 1..Len(categories) : old[i] = R(categories[i])
    BY <1>3, <2>2, TreeProperties
  <2>4. /\ added \in Seq(V) /\ Len(added) = Len(order)
        /\ \A i \in 1..Len(order) : added[i] = R(order[i])
    BY <1>8, <2>2, TreeProperties
  <2>5. /\ after \in Seq(V) /\ Len(after) = Len(categories')
        /\ \A i \in 1..Len(categories') : after[i] = R(categories'[i])
    BY <1>11, <2>2, TreeProperties
  <2>6. /\ Len(categories') = Len(categories) + Len(order) /\ Len(order) \in Nat
        /\ \A i \in 1..(Len(categories) + Len(order)) : categories'[i]
                = IF i <= Len(categories) THEN categories[i] ELSE order[i - Len(categories)]
    BY <1>1, <1>3, <1>8, ConcatProperties, LenProperties
  <2>. HIDE DEF old, added, after, R
  <2>7. /\ old \o added \in Seq(V) /\ Len(old \o added) = Len(old) + Len(added)
        /\ \A i \in 1..(Len(old) + Len(added)) :
              (old \o added)[i] = IF i <= Len(old) THEN old[i] ELSE added[i - Len(old)]
    <3>1. old \in Seq(V) /\ added \in Seq(V)
      BY <2>3, <2>4
    <3>. QED  BY <3>1, ConcatProperties
  <2>8. ASSUME NEW i \in 1..Len(old \o added) PROVE (old \o added)[i] = after[i]
    <3>1. i \in 1..(Len(categories) + Len(order)) /\ i \in 1..Len(categories')
      BY <2>3, <2>4, <2>6, <2>7
    <3>2. CASE i <= Len(categories)
      <4>1. i \in 1..Len(categories)
        BY <1>9, <3>1, <3>2
      <4>. QED  BY <2>3, <2>4, <2>5, <2>6, <2>7, <3>1, <3>2, <4>1
    <3>3. CASE ~(i <= Len(categories))
      <4>1. i - Len(categories) \in 1..Len(order)
        BY <1>9, <2>6, <3>1, <3>3
      <4>. QED  BY <2>3, <2>4, <2>5, <2>6, <2>7, <3>1, <3>3, <4>1
    <3>. QED  BY <3>2, <3>3
  <2>9. Len(old \o added) = Len(after)
    BY <2>3, <2>4, <2>5, <2>6, <2>7
  <2>10. old \o added = after
    BY <2>5, <2>7, <2>8, <2>9, SeqEqual
  <2>11. view' = old \o added
    BY <1>1, <2>1 DEF added
  <2>. QED  BY <2>10, <2>11 DEF ViewMirrors, after
<1>18. TreeShowsList'
  BY <1>2, <1>5, <1>11, <1>13 DEF TreeShowsList
<1>19. (queryString = "" => categories = <<>>)'
  <2>1. CASE queryString = ""
    <3>1. NewCategories(list) = {}
      BY <1>5, <2>1, NothingNew
    <3>2. Len(categories') \in Nat /\ DOMAIN categories' = 1..Len(categories')
      BY <1>11, LenProperties
    <3>3. 1 \notin 1..Len(categories')
      BY <1>11, <3>1, <3>2 DEF Range
    <3>4. categories' = <<>>
      BY <1>11, <3>2, <3>3, EmptySeq
    <3>. QED  BY <3>4
  <2>. QED  BY <1>2, <2>1
<1>20. UpdateOfEmitted' /\ WalkAfterRemoval' /\ WalkDone'
  BY <1>2, <1>5 DEF UpdateOfEmitted, WalkAfterRemoval, WalkDone
<1>. QED  BY <1>15, <1>16, <1>17, <1>18, <1>19, <1>20 DEF ShownInv

LEMMA ResetTreeShown ==
    ASSUME ShownInv, update = NoUpdate, ResetTree, UNCHANGED update PROVE ShownInv'
<1>1. /\ categories' = <<>> /\ matches' = <<>> /\ view' = <<>> /\ sorted' = <<>>
      /\ emitted' = <<>> /\ update' = NoUpdate /\ UNCHANGED <<words, favorites>>
  BY DEF ResetTree
<1>2. TreeTypes' /\ ViewMirrors'
  BY <1>1, EmptyTree DEF TreeTypes, ViewMirrors
<1>3. UpdateTypes'
  <2>1. <<>> \in Lists
    BY ResultsAssumption
  <2>. QED  BY <1>1, <2>1 DEF ShownInv, UpdateTypes
<1>4. TreeShowsList'
  BY <1>1, EmptyTree, NothingNew DEF TreeShowsList
<1>5. UpdateOfEmitted' /\ WalkAfterRemoval' /\ WalkDone'
  BY <1>1 DEF UpdateOfEmitted, WalkAfterRemoval, WalkDone
<1>. QED  BY <1>1, <1>2, <1>3, <1>4, <1>5 DEF ShownInv

LEMMA MatchesChangedShown ==
    ASSUME InputInv, ShownInv, NEW list \in Lists, MatchesChanged(list) PROVE ShownInv'
<1>1. /\ query # "" \/ list = <<>>
      /\ update' = [new |-> list, category |-> 1, step |-> "change"]
      /\ emitted' = list
      /\ UNCHANGED <<queryString, categories, matches, view, sorted, words, favorites>>
  BY DEF MatchesChanged, stringVars, treeVars, orderVars
<1>2. update' \in Updates /\ update' # NoUpdate
  <2>1. 1 \in Nat \ {0} /\ "change" \in {"change", "resize"}
    OBVIOUS
  <2>2. update' \in Updates
    BY <1>1, <2>1, Zenon DEF Updates
  <2>. QED  BY <2>2, UpdateFields
<1>3. update'.new = list /\ update'.category = 1 /\ update'.step = "change"
  BY <1>1
<1>4. TreeTypes' /\ ViewMirrors' /\ (queryString = "" => categories = <<>>)'
  BY <1>1 DEF ShownInv, TreeTypes, ViewMirrors
<1>5. UpdateTypes'
  BY <1>1, <1>2 DEF ShownInv, UpdateTypes
<1>6. TreeShowsList'
  BY <1>2 DEF TreeShowsList
<1>7. UpdateOfEmitted'
  BY <1>1, <1>3 DEF UpdateOfEmitted, InputInv
<1>8. WalkAfterRemoval'
  BY <1>3 DEF WalkAfterRemoval
<1>9. WalkDone'
  <2>1. DOMAIN categories' = 1..Len(categories')
    BY <1>4, LenProperties DEF TreeTypes
  <2>2. \A i \in DOMAIN categories' : ~(i < 1)
    BY <2>1
  <2>. QED  BY <1>3, <2>2 DEF WalkDone
<1>. QED  BY <1>4, <1>5, <1>6, <1>7, <1>8, <1>9 DEF ShownInv

LEMMA SetQueryStringShown ==
    ASSUME ShownInv, NEW s \in Strings, SetQueryString(s) PROVE ShownInv'
<1>1. update = NoUpdate /\ UNCHANGED update /\ queryString' = s
  BY DEF SetQueryString
<1>2. CASE s = "" /\ ResetTree
  BY <1>1, <1>2, ResetTreeShown
<1>3. CASE s # "" /\ UNCHANGED <<categories, matches, view, orderVars, emitted>>
  <2>1. words \in Terms /\ favorites \in Favorites \cup {<<>>}
    BY DEF ShownInv, UpdateTypes
  <2>. QED  BY <1>1, <1>3, <2>1, TreeUntouched DEF treeVars, orderVars
<1>4. CASE Trimmed[s] # "" /\ UNCHANGED <<categories, matches, view, orderVars, emitted>>
  <2>1. Trimmed[""] = ""
    BY ResultsAssumption
  <2>. QED  BY <1>3, <1>4, <2>1
<1>. QED  BY <1>2, <1>3, <1>4 DEF SetQueryString

LEMMA ShownStep ==
    ASSUME InputInv, ShownInv, [Next]_vars PROVE ShownInv'
<1>0. words \in Terms /\ favorites \in Favorites \cup {<<>>}
  BY DEF ShownInv, UpdateTypes
<1>1. CASE UNCHANGED <<queryString, treeVars, orderVars, update, emitted>>
  BY <1>0, <1>1, TreeUntouched DEF treeVars, orderVars
<1>2. CASE \E list \in Lists : MatchesChanged(list)
  BY <1>2, MatchesChangedShown
<1>3. CASE Update
  <2>1. CASE EndUpdate
    BY <2>1, EndUpdateShown DEF InputInv
  <2>. QED  BY <1>3, <2>1, RemoveCategoryShown, ChangeRowsShown, GrowRowsShown, ShrinkRowsShown DEF Update
<1>4. CASE Clear
  BY <1>4, ResetTreeShown DEF Clear
<1>5. CASE \E s \in Strings : SetQueryString(s)
  BY <1>5, SetQueryStringShown
<1>6. CASE \E r \in SingleRunners : SetSingleRunner(r)
  BY <1>1, <1>6 DEF SetSingleRunner
<1>7. CASE \E ids \in Favorites : SetFavoriteIds(ids)
  BY <1>0, <1>7, TreeUntouched DEF SetFavoriteIds, stringVars
<1>8. CASE \E index \in Indexes, ignore \in BOOLEAN, enabled \in HistoryEnabled :
                \/ Run(index, ignore, enabled)
                \/ \E number \in Numbers : RunAction(index, number, ignore, enabled)
  BY <1>1, <1>8 DEF RunAction, Run, stringVars
<1>9. CASE \E i \in DOMAIN history : RemoveFromHistory(i)
  BY <1>1, <1>9 DEF RemoveFromHistory, stringVars
<1>10. CASE UNCHANGED vars
  BY <1>1, <1>10 DEF vars, stringVars
<1>. QED
  BY <1>2, <1>3, <1>4, <1>5, <1>6, <1>7, <1>8, <1>9, <1>10 DEF Next

-----------------------------------------------------------------------------
(* What always holds *)

\* The inductive invariant of the item models.
THEOREM ResultsInvariance == Spec => []ResultsInv
<1>1. Init => ResultsInv
  BY InitHolds
<1>2. ResultsInv /\ [Next]_vars => ResultsInv'
  <2>. SUFFICES ASSUME ResultsInv, [Next]_vars PROVE ResultsInv'
    OBVIOUS
  <2>1. InputInv /\ HistoryInv /\ ShownInv
    BY DEF ResultsInv, InputInv
  <2>2. InputInv' /\ HistoryInv' /\ ShownInv'
    BY <2>1, InputStep, ShownStep
  <2>. QED  BY <2>2 DEF ResultsInv, InputInv
<1>. QED  BY <1>1, <1>2, PTL DEF Spec

\* Every variable has its type in every reachable state, and m_categories and m_matches
\* are in sync after each signal of onMatchesChanged, erase and clear.
THEOREM TypeTheorem == Spec => []TypeOK
<1>1. ResultsInv => TypeOK
  BY DEF ResultsInv, InputTypes, HistoryInv, ShownInv, TreeTypes, UpdateTypes, TypeOK
<1>. QED  BY <1>1, ResultsInvariance, PTL

\* For all lists of matches, in whatever order they come, the row signals of
\* onMatchesChanged tell a view exactly how to follow the tree.
THEOREM ViewMirrorsTheorem == Spec => []ViewMirrors
<1>1. ResultsInv => ViewMirrors
  BY DEF ResultsInv, ShownInv
<1>. QED  BY <1>1, ResultsInvariance, PTL

\* For all lists, the rows that onMatchesChanged has overwritten, inserted and removed
\* when it is over are those of the list it was given, category by category.
THEOREM TreeShowsListTheorem == Spec => []TreeShowsList
<1>1. ResultsInv => TreeShowsList
  BY DEF ResultsInv, ShownInv
<1>. QED  BY <1>1, ResultsInvariance, PTL

\* No matches without input: setQueryString("") and clear leave nothing that a later
\* matchesChanged of the manager could bring back.
THEOREM EmptyInputTheorem == Spec => []EmptyInputShowsNothing
<1>1. ResultsInv => EmptyInputShowsNothing
  BY DEF ResultsInv, ShownInv, EmptyInputShowsNothing
<1>. QED  BY <1>1, ResultsInvariance, PTL

\* addToHistory and removeFromHistory keep the history bounded, without blank entries and
\* without one twice, and whatever was stored earlier, an added entry goes first and the
\* others keep their order.
THEOREM HistoryTheorem == Spec => []HistoryTidy
<1>1. EntriesGoFirst
  <2>. SUFFICES ASSUME NEW h \in Histories PROVE EntryGoesFirst(h)
    BY DEF EntriesGoFirst
  <2>1. h \in Seq(STRING) /\ IsInjective(h) /\ Len(h) <= MaxEntries
    BY ResultsAssumption
  <2>2. h \in Seq(STRING \cup Terms)
    BY <2>1, SeqMonotonic
  <2>3. ASSUME NEW term \in Terms \ {""}
        PROVE  LET others == Without(h, term)
               IN  WithEntry(h, term)
                       = <<term>> \o SubSeq(others, 1, Min({Len(others), MaxEntries - 1}))
    <3>1. term \in STRING \cup Terms
      OBVIOUS
    <3>. QED  BY <2>1, <2>2, <3>1, WithEntryGoesFirst
  <2>. QED  BY <2>3 DEF EntryGoesFirst
<1>2. ResultsInv => HistoryTidy
  <2>. SUFFICES ASSUME ResultsInv PROVE HistoryTidy
    OBVIOUS
  <2>1. /\ history \in Seq(Terms) /\ IsInjective(history) /\ Len(history) <= MaxEntries
        /\ \A i \in DOMAIN history : history[i] # ""
    BY DEF ResultsInv, HistoryInv
  <2>2. EntryGoesFirst(history)
    <3>. SUFFICES ASSUME NEW term \in Terms \ {""}
                  PROVE  LET others == Without(history, term)
                         IN  WithEntry(history, term) = <<term>>
                                \o SubSeq(others, 1, Min({Len(others), MaxEntries - 1}))
      BY DEF EntryGoesFirst
    <3>. QED  BY <2>1, WithEntryGoesFirst
  <2>. QED  BY <1>1, <2>1, <2>2 DEF HistoryTidy
<1>. QED  BY <1>2, ResultsInvariance, PTL

\* "keep the order of existing categories" (runnerresultsmodel.cpp:38): no step of the
\* model exchanges two categories that it does not remove.
THEOREM CategoriesKeepOrderTheorem == Spec => CategoriesKeepOrder
<1>1. ResultsInv /\ [Next]_vars => SameOrder(categories, categories')
  <2>. SUFFICES ASSUME ResultsInv, [Next]_vars PROVE SameOrder(categories, categories')
    OBVIOUS
  <2>1. categories \in Seq(Categories) /\ IsInjective(categories)
    BY DEF ResultsInv, ShownInv, TreeTypes
  <2>2. CASE categories' = categories
    BY <2>1, <2>2, OrderKept
  <2>3. CASE categories' = <<>>
    BY <2>3, EmptyTree DEF SameOrder
  <2>4. CASE RemoveCategory
    <3>1. categories' = RemoveAt(categories, Min(Stale)) /\ Stale # {}
      BY <2>4 DEF RemoveCategory
    <3>2. Min(Stale) \in 1..Len(categories)
      <4>1. DOMAIN categories = 1..Len(categories) /\ Len(categories) \in Nat
        BY <2>1, LenProperties
      <4>2. Stale \subseteq 1..Len(categories) /\ Stale \subseteq Nat
        BY <4>1 DEF Stale
      <4>. QED  BY <3>1, <4>2, MinIsLeast
    <3>. QED  BY <2>1, <3>1, <3>2, RemoveAtInjective
  <2>5. CASE EndUpdate
    <3>. DEFINE new == NewCategories(update.new) \ Range(categories)
    <3>1. PICK order \in SetToSeqs(new) : categories' = categories \o order
      BY <2>5 DEF EndUpdate
    <3>2. update \in Updates
      BY <2>5 DEF EndUpdate, ResultsInv, ShownInv, UpdateTypes
    <3>3. update.new \in Lists
      BY <3>2 DEF Updates
    <3>4. IsFiniteSet(new) /\ new \subseteq Categories
      BY <3>3, NewRowsProperties, FS_Difference
    <3>5. Range(categories) \cap new = {}
      OBVIOUS
    <3>. HIDE DEF new
    <3>6. order \in Seq(new) /\ IsInjective(order) /\ Range(order) = new
      BY <3>4, SetToSeqsProperties
    <3>7. order \in Seq(Categories)
      BY <3>4, <3>6, SeqMonotonic
    <3>. QED  BY <2>1, <3>1, <3>5, <3>6, <3>7, ConcatInjective
  <2>6. CASE UNCHANGED vars
    BY <2>2, <2>6 DEF vars, treeVars
  <2>7. CASE Next
    <3>1. CASE Update
      BY <2>2, <2>4, <2>5, <3>1 DEF Update, ChangeRows, GrowRows, ShrinkRows
    <3>2. CASE Clear \/ \E s \in Strings : SetQueryString(s)
      BY <2>2, <2>3, <3>2 DEF Clear, SetQueryString, ResetTree
    <3>3. CASE categories' = categories
      BY <2>2, <3>3
    <3>. QED
      BY <2>7, <3>1, <3>2, <3>3
         DEF Next, MatchesChanged, SetSingleRunner, SetFavoriteIds, RunAction, Run,
             RemoveFromHistory, treeVars
  <2>. QED  BY <2>6, <2>7
<1>2. ResultsInv /\ [Next]_vars => [SameOrder(categories, categories')]_vars
  BY <1>1
<1>. QED  BY <1>2, ResultsInvariance, PTL DEF Spec, CategoriesKeepOrder

\* Whatever order the inserts of earlier updates have left, the first update for other
\* words sorts the categories by favourites and relevance.
THEOREM SortedForNewWordsTheorem == Spec => SortedForNewWords
<1>1. ResultsInv /\ ResultsInv' /\ [Next]_vars => (words' # words => BestFirst')
  <2>. SUFFICES ASSUME ResultsInv, ResultsInv', [Next]_vars, words' # words PROVE BestFirst'
    OBVIOUS
  <2>1. EndUpdate
    <3>1. ~UNCHANGED orderVars /\ ~UNCHANGED words
      BY DEF orderVars
    <3>2. Next
      BY <3>1 DEF vars
    <3>. QED
      BY <3>1, <3>2
         DEF Next, Update, RemoveCategory, ChangeRows, GrowRows, ShrinkRows, MatchesChanged, Clear,
             SetQueryString, ResetTree, SetSingleRunner, SetFavoriteIds, RunAction, Run,
             RemoveFromHistory
  <2>2. sorted' = Sorting(matches', categories') /\ favorites' = favorites
    BY <2>1 DEF EndUpdate
  <2>3. /\ categories' \in Seq(Categories) /\ Range(sorted') = Range(categories')
        /\ DOMAIN matches' = Range(categories')
        /\ \A c \in DOMAIN matches' : matches'[c] \in Seq(Match) \ {<<>>}
    BY DEF ResultsInv, ShownInv, TreeTypes
  <2>4. favorites \in Seq(STRING)
    BY FavoritesType DEF ResultsInv, ShownInv
  <2>5. InOrder(matches', sorted')
    BY <2>2, <2>3, <2>4, SortingProperties
  <2>6. \A i \in DOMAIN sorted' : matches'[sorted'[i]] \in Seq(Match) \ {<<>>}
    BY <2>3 DEF Range
  <2>7. ASSUME NEW i \in DOMAIN sorted', NEW j \in DOMAIN sorted', i < j
        PROVE  /\ \A k \in FavoritePlaces(matches', sorted'[j]) :
                        \E l \in FavoritePlaces(matches', sorted'[i]) : l <= k
               /\ FavoritePlaces(matches', sorted'[i]) = FavoritePlaces(matches', sorted'[j]) =>
                    \A m \in Range(matches'[sorted'[j]]) :
                        \E n \in Range(matches'[sorted'[i]]) : IntRelevance(n) >= IntRelevance(m)
    BY <2>4, <2>5, <2>6, <2>7, InOrderBestFirst
  <2>8. \A c : Stars(c)' = FavoritePlaces(matches', c)
    BY <2>2 DEF Stars, FavoritePlaces
  <2>. QED  BY <2>7, <2>8 DEF BestFirst
<1>2. ResultsInv /\ ResultsInv' /\ [Next]_vars => [words' # words => BestFirst']_vars
  BY <1>1
<1>. QED  BY <1>2, ResultsInvariance, PTL DEF Spec, SortedForNewWords
=============================================================================
