---------------------------- MODULE MerkleProofs ----------------------------
(***************************************************************************)
(* The streaming accumulator states the root of the level-by-level tree,   *)
(* for every number of records: its subtrees are the perfect subtrees of   *)
(* that tree, and bagging them from the smallest computes the nodes that   *)
(* are carried at the right edge of every level.                           *)
(***************************************************************************)
EXTENDS Merkle, DataLemmas

\* Halves of a number, rounded down and up.
LEMMA HalfUp ==
    ASSUME NEW c \in Nat, NEW f \in Nat, f <= c, c <= f + 1
    PROVE  f \div 2 <= (c + 1) \div 2 /\ (c + 1) \div 2 <= f \div 2 + 1
OBVIOUS

LEMMA HalfDown ==
    ASSUME NEW c \in Nat \ {0}
    PROVE  (c + 1) \div 2 \in Nat \ {0} /\ (c + 1) \div 2 - 1 = (c - 1) \div 2
OBVIOUS

LEMMA HalfTwice ==
    ASSUME NEW f \in Nat, NEW x \in 1 .. f \div 2
    PROVE  2 * x \in 1 .. f /\ 2 * x - 1 \in 1 .. f
OBVIOUS

LEMMA HalfMonotonic ==
    ASSUME NEW a \in Nat, NEW b \in Nat, a <= b
    PROVE  a \div 2 <= b \div 2
OBVIOUS

LEMMA HalfParity ==
    ASSUME NEW a \in Nat
    PROVE  /\ a % 2 \in {0, 1} /\ a \div 2 \in Nat
           /\ a % 2 = 1 => a = 2 * (a \div 2) + 1 /\ (a + 1) \div 2 = a \div 2 + 1 /\ (a + 1) % 2 = 0
           /\ a % 2 = 0 => a = 2 * (a \div 2) /\ (a + 1) \div 2 = a \div 2 /\ (a + 1) % 2 = 1
OBVIOUS

-----------------------------------------------------------------------------
(* The tree, level by level *)

Leaves(hs) == [i \in 1 .. Len(hs) |-> LeafHash(hs[i])]

\* L is the function by which MerkleRoot computes the first K levels over hs.
Levels(L, hs, K) == L = [k \in 0 .. K |-> IF k = 0 THEN Leaves(hs) ELSE Paired(L[k - 1])]

\* Level k of the tree, and how many of its nodes are roots of perfect subtrees when
\* there are n leaves: a level over one leaf more has one node more than those.
LevelAt(hs, k) == (CHOOSE L : Levels(L, hs, k))[k]
Full(n, k) == Len(LevelAt([i \in 1 .. n + 1 |-> 0], k)) - 1

\* The levels exist.
LEMMA LevelsExist ==
    ASSUME NEW hs, NEW n \in Nat
    PROVE  \E L : Levels(L, hs, n)
<1> DEFINE S == {k \in Nat : \E L : Levels(L, hs, k)}
<1>1. 0 \in S
  <2> DEFINE L == [i \in 0 .. 0 |-> Leaves(hs)]
  <2>1. \A i \in 0 .. 0 : i = 0
    OBVIOUS
  <2>2. Levels(L, hs, 0)
    BY <2>1 DEF Levels
  <2> QED BY <2>2
<1>2. ASSUME NEW k \in Nat, k \in S PROVE k + 1 \in S
  <2>1. PICK L : Levels(L, hs, k)
    BY <1>2
  <2> DEFINE M == [i \in 0 .. k + 1 |-> IF i <= k THEN L[i] ELSE Paired(L[k])]
             N == [i \in 0 .. k + 1 |-> IF i = 0 THEN Leaves(hs) ELSE Paired(M[i - 1])]
  <2>2. ASSUME NEW i \in 0 .. k + 1 PROVE M[i] = N[i]
    <3>1. CASE i = 0
      BY <3>1, <2>1 DEF Levels
    <3>2. CASE i # 0
      <4>1. i - 1 \in 0 .. k /\ i - 1 \in 0 .. k + 1 /\ i - 1 <= k
        BY <3>2
      <4>2. M[i - 1] = L[i - 1]
        BY <4>1
      <4>3. M[i] = Paired(L[i - 1])
        <5>1. CASE i <= k
          <6>1. i \in 0 .. k /\ M[i] = L[i]
            BY <5>1
          <6> HIDE DEF M
          <6> QED BY <2>1, <3>2, <6>1 DEF Levels
        <5>2. CASE i = k + 1
          <6>1. ~(i <= k) /\ i - 1 = k
            BY <5>2
          <6>2. M[i] = Paired(L[k])
            BY <6>1
          <6> HIDE DEF M
          <6> QED BY <6>1, <6>2
        <5> QED BY <5>1, <5>2
      <4>4. N[i] = Paired(M[i - 1])
        <5> HIDE DEF M
        <5> QED BY <3>2
      <4> HIDE DEF M, N
      <4> QED BY <4>2, <4>3, <4>4
    <3> QED BY <3>1, <3>2
  <2>3. M = N
    <3> HIDE DEF M
    <3>1. M = [i \in 0 .. k + 1 |-> M[i]]
      BY DEF M
    <3> QED BY <2>2, <3>1
  <2>4. Levels(M, hs, k + 1)
    <3> HIDE DEF M
    <3> QED BY <2>3 DEF Levels
  <2> HIDE DEF M
  <2> QED BY <2>4
<1>3. Nat \subseteq S
  <2> HIDE DEF S
  <2> QED BY <1>1, <1>2, InductionOnNat
<1> QED BY <1>3

\* The first levels do not depend on how many are computed.
LEMMA LevelsAgree ==
    ASSUME NEW hs, NEW K \in Nat, NEW J \in 0 .. K, NEW f, NEW g,
           Levels(f, hs, K), Levels(g, hs, J)
    PROVE  g[J] = f[J]
<1> DEFINE S == {i \in Nat : i <= J => g[i] = f[i]}
<1>1. 0 \in S
  BY DEF Levels
<1>2. ASSUME NEW i \in Nat, i \in S PROVE i + 1 \in S
  <2> SUFFICES ASSUME i + 1 <= J PROVE g[i + 1] = f[i + 1]
    OBVIOUS
  <2>1. g[i] = f[i] /\ i + 1 \in 0 .. J /\ i + 1 \in 0 .. K /\ i + 1 # 0 /\ (i + 1) - 1 = i
    BY <1>2
  <2>2. g[i + 1] = Paired(g[i])
    BY <2>1 DEF Levels
  <2>3. f[i + 1] = Paired(f[i])
    BY <2>1 DEF Levels
  <2> QED BY <2>1, <2>2, <2>3
<1>3. Nat \subseteq S
  <2> HIDE DEF S
  <2> QED BY <1>1, <1>2, InductionOnNat
<1> QED BY <1>3

\* The levels, one at a time.
LEMMA LevelStep ==
    ASSUME NEW hs, NEW k \in Nat
    PROVE  LevelAt(hs, 0) = Leaves(hs) /\ LevelAt(hs, k + 1) = Paired(LevelAt(hs, k))
<1> DEFINE C(j) == CHOOSE L : Levels(L, hs, j)
<1>1. ASSUME NEW j \in Nat PROVE Levels(C(j), hs, j)
  BY LevelsExist
<1>2. \A j \in Nat : LevelAt(hs, j) = C(j)[j]
  BY DEF LevelAt
<1> HIDE DEF C
<1>3. C(0)[0] = Leaves(hs)
  BY <1>1 DEF Levels
<1>4. k + 1 \in Nat /\ k \in 0 .. k + 1 /\ k + 1 \in 0 .. k + 1 /\ k + 1 # 0 /\ (k + 1) - 1 = k
  OBVIOUS
<1>5. C(k + 1)[k + 1] = Paired(C(k + 1)[k])
  <2>1. Levels(C(k + 1), hs, k + 1)
    BY <1>1, <1>4
  <2> QED BY <2>1, <1>4 DEF Levels
<1>6. C(k)[k] = C(k + 1)[k]
  BY <1>1, <1>4, LevelsAgree
<1> QED BY <1>2, <1>3, <1>4, <1>5, <1>6

\* MerkleRoot is the only node of the last one.
LEMMA MerkleRootIs ==
    ASSUME NEW hs, hs # <<>>
    PROVE  MerkleRoot(hs) = LevelAt(hs, Len(hs))[1]
BY DEF MerkleRoot, LevelAt, Levels, Leaves

\* Every level is half as long as the one below, rounded up.
LEMMA LevelLength ==
    ASSUME NEW hs, Len(hs) \in Nat, NEW k \in Nat
    PROVE  /\ Len(LevelAt(hs, k)) \in Nat
           /\ Len(LevelAt(hs, 0)) = Len(hs)
           /\ Len(LevelAt(hs, k + 1)) = (Len(LevelAt(hs, k)) + 1) \div 2
<1> DEFINE S == {j \in Nat : Len(LevelAt(hs, j)) \in Nat}
<1>0. Len(LevelAt(hs, 0)) = Len(hs)
  BY LevelStep DEF Leaves
<1>1. ASSUME NEW j \in Nat, Len(LevelAt(hs, j)) \in Nat
      PROVE  Len(LevelAt(hs, j + 1)) = (Len(LevelAt(hs, j)) + 1) \div 2
  <2>1. LevelAt(hs, j + 1) = Paired(LevelAt(hs, j))
    BY LevelStep
  <2> QED BY <1>1, <2>1 DEF Paired
<1>2. 0 \in S
  BY <1>0
<1>3. ASSUME NEW j \in Nat, j \in S PROVE j + 1 \in S
  BY <1>1, <1>3
<1>4. Nat \subseteq S
  <2> HIDE DEF S
  <2> QED BY <1>2, <1>3, InductionOnNat
<1> QED BY <1>0, <1>1, <1>4

\* The perfect subtrees of one height more are half as many, rounded down.
LEMMA FullStep ==
    ASSUME NEW n \in Nat, NEW k \in Nat
    PROVE  Full(n, k) \in Nat /\ Full(n, 0) = n /\ Full(n, k + 1) = Full(n, k) \div 2
<1> DEFINE z == [i \in 1 .. n + 1 |-> 0]
           S == {j \in Nat : Len(LevelAt(z, j)) \in Nat \ {0}}
<1>0. Len(z) = n + 1 /\ Len(z) \in Nat
  OBVIOUS
<1> HIDE DEF z
<1>1. \A j \in Nat : /\ Len(LevelAt(z, j)) \in Nat
                     /\ Len(LevelAt(z, 0)) = n + 1
                     /\ Len(LevelAt(z, j + 1)) = (Len(LevelAt(z, j)) + 1) \div 2
  BY <1>0, LevelLength
<1>2. 0 \in S
  BY <1>1
<1>3. ASSUME NEW j \in Nat, j \in S PROVE j + 1 \in S
  BY <1>1, <1>3
<1>4. Nat \subseteq S
  <2> HIDE DEF S
  <2> QED BY <1>2, <1>3, InductionOnNat
<1>5. Full(n, k) = Len(LevelAt(z, k)) - 1 /\ Full(n, 0) = Len(LevelAt(z, 0)) - 1
      /\ Full(n, k + 1) = Len(LevelAt(z, k + 1)) - 1
  BY DEF Full, z
<1> DEFINE c == Len(LevelAt(z, k))
<1>6. c \in Nat \ {0} /\ Len(LevelAt(z, k + 1)) = (c + 1) \div 2
  BY <1>1, <1>4
<1>7. Len(LevelAt(z, 0)) = n + 1
  BY <1>1
<1> HIDE DEF c
<1>8. (c + 1) \div 2 - 1 = (c - 1) \div 2 /\ c - 1 \in Nat
  BY <1>6, HalfDown
<1>9. Full(n, k) = c - 1 /\ Full(n, k + 1) = (c + 1) \div 2 - 1 /\ Full(n, 0) = n
  BY <1>5, <1>6, <1>7 DEF c
<1> QED BY <1>8, <1>9

\* There is none of height n or more.
LEMMA FullEnds ==
    ASSUME NEW n \in Nat
    PROVE  Full(n, n) = 0
<1> DEFINE S == {k \in Nat : Full(n, k) > 0 => Full(n, k) + k <= n}
<1>1. 0 \in S
  BY FullStep
<1>2. ASSUME NEW k \in Nat, k \in S PROVE k + 1 \in S
  <2>1. Full(n, k) \in Nat /\ Full(n, k + 1) = Full(n, k) \div 2
    BY FullStep
  <2> QED BY <1>2, <2>1
<1>3. Nat \subseteq S
  <2> HIDE DEF S
  <2> QED BY <1>1, <1>2, InductionOnNat
<1>4. Full(n, n) \in Nat
  BY FullStep
<1> QED BY <1>3, <1>4

\* A level has the perfect subtrees and at most one node more.
LEMMA FullInLevel ==
    ASSUME NEW hs, Len(hs) \in Nat, NEW k \in Nat
    PROVE  /\ Full(Len(hs), k) \in Nat /\ Len(LevelAt(hs, k)) \in Nat
           /\ Full(Len(hs), k) <= Len(LevelAt(hs, k))
           /\ Len(LevelAt(hs, k)) <= Full(Len(hs), k) + 1
<1> DEFINE n == Len(hs)
           S == {j \in Nat : Full(n, j) <= Len(LevelAt(hs, j))
                             /\ Len(LevelAt(hs, j)) <= Full(n, j) + 1}
<1> HIDE DEF n
<1>0. n \in Nat
  BY DEF n
<1>1. \A j \in Nat : /\ Len(LevelAt(hs, j)) \in Nat /\ Len(LevelAt(hs, 0)) = n
                     /\ Len(LevelAt(hs, j + 1)) = (Len(LevelAt(hs, j)) + 1) \div 2
  BY LevelLength DEF n
<1>2. \A j \in Nat : Full(n, j) \in Nat /\ Full(n, 0) = n /\ Full(n, j + 1) = Full(n, j) \div 2
  BY <1>0, FullStep
<1>3. 0 \in S
  <2>1. Len(LevelAt(hs, 0)) = n /\ Full(n, 0) = n
    BY <1>1, <1>2
  <2> QED BY <1>0, <2>1
<1>4. ASSUME NEW j \in Nat, j \in S PROVE j + 1 \in S
  <2> DEFINE c == Len(LevelAt(hs, j))  f == Full(n, j)
  <2>1. c \in Nat /\ f \in Nat /\ f <= c /\ c <= f + 1
    BY <1>1, <1>2, <1>4
  <2>2. Len(LevelAt(hs, j + 1)) = (c + 1) \div 2 /\ Full(n, j + 1) = f \div 2
    BY <1>1, <1>2
  <2> HIDE DEF c, f
  <2>3. f \div 2 <= (c + 1) \div 2 /\ (c + 1) \div 2 <= f \div 2 + 1
    BY <2>1, HalfUp
  <2> QED BY <2>2, <2>3
<1>5. Nat \subseteq S
  <2> HIDE DEF S
  <2> QED BY <1>3, <1>4, InductionOnNat
<1> QED BY <1>1, <1>2, <1>5 DEF n

\* A later leaf changes no perfect subtree.
LEMMA PerfectStays ==
    ASSUME NEW A, NEW hs \in Seq(A), NEW h \in A, NEW k \in Nat, NEW i \in 1 .. Full(Len(hs), k)
    PROVE  LevelAt(Append(hs, h), k)[i] = LevelAt(hs, k)[i]
<1> DEFINE n == Len(hs)  hh == Append(hs, h)
           S == {j \in Nat : \A x \in 1 .. Full(n, j) : LevelAt(hh, j)[x] = LevelAt(hs, j)[x]}
<1>0. n \in Nat /\ Len(hh) = n + 1 /\ \A x \in 1 .. n : hh[x] = hs[x]
  OBVIOUS
<1> HIDE DEF hh
<1>1. 0 \in S
  <2>1. LevelAt(hh, 0) = Leaves(hh) /\ LevelAt(hs, 0) = Leaves(hs) /\ Full(n, 0) = n
    <3> HIDE DEF n
    <3> QED BY <1>0, LevelStep, FullStep
  <2> QED BY <1>0, <2>1 DEF Leaves
<1> DEFINE len(s, j) == Len(LevelAt(s, j))
<1>2. ASSUME NEW j \in Nat
      PROVE  /\ Full(n, j) \in Nat /\ Full(n, j + 1) = Full(n, j) \div 2
             /\ len(hs, j) \in Nat /\ Full(n, j) <= len(hs, j)
             /\ len(hh, j) \in Nat /\ Full(n, j) <= len(hh, j)
  <2>1. n \in Nat /\ n + 1 \in Nat /\ Len(hh) = n + 1
    BY <1>0
  <2>2. Full(n, j) \in Nat /\ Full(n, j + 1) = Full(n, j) \div 2
    <3> HIDE DEF n
    <3> QED BY <2>1, FullStep
  <2>3. len(hs, j) \in Nat /\ Full(n, j) <= len(hs, j)
    BY FullInLevel
  <2>4. len(hh, j) \in Nat /\ Full(n + 1, j) <= len(hh, j) /\ Full(n + 1, j) \in Nat
    <3> HIDE DEF n
    <3> QED BY <2>1, FullInLevel
  <2>5. Full(n, j) <= Full(n + 1, j)
    <3> HIDE DEF n
    <3> DEFINE U == {x \in Nat : Full(n, x) <= Full(n + 1, x)}
    <3>1. \A x \in Nat : /\ Full(n, x) \in Nat /\ Full(n, x + 1) = Full(n, x) \div 2
                         /\ Full(n + 1, x) \in Nat /\ Full(n + 1, x + 1) = Full(n + 1, x) \div 2
                         /\ Full(n, 0) = n /\ Full(n + 1, 0) = n + 1
      BY <2>1, FullStep
    <3>2. 0 \in U
      BY <2>1, <3>1
    <3>3. ASSUME NEW x \in Nat, x \in U PROVE x + 1 \in U
      <4>1. Full(n, x) \div 2 <= Full(n + 1, x) \div 2
        BY <3>1, <3>3, HalfMonotonic
      <4> QED BY <3>1, <4>1
    <3>4. Nat \subseteq U
      <4> HIDE DEF U
      <4> QED BY <3>2, <3>3, InductionOnNat
    <3> QED BY <3>4
  <2> HIDE DEF len, n
  <2> QED BY <2>1, <2>2, <2>3, <2>4, <2>5
<1>3. ASSUME NEW j \in Nat, j \in S PROVE j + 1 \in S
  <2> SUFFICES ASSUME NEW x \in 1 .. Full(n, j + 1)
               PROVE  LevelAt(hh, j + 1)[x] = LevelAt(hs, j + 1)[x]
    OBVIOUS
  <2> DEFINE a == LevelAt(hh, j)  b == LevelAt(hs, j)
  <2>1. LevelAt(hh, j + 1) = Paired(a) /\ LevelAt(hs, j + 1) = Paired(b)
    BY LevelStep
  <2>2. /\ 2 * x - 1 \in 1 .. Full(n, j) /\ 2 * x \in 1 .. Full(n, j)
        /\ x \in Nat \ {0} /\ 2 * x <= Len(a) /\ 2 * x <= Len(b) /\ Len(a) \in Nat /\ Len(b) \in Nat
    <3> DEFINE f == Full(n, j)
    <3>1. f \in Nat /\ x \in 1 .. f \div 2 /\ Len(a) \in Nat /\ Len(b) \in Nat
          /\ f <= Len(a) /\ f <= Len(b)
      BY <1>2
    <3> HIDE DEF f, a, b
    <3>2. 2 * x \in 1 .. f /\ 2 * x - 1 \in 1 .. f
      BY <3>1, HalfTwice
    <3>3. 2 * x <= f /\ x \in Nat \ {0} /\ 2 * x \in Nat
      BY <3>1, <3>2
    <3>4. 2 * x <= Len(a) /\ 2 * x <= Len(b)
      BY <3>1, <3>3
    <3> QED BY <3>1, <3>2, <3>3, <3>4 DEF f
  <2>3. a[2 * x - 1] = b[2 * x - 1] /\ a[2 * x] = b[2 * x]
    BY <1>3, <2>2
  <2> HIDE DEF a, b, n
  <2>4. Paired(a)[x] = NodeHash(a[2 * x - 1], a[2 * x])
    BY <2>2 DEF Paired
  <2>5. Paired(b)[x] = NodeHash(b[2 * x - 1], b[2 * x])
    BY <2>2 DEF Paired
  <2> QED BY <2>1, <2>3, <2>4, <2>5
<1>4. Nat \subseteq S
  <2> HIDE DEF S
  <2> QED BY <1>1, <1>3, InductionOnNat
<1> QED BY <1>4 DEF hh

-----------------------------------------------------------------------------
(* The next leaf *)

\* One leaf more is a carry: it fills the heights below the first even one.
LEMMA FullCarries ==
    ASSUME NEW n \in Nat, NEW m \in Nat, Full(n, m) % 2 = 0,
           \A k \in 0 .. m - 1 : Full(n, k) % 2 = 1
    PROVE  \A k \in Nat : Full(n + 1, k) = IF k <= m THEN Full(n, k) + 1 ELSE Full(n, k)
<1> DEFINE S == {k \in Nat : Full(n + 1, k) = IF k <= m THEN Full(n, k) + 1 ELSE Full(n, k)}
<1>0. n + 1 \in Nat
  OBVIOUS
<1>1. \A k \in Nat : /\ Full(n, k) \in Nat /\ Full(n, k + 1) = Full(n, k) \div 2
                     /\ Full(n + 1, k) \in Nat /\ Full(n + 1, k + 1) = Full(n + 1, k) \div 2
  BY <1>0, FullStep
<1>2. 0 \in S
  <2>1. Full(n, 0) = n /\ Full(n + 1, 0) = n + 1
    BY FullStep
  <2> QED BY <2>1
<1>3. ASSUME NEW k \in Nat, k \in S PROVE k + 1 \in S
  <2> DEFINE a == Full(n, k)  b == Full(n + 1, k)
  <2>1. a \in Nat /\ b \in Nat /\ Full(n, k + 1) = a \div 2 /\ Full(n + 1, k + 1) = b \div 2
    BY <1>1
  <2>2. b = (IF k <= m THEN a + 1 ELSE a) /\ (k < m => a % 2 = 1) /\ (k = m => a % 2 = 0)
    BY <1>3
  <2> HIDE DEF a, b
  <2>3. (a % 2 = 1 => (a + 1) \div 2 = a \div 2 + 1) /\ (a % 2 = 0 => (a + 1) \div 2 = a \div 2)
    BY <2>1, HalfParity
  <2>4. CASE k < m
    <3>1. k + 1 <= m /\ k <= m
      BY <2>4
    <3> QED BY <2>1, <2>2, <2>3, <2>4, <3>1
  <2>5. CASE k = m
    <3>1. ~(k + 1 <= m) /\ k <= m
      BY <2>5
    <3> QED BY <2>1, <2>2, <2>3, <2>5, <3>1
  <2>6. CASE k > m
    <3>1. ~(k + 1 <= m) /\ ~(k <= m)
      BY <2>6
    <3> QED BY <2>1, <2>2, <3>1
  <2> QED BY <2>4, <2>5, <2>6
<1>4. Nat \subseteq S
  <2> HIDE DEF S
  <2> QED BY <1>2, <1>3, InductionOnNat
<1> QED BY <1>4

\* f is the function by which Push merges m subtrees of s with the leaf b.
Nodes(f, s, b, m) ==
    f = [k \in 0 .. m |-> IF k = 0 THEN b ELSE NodeHash(FromEnd(s, k), f[k - 1])]

\* f is the function by which AccRoot bags the subtrees s.
Bagged(f, s) ==
    f = [k \in 1 .. Len(s) |-> IF k = 1 THEN FromEnd(s, 1)
                               ELSE NodeHash(FromEnd(s, k), f[k - 1])]

\* Both exist.
LEMMA NodesExist ==
    ASSUME NEW s, NEW b, NEW n \in Nat
    PROVE  \E f : Nodes(f, s, b, n)
<1> DEFINE S == {k \in Nat : \E f : Nodes(f, s, b, k)}
<1>1. 0 \in S
  <2> DEFINE f == [i \in 0 .. 0 |-> b]
  <2>1. \A i \in 0 .. 0 : i = 0
    OBVIOUS
  <2>2. Nodes(f, s, b, 0)
    BY <2>1 DEF Nodes
  <2> QED BY <2>2
<1>2. ASSUME NEW k \in Nat, k \in S PROVE k + 1 \in S
  <2>1. PICK f : Nodes(f, s, b, k)
    BY <1>2
  <2> DEFINE e == NodeHash(FromEnd(s, k + 1), f[k])
             g == [i \in 0 .. k + 1 |-> IF i <= k THEN f[i] ELSE e]
             h == [i \in 0 .. k + 1 |-> IF i = 0 THEN b ELSE NodeHash(FromEnd(s, i), g[i - 1])]
  <2>2. ASSUME NEW i \in 0 .. k + 1 PROVE g[i] = h[i]
    <3>1. CASE i = 0
      BY <3>1, <2>1 DEF Nodes
    <3>2. CASE i # 0
      <4>1. i - 1 \in 0 .. k /\ i - 1 \in 0 .. k + 1 /\ i - 1 <= k
        BY <3>2
      <4>2. g[i - 1] = f[i - 1]
        BY <4>1
      <4>3. g[i] = NodeHash(FromEnd(s, i), f[i - 1])
        <5>1. CASE i <= k
          <6>1. i \in 0 .. k /\ g[i] = f[i]
            BY <5>1
          <6> HIDE DEF g
          <6> QED BY <2>1, <3>2, <6>1 DEF Nodes
        <5>2. CASE i = k + 1
          <6>1. ~(i <= k) /\ i - 1 = k
            BY <5>2
          <6>2. g[i] = e
            <7> HIDE DEF e
            <7> QED BY <6>1
          <6> HIDE DEF g
          <6> QED BY <5>2, <6>1, <6>2
        <5> QED BY <5>1, <5>2
      <4>4. h[i] = NodeHash(FromEnd(s, i), g[i - 1])
        <5> HIDE DEF g
        <5> QED BY <3>2
      <4> HIDE DEF g, h
      <4> QED BY <4>2, <4>3, <4>4
    <3> QED BY <3>1, <3>2
  <2>3. g = h
    <3> HIDE DEF g
    <3>1. g = [i \in 0 .. k + 1 |-> g[i]]
      BY DEF g
    <3> QED BY <2>2, <3>1
  <2>4. Nodes(g, s, b, k + 1)
    <3> HIDE DEF g
    <3> QED BY <2>3 DEF Nodes
  <2> HIDE DEF g
  <2> QED BY <2>4
<1>3. Nat \subseteq S
  <2> HIDE DEF S
  <2> QED BY <1>1, <1>2, InductionOnNat
<1> QED BY <1>3

LEMMA BaggedExists ==
    ASSUME NEW U, NEW s \in Seq(U), s # <<>>
    PROVE  \E f : Bagged(f, s)
<1> DEFINE l == Len(s)  r == SubSeq(s, 1, l - 1)
<1>0. l \in Nat /\ l # 0
  BY EmptySeq
<1>1. l \in Nat /\ l >= 1 /\ l - 1 \in Nat /\ Len(r) = l - 1 /\ \A k \in 1 .. l - 1 : r[k] = s[k]
  <2>1. l - 1 \in Nat /\ l - 1 <= Len(s) /\ l >= 1
    BY <1>0
  <2>2. Len(r) = l - 1 /\ \A k \in 1 .. l - 1 : r[k] = s[k]
    BY <1>0, <2>1
  <2> QED BY <1>0, <2>1, <2>2
<1>2. \A k \in 1 .. l - 1 : FromEnd(r, k) = FromEnd(s, k + 1)
  <2> HIDE DEF r
  <2> QED BY <1>1 DEF FromEnd
<1> HIDE DEF r
<1>3. PICK f : Nodes(f, r, FromEnd(s, 1), l - 1)
  <2> DEFINE b == FromEnd(s, 1)  m == l - 1
  <2>1. m \in Nat
    BY <1>1
  <2> HIDE DEF b, m
  <2> QED BY <2>1, NodesExist DEF b, m
<1> DEFINE g == [k \in 1 .. l |-> f[k - 1]]
           h == [k \in 1 .. l |-> IF k = 1 THEN FromEnd(s, 1) ELSE NodeHash(FromEnd(s, k), g[k - 1])]
<1>4. ASSUME NEW k \in 1 .. l PROVE g[k] = h[k]
  <2>1. g[k] = f[k - 1] /\ k - 1 \in 0 .. l - 1
    BY <1>1
  <2>2. CASE k = 1
    <3>1. f[0] = FromEnd(s, 1)
      BY <1>1, <1>3 DEF Nodes
    <3>2. h[k] = FromEnd(s, 1)
      BY <2>2
    <3> QED BY <2>1, <2>2, <3>1, <3>2
  <2>3. CASE k # 1
    <3>1. k - 1 \in 1 .. l - 1 /\ k - 1 \in 1 .. l /\ (k - 1) + 1 = k /\ k - 1 # 0
      BY <1>1, <2>3
    <3>2. f[k - 1] = NodeHash(FromEnd(r, k - 1), f[(k - 1) - 1])
      BY <1>3, <2>1, <3>1 DEF Nodes
    <3>3. g[k - 1] = f[(k - 1) - 1]
      BY <3>1
    <3>4. h[k] = NodeHash(FromEnd(s, k), g[k - 1])
      <4> HIDE DEF g
      <4> QED BY <2>3
    <3>5. FromEnd(r, k - 1) = FromEnd(s, k)
      BY <1>2, <3>1
    <3> HIDE DEF g, h
    <3> QED BY <2>1, <3>2, <3>3, <3>4, <3>5
  <2> QED BY <2>2, <2>3
<1>5. g = h
  <2> HIDE DEF g
  <2>1. g = [k \in 1 .. l |-> g[k]]
    BY DEF g
  <2> QED BY <1>4, <2>1
<1>6. Bagged(g, s)
  <2> HIDE DEF g
  <2> QED BY <1>5 DEF Bagged
<1> HIDE DEF g
<1> QED BY <1>6

\* What Push and AccRoot compute with them.
LEMMA PushIs ==
    ASSUME NEW acc, NEW h, Merges(acc) \in Nat
    PROVE  \E f : /\ Nodes(f, acc.subtrees, LeafHash(h), Merges(acc))
                  /\ Push(acc, h) =
                       [subtrees |-> Append(SubSeq(acc.subtrees, 1, Len(acc.subtrees) - Merges(acc)),
                                            f[Merges(acc)]),
                        heights |-> Append(SubSeq(acc.heights, 1, Len(acc.subtrees) - Merges(acc)),
                                           Merges(acc)),
                        n |-> acc.n + 1]
<1> DEFINE s == acc.subtrees  b == LeafHash(h)  m == Merges(acc)
           F == CHOOSE f : Nodes(f, s, b, m)
<1>1. Nodes(F, s, b, m)
  <2> HIDE DEF s, b, m
  <2> QED BY NodesExist DEF m
<1>2. Push(acc, h) = [subtrees |-> Append(SubSeq(s, 1, Len(s) - m), F[m]),
                      heights |-> Append(SubSeq(acc.heights, 1, Len(s) - m), m),
                      n |-> acc.n + 1]
  BY DEF Push, Nodes
<1> QED BY <1>1, <1>2

LEMMA AccRootIs ==
    ASSUME NEW acc, NEW U, acc.subtrees \in Seq(U), acc.subtrees # <<>>, acc.n # 0
    PROVE  \E f : Bagged(f, acc.subtrees) /\ AccRoot(acc) = f[Len(acc.subtrees)]
<1> DEFINE F == CHOOSE f : Bagged(f, acc.subtrees)
<1>1. Bagged(F, acc.subtrees)
  BY BaggedExists
<1>2. AccRoot(acc) = F[Len(acc.subtrees)]
  BY DEF AccRoot, Bagged
<1> QED BY <1>1, <1>2

-----------------------------------------------------------------------------
(* The accumulator *)

(***************************************************************************)
(* The accumulator after the records hs: its subtrees, read from the       *)
(* smallest, are the last perfect subtree of every height that has an odd  *)
(* number of them, and of no other height.                                 *)
(***************************************************************************)
PerfectSubtrees(acc, hs) ==
    /\ acc.n = Len(hs)
    /\ \E U : acc.subtrees \in Seq(U)
    /\ acc.heights \in Seq(Nat)
    /\ Len(acc.heights) = Len(acc.subtrees)
    /\ \A i, j \in 1 .. Len(acc.heights) :
          i < j => FromEnd(acc.heights, i) < FromEnd(acc.heights, j)
    /\ \A k \in Nat : Full(Len(hs), k) % 2 = 1
                      <=> \E j \in 1 .. Len(acc.heights) : FromEnd(acc.heights, j) = k
    /\ \A j \in 1 .. Len(acc.heights) :
          FromEnd(acc.subtrees, j)
            = LevelAt(hs, FromEnd(acc.heights, j))[Full(Len(hs), FromEnd(acc.heights, j))]

\* Before the first record.
LEMMA EmptyPerfect == PerfectSubtrees(EmptyAcc, <<>>)
<1>1. Len(<<>>) = 0 /\ \A U : <<>> \in Seq(U)
  BY EmptySeq
<1> DEFINE S == {k \in Nat : Full(0, k) = 0}
<1>2. 0 \in S
  BY FullStep
<1>3. ASSUME NEW k \in Nat, k \in S PROVE k + 1 \in S
  <2>1. Full(0, k + 1) = Full(0, k) \div 2 /\ Full(0, k) = 0
    BY <1>3, FullStep
  <2> QED BY <2>1
<1>4. Nat \subseteq S
  <2> HIDE DEF S
  <2> QED BY <1>2, <1>3, InductionOnNat
<1>5. \A k \in Nat : Full(0, k) % 2 # 1
  BY <1>4
<1> QED BY <1>1, <1>5 DEF PerfectSubtrees, EmptyAcc

\* A height read from the end is a number.
LEMMA HeightIs ==
    ASSUME NEW s \in Seq(Nat), NEW j \in 1 .. Len(s)
    PROVE  FromEnd(s, j) \in Nat
<1>1. Len(s) + 1 - j \in 1 .. Len(s)
  OBVIOUS
<1> QED BY <1>1 DEF FromEnd

\* The subtrees a leaf merges with are those of the heights the carry passes.
LEMMA MergesCarry ==
    ASSUME NEW acc, NEW hs, Len(hs) \in Nat, PerfectSubtrees(acc, hs)
    PROVE  /\ Merges(acc) \in 0 .. Len(acc.heights)
           /\ \A i \in 1 .. Merges(acc) : FromEnd(acc.heights, i) = i - 1
           /\ Full(Len(hs), Merges(acc)) % 2 = 0
           /\ \A k \in 0 .. Merges(acc) - 1 : Full(Len(hs), k) % 2 = 1
<1> DEFINE l == Len(acc.heights)
           e(j) == FromEnd(acc.heights, j)
           run(k) == \A i \in 1 .. k : e(i) = i - 1
           T == {d \in Nat : d <= l /\ run(l - d)}
           m == Merges(acc)
<1>0. l \in Nat
  BY DEF PerfectSubtrees
<1>a. \A j \in 1 .. l : e(j) \in Nat
  BY HeightIs DEF PerfectSubtrees
<1>b. \A i, j \in 1 .. l : i < j => e(i) < e(j)
  BY DEF PerfectSubtrees
<1>c. \A k \in Nat : Full(Len(hs), k) % 2 = 1 <=> \E j \in 1 .. l : e(j) = k
  BY DEF PerfectSubtrees
<1>d. m = CHOOSE k \in 0 .. l : run(k) /\ \A j \in 0 .. l : run(j) => j <= k
  BY DEF Merges
<1> HIDE DEF l, e
<1>1. T # {}
  <2>1. l - l = 0 /\ 1 .. 0 = {}
    BY <1>0
  <2>2. run(l - l)
    BY <2>1
  <2>3. l \in T
    <3> HIDE DEF run
    <3> QED BY <1>0, <2>2
  <2> QED BY <2>3
<1>2. PICK d \in T : \A x \in T : d <= x
  <2>1. T \in SUBSET Nat
    OBVIOUS
  <2> HIDE DEF T
  <2> QED BY <1>1, <2>1, LeastNat
<1> HIDE DEF run
<1>3. l - d \in 0 .. l /\ run(l - d) /\ \A j \in 0 .. l : run(j) => j <= l - d
  <2>1. d \in Nat /\ d <= l /\ run(l - d)
    OBVIOUS
  <2>2. ASSUME NEW j \in 0 .. l, run(j) PROVE j <= l - d
    <3>1. l - j \in Nat /\ l - j <= l /\ l - (l - j) = j
      BY <1>0
    <3>2. l - j \in T
      BY <2>2, <3>1
    <3>3. d <= l - j
      BY <1>2, <3>2
    <3> QED BY <1>0, <2>1, <3>3
  <2>3. l - d \in 0 .. l
    BY <1>0, <2>1
  <2> QED BY <2>1, <2>2, <2>3
<1>4. m \in 0 .. l /\ run(m) /\ \A j \in 0 .. l : run(j) => j <= m
  <2> DEFINE q == l - d
  <2>1. q \in 0 .. l /\ run(q) /\ \A j \in 0 .. l : run(j) => j <= q
    BY <1>3
  <2> HIDE DEF m, q
  <2> QED BY <1>d, <2>1
<1> HIDE DEF m
<1>5. \A i \in 1 .. m : e(i) = i - 1
  BY <1>4 DEF run
<1>6. ASSUME NEW k \in 0 .. m - 1 PROVE Full(Len(hs), k) % 2 = 1
  <2>1. k \in Nat /\ k + 1 \in 1 .. m /\ k + 1 \in 1 .. l
    BY <1>0, <1>4
  <2>2. e(k + 1) = k
    BY <1>5, <2>1
  <2> QED BY <1>c, <2>1, <2>2
<1>7. Full(Len(hs), m) % 2 # 1
  <2> SUFFICES ASSUME Full(Len(hs), m) % 2 = 1 PROVE FALSE
    OBVIOUS
  <2>0. m \in Nat /\ m <= l
    BY <1>0, <1>4
  <2>1. PICK j \in 1 .. l : e(j) = m
    BY <1>c, <2>0
  <2>2. j > m
    <3> SUFFICES ASSUME j <= m PROVE FALSE
      BY <1>0, <2>0
    <3>1. j \in 1 .. m /\ e(j) = j - 1
      BY <1>0, <1>5, <2>0
    <3> QED BY <2>0, <2>1, <3>1
  <2>3. m + 1 \in 1 .. l /\ m + 1 <= j /\ m + 1 \in 0 .. l
    BY <1>0, <2>0, <2>2
  <2>4. e(m + 1) <= m /\ e(m + 1) \in Nat
    <3>1. e(m + 1) \in Nat
      BY <1>a, <2>3
    <3>2. CASE m + 1 = j
      BY <2>0, <2>1, <3>2
    <3>3. CASE m + 1 # j
      <4>1. m + 1 < j
        BY <2>0, <2>3, <3>3
      <4>2. e(m + 1) < m
        BY <1>b, <2>1, <2>3, <4>1
      <4> QED BY <2>0, <3>1, <4>2
    <3> QED BY <3>1, <3>2, <3>3
  <2>5. e(m + 1) >= m
    <3>1. CASE m = 0
      BY <2>4, <3>1
    <3>2. CASE m # 0
      <4>1. m \in 1 .. m /\ m \in 1 .. l /\ m < m + 1
        BY <1>0, <2>0, <3>2
      <4>2. e(m) = m - 1
        BY <1>5, <4>1
      <4>3. e(m) < e(m + 1)
        BY <1>b, <2>3, <4>1
      <4> QED BY <2>0, <2>4, <4>2, <4>3
    <3> QED BY <3>1, <3>2
  <2>6. e(m + 1) = m
    BY <2>0, <2>4, <2>5
  <2>7. run(m + 1)
    <3> SUFFICES ASSUME NEW i \in 1 .. m + 1 PROVE e(i) = i - 1
      BY DEF run
    <3>1. CASE i = m + 1
      BY <2>0, <2>6, <3>1
    <3>2. CASE i # m + 1
      <4>1. i \in 1 .. m
        BY <2>0, <3>2
      <4> QED BY <1>5, <4>1
    <3> QED BY <3>1, <3>2
  <2>8. m + 1 <= m
    BY <1>4, <2>3, <2>7
  <2> QED BY <2>0, <2>8
<1>8. Full(Len(hs), m) % 2 = 0
  <2>1. m \in Nat
    BY <1>0, <1>4
  <2>2. Full(Len(hs), m) \in Nat
    BY <2>1, FullStep
  <2>3. Full(Len(hs), m) % 2 \in {0, 1}
    BY <2>2, HalfParity
  <2> QED BY <1>7, <2>3
<1> QED BY <1>4, <1>5, <1>6, <1>8 DEF m, l, e

\* The stack after m entries are replaced by one.
LEMMA FromEndPush ==
    ASSUME NEW U, NEW s \in Seq(U), NEW x, NEW m \in 0 .. Len(s)
    PROVE  LET t == Append(SubSeq(s, 1, Len(s) - m), x)
           IN  /\ t \in Seq(U \cup {x}) /\ Len(t) = (Len(s) - m) + 1 /\ FromEnd(t, 1) = x
               /\ \A j \in 2 .. Len(t) : FromEnd(t, j) = FromEnd(s, (j - 1) + m)
<1> DEFINE l == Len(s)  p == SubSeq(s, 1, l - m)  t == Append(p, x)
<1>0. l \in Nat /\ m \in Nat /\ m <= l /\ l - m \in Nat /\ l - m <= l
  OBVIOUS
<1>1. p \in Seq(U) /\ Len(p) = l - m /\ \A k \in 1 .. l - m : p[k] = s[k]
  BY <1>0
<1>2. p \in Seq(U \cup {x})
  <2> HIDE DEF p
  <2> QED BY <1>1
<1> HIDE DEF p
<1>3. t \in Seq(U \cup {x}) /\ Len(t) = (l - m) + 1 /\ t[(l - m) + 1] = x
      /\ \A k \in 1 .. l - m : t[k] = p[k]
  BY <1>0, <1>1, <1>2
<1> HIDE DEF t
<1>4. FromEnd(t, 1) = x
  <2>1. ((l - m) + 1) + 1 - 1 = (l - m) + 1
    BY <1>0
  <2> QED BY <1>3, <2>1 DEF FromEnd
<1>5. ASSUME NEW j \in 2 .. Len(t) PROVE FromEnd(t, j) = FromEnd(s, (j - 1) + m)
  <2>1. j \in 2 .. (l - m) + 1
    BY <1>3
  <2>2. /\ ((l - m) + 1) + 1 - j \in 1 .. l - m
        /\ ((l - m) + 1) + 1 - j = l + 1 - ((j - 1) + m)
    <3> HIDE DEF l
    <3> QED BY <1>0, <2>1
  <2>3. FromEnd(t, j) = t[((l - m) + 1) + 1 - j]
    BY <1>3 DEF FromEnd
  <2>4. FromEnd(s, (j - 1) + m) = s[l + 1 - ((j - 1) + m)]
    BY DEF FromEnd
  <2> HIDE DEF l
  <2> QED BY <1>1, <1>3, <2>2, <2>3, <2>4
<1> QED BY <1>3, <1>4, <1>5 DEF t, p

\* The node the new leaf becomes is the last perfect subtree of its height.
LEMMA NodeIsPerfect ==
    ASSUME NEW A, NEW hs \in Seq(A), NEW h \in A, NEW acc, PerfectSubtrees(acc, hs),
           NEW f, Nodes(f, acc.subtrees, LeafHash(h), Merges(acc))
    PROVE  f[Merges(acc)] = LevelAt(Append(hs, h), Merges(acc))[Full(Len(hs) + 1, Merges(acc))]
<1> DEFINE n == Len(hs)  hh == Append(hs, h)  m == Merges(acc)  l == Len(acc.heights)
           s == acc.subtrees
           S == {k \in Nat : k <= m => f[k] = LevelAt(hh, k)[Full(n + 1, k)]}
<1>0. n \in Nat /\ Len(hh) = n + 1 /\ hh[n + 1] = h /\ n + 1 \in Nat
  OBVIOUS
<1>1. /\ m \in 0 .. l /\ \A i \in 1 .. m : FromEnd(acc.heights, i) = i - 1
      /\ Full(n, m) % 2 = 0 /\ \A k \in 0 .. m - 1 : Full(n, k) % 2 = 1
  BY <1>0, MergesCarry
<1>2. l \in Nat /\ m \in Nat /\ m <= l
  <2>1. l \in Nat
    BY DEF PerfectSubtrees
  <2> HIDE DEF m, l
  <2> QED BY <1>1, <2>1
<1>3. \A k \in Nat : Full(n + 1, k) = IF k <= m THEN Full(n, k) + 1 ELSE Full(n, k)
  <2> HIDE DEF m, n
  <2> QED BY <1>0, <1>1, <1>2, FullCarries
<1>4. ASSUME NEW i \in 1 .. m PROVE FromEnd(s, i) = LevelAt(hs, i - 1)[Full(n, i - 1)]
  <2>1. i \in 1 .. l /\ FromEnd(acc.heights, i) = i - 1
    <3> HIDE DEF m, l
    <3> QED BY <1>1, <1>2
  <2>2. FromEnd(s, i) = LevelAt(hs, FromEnd(acc.heights, i))[Full(n, FromEnd(acc.heights, i))]
    BY <2>1 DEF PerfectSubtrees
  <2> QED BY <2>1, <2>2
<1>5. Nodes(f, s, LeafHash(h), m)
  OBVIOUS
<1>6. ASSUME NEW k \in Nat, NEW i \in 1 .. Full(n, k) PROVE LevelAt(hh, k)[i] = LevelAt(hs, k)[i]
  BY PerfectStays
<1> HIDE DEF m, l, s, hh, n
<1>7. 0 \in S
  <2>1. f[0] = LeafHash(h)
    BY <1>2, <1>5 DEF Nodes
  <2>2. LevelAt(hh, 0) = Leaves(hh) /\ Full(n + 1, 0) = n + 1
    BY <1>0, LevelStep, FullStep
  <2>3. Leaves(hh)[n + 1] = LeafHash(h)
    BY <1>0 DEF Leaves
  <2> QED BY <2>1, <2>2, <2>3
<1>8. ASSUME NEW k \in Nat, k \in S PROVE k + 1 \in S
  <2> SUFFICES ASSUME k + 1 <= m PROVE f[k + 1] = LevelAt(hh, k + 1)[Full(n + 1, k + 1)]
    OBVIOUS
  <2> DEFINE a == Full(n, k)  x == Full(n + 1, k + 1)  L == LevelAt(hh, k)
  <2>1. k + 1 \in 0 .. m /\ k + 1 \in 1 .. m /\ k + 1 # 0 /\ (k + 1) - 1 = k /\ k <= m /\ k \in 0 .. m - 1
    BY <1>2
  <2>2. f[k] = L[Full(n + 1, k)]
    BY <1>8, <2>1
  <2>3. f[k + 1] = NodeHash(FromEnd(s, k + 1), f[k])
    BY <1>5, <2>1 DEF Nodes
  <2>4. FromEnd(s, k + 1) = LevelAt(hs, k)[a]
    BY <1>4, <2>1
  <2>5. a \in Nat /\ a % 2 = 1 /\ Full(n + 1, k) = a + 1 /\ x = (a + 1) \div 2
    <3>1. a \in Nat /\ Full(n + 1, k + 1) = Full(n + 1, k) \div 2
      BY <1>0, FullStep
    <3> QED BY <1>1, <1>3, <2>1, <3>1
  <2>6. LevelAt(hh, k + 1) = Paired(L)
    BY LevelStep
  <2>7. Len(L) \in Nat /\ Full(n + 1, k) <= Len(L)
    BY <1>0, FullInLevel
  <2>8. LevelAt(hh, k)[a] = LevelAt(hs, k)[a]
    <3>1. a \in 1 .. a
      <4> HIDE DEF a
      <4> QED BY <2>5
    <3> QED BY <1>6, <3>1
  <2> HIDE DEF a, x, L
  <2>9. x \in Nat \ {0} /\ 2 * x = a + 1 /\ 2 * x - 1 = a /\ 2 * x <= Len(L)
    <3>1. a = 2 * (a \div 2) + 1 /\ (a + 1) \div 2 = a \div 2 + 1 /\ a \div 2 \in Nat
      BY <2>5, HalfParity
    <3> DEFINE q == a \div 2
    <3> HIDE DEF q
    <3>2. q \in Nat /\ a = 2 * q + 1 /\ x = q + 1
      BY <2>5, <3>1 DEF q
    <3> QED BY <2>5, <2>7, <3>2
  <2>10. Paired(L)[x] = NodeHash(L[2 * x - 1], L[2 * x])
    BY <2>7, <2>9 DEF Paired
  <2>11. Paired(L)[x] = NodeHash(L[a], L[a + 1])
    BY <2>9, <2>10
  <2>12. f[k + 1] = NodeHash(L[a], L[a + 1])
    BY <2>2, <2>3, <2>4, <2>5, <2>8 DEF L
  <2> QED BY <2>6, <2>11, <2>12 DEF x
<1>9. Nat \subseteq S
  <2> HIDE DEF S
  <2> QED BY <1>7, <1>8, InductionOnNat
<1>10. f[m] = LevelAt(hh, m)[Full(n + 1, m)]
  BY <1>2, <1>9
<1> QED BY <1>10 DEF m, hh, n

\* Push keeps the subtrees perfect: one record more.
THEOREM PushPerfect ==
    ASSUME NEW A, NEW hs \in Seq(A), NEW h \in A, NEW acc, PerfectSubtrees(acc, hs)
    PROVE  PerfectSubtrees(Push(acc, h), Append(hs, h))
<1> DEFINE n == Len(hs)  hh == Append(hs, h)  m == Merges(acc)  l == Len(acc.heights)
           s == acc.subtrees  e(j) == FromEnd(acc.heights, j)  new == Push(acc, h)
           d(j) == FromEnd(new.heights, j)  r == Len(new.heights)
<1>0. n \in Nat /\ Len(hh) = n + 1 /\ n + 1 \in Nat
  OBVIOUS
<1>1. /\ m \in 0 .. l /\ \A i \in 1 .. m : e(i) = i - 1
      /\ Full(n, m) % 2 = 0 /\ \A k \in 0 .. m - 1 : Full(n, k) % 2 = 1
  BY <1>0, MergesCarry
<1>2. PICK U : s \in Seq(U)
  BY DEF PerfectSubtrees
<1>3. /\ acc.n = n /\ acc.heights \in Seq(Nat) /\ l = Len(s) /\ l \in Nat
      /\ \A i, j \in 1 .. l : i < j => e(i) < e(j)
      /\ \A k \in Nat : Full(n, k) % 2 = 1 <=> \E j \in 1 .. l : e(j) = k
      /\ \A j \in 1 .. l : FromEnd(s, j) = LevelAt(hs, e(j))[Full(n, e(j))]
  BY DEF PerfectSubtrees
<1>4. m \in Nat /\ m <= l
  <2> HIDE DEF m, l
  <2> QED BY <1>1, <1>3
<1>5. PICK f : /\ Nodes(f, s, LeafHash(h), m)
               /\ new = [subtrees |-> Append(SubSeq(s, 1, Len(s) - m), f[m]),
                         heights |-> Append(SubSeq(acc.heights, 1, Len(s) - m), m),
                         n |-> acc.n + 1]
  <2>1. Merges(acc) \in Nat
    BY <1>4
  <2> QED BY <2>1, PushIs
<1>a. /\ new.subtrees = Append(SubSeq(s, 1, Len(s) - m), f[m])
      /\ new.heights = Append(SubSeq(acc.heights, 1, Len(s) - m), m)
      /\ new.n = acc.n + 1
  <2> DEFINE p == Append(SubSeq(s, 1, Len(s) - m), f[m])
             q == Append(SubSeq(acc.heights, 1, Len(s) - m), m)
             c == acc.n + 1
  <2>1. new = [subtrees |-> p, heights |-> q, n |-> c]
    BY <1>5
  <2> HIDE DEF new, p, q, c
  <2>2. new.subtrees = p /\ new.heights = q /\ new.n = c
    BY <2>1
  <2> QED BY <2>2 DEF p, q, c
<1>6. f[m] = LevelAt(hh, m)[Full(n + 1, m)]
  BY <1>5, NodeIsPerfect
<1>7. \A k \in Nat : Full(n + 1, k) = IF k <= m THEN Full(n, k) + 1 ELSE Full(n, k)
  <2> HIDE DEF m, n
  <2> QED BY <1>0, <1>1, <1>4, FullCarries
<1>8. ASSUME NEW k \in Nat, NEW i \in 1 .. Full(n, k) PROVE LevelAt(hh, k)[i] = LevelAt(hs, k)[i]
  BY PerfectStays
<1>9. \A j \in 1 .. l : e(j) \in Nat
  BY <1>3, HeightIs
<1> DEFINE x == f[m]
<1>10. /\ new.subtrees \in Seq(U \cup {x}) /\ Len(new.subtrees) = (l - m) + 1
       /\ FromEnd(new.subtrees, 1) = x
       /\ \A j \in 2 .. (l - m) + 1 : FromEnd(new.subtrees, j) = FromEnd(s, (j - 1) + m)
  <2> DEFINE t == Append(SubSeq(s, 1, Len(s) - m), x)
  <2>1. new.subtrees = t
    BY <1>a
  <2>2. m \in 0 .. Len(s)
    BY <1>1, <1>3
  <2> HIDE DEF x, m, s
  <2>3. /\ t \in Seq(U \cup {x}) /\ Len(t) = (Len(s) - m) + 1 /\ FromEnd(t, 1) = x
        /\ \A j \in 2 .. Len(t) : FromEnd(t, j) = FromEnd(s, (j - 1) + m)
    BY <1>2, <2>2, FromEndPush
  <2> HIDE DEF t, new, l
  <2> QED BY <1>3, <2>1, <2>3
<1>11. /\ new.heights \in Seq(Nat) /\ r = (l - m) + 1 /\ d(1) = m
       /\ \A j \in 2 .. (l - m) + 1 : d(j) = e((j - 1) + m)
  <2> DEFINE w == acc.heights  t == Append(SubSeq(w, 1, l - m), m)
  <2>1. new.heights = t
    <3> HIDE DEF m, s, l, new
    <3> QED BY <1>3, <1>a
  <2>2. m \in 0 .. Len(w) /\ w \in Seq(Nat) /\ l = Len(w)
    BY <1>1, <1>3
  <2>3. Nat \cup {m} = Nat
    BY <1>4
  <2> HIDE DEF m, w
  <2>4. /\ t \in Seq(Nat \cup {m}) /\ Len(t) = (Len(w) - m) + 1 /\ FromEnd(t, 1) = m
        /\ \A j \in 2 .. Len(t) : FromEnd(t, j) = FromEnd(w, (j - 1) + m)
    BY <2>2, FromEndPush
  <2> HIDE DEF t, new
  <2> QED BY <2>1, <2>2, <2>3, <2>4 DEF w
<1>12. new.n = n + 1
  BY <1>3, <1>a
<1> HIDE DEF m, s, l, n, hh, e, d, r, new, x
<1>13. \A j \in 2 .. r : (j - 1) + m \in 1 .. l /\ j \in Nat /\ j >= 2
  BY <1>3, <1>4, <1>11
<1>14. \A i \in 1 .. l : e(i) # m /\ (i > m => e(i) > m)
  <2> SUFFICES ASSUME NEW i \in 1 .. l PROVE e(i) # m /\ (i > m => e(i) > m)
    OBVIOUS
  <2>1. e(i) # m
    BY <1>1, <1>3, <1>4
  <2>2. CASE i > m /\ m = 0
    BY <1>9, <2>1, <2>2
  <2>3. CASE i > m /\ m # 0
    <3>1. m \in 1 .. m /\ m \in 1 .. l /\ m < i
      BY <1>3, <1>4, <2>3
    <3>2. e(m) = m - 1 /\ e(m) < e(i) /\ e(i) \in Nat
      BY <1>1, <1>3, <1>9, <3>1
    <3> QED BY <1>4, <2>1, <3>2
  <2> QED BY <1>4, <2>1, <2>2, <2>3
<1>15. ASSUME NEW i \in 1 .. r, NEW j \in 1 .. r, i < j PROVE d(i) < d(j)
  <2>1. j \in 2 .. r /\ j \in 2 .. (l - m) + 1
    BY <1>3, <1>4, <1>11, <1>15
  <2>2. d(j) = e((j - 1) + m) /\ (j - 1) + m \in 1 .. l
    BY <1>11, <1>13, <2>1
  <2>3. CASE i = 1
    <3>1. (j - 1) + m > m
      BY <1>4, <2>1
    <3>2. e((j - 1) + m) > m /\ e((j - 1) + m) \in Nat
      BY <1>9, <1>14, <2>2, <3>1
    <3> QED BY <1>4, <1>11, <2>2, <2>3, <3>2
  <2>4. CASE i # 1
    <3>1. i \in 2 .. r /\ i \in 2 .. (l - m) + 1
      BY <1>3, <1>4, <1>11, <2>4
    <3>2. d(i) = e((i - 1) + m) /\ (i - 1) + m \in 1 .. l
      BY <1>11, <1>13, <3>1
    <3>3. (i - 1) + m < (j - 1) + m
      BY <1>4, <1>15, <2>1, <3>1
    <3> QED BY <1>3, <2>2, <3>2, <3>3
  <2> QED BY <2>3, <2>4
<1>16. \A j \in 2 .. r : d(j) > m /\ d(j) = e((j - 1) + m) /\ d(j) \in Nat
  <2> SUFFICES ASSUME NEW j \in 2 .. r PROVE d(j) > m /\ d(j) = e((j - 1) + m) /\ d(j) \in Nat
    OBVIOUS
  <2>1. (j - 1) + m > m /\ (j - 1) + m \in 1 .. l
    BY <1>4, <1>13
  <2>2. d(j) = e((j - 1) + m)
    BY <1>11
  <2> QED BY <1>9, <1>14, <2>1, <2>2
<1>17. ASSUME NEW k \in Nat PROVE Full(n + 1, k) % 2 = 1 <=> \E j \in 1 .. r : d(j) = k
  <2>0. Full(n, k) \in Nat
    BY <1>0, FullStep
  <2> DEFINE a == Full(n, k)
  <2>1. a % 2 \in {0, 1} /\ (a % 2 = 1 => (a + 1) % 2 = 0) /\ (a % 2 = 0 => (a + 1) % 2 = 1)
    <3> HIDE DEF a
    <3> QED BY <2>0, HalfParity DEF a
  <2>2. 1 \in 1 .. r /\ \A j \in 1 .. r : j = 1 \/ j \in 2 .. r
    BY <1>3, <1>4, <1>11
  <2>3. CASE k < m
    <3>1. k \in 0 .. m - 1 /\ k <= m
      BY <1>4, <2>3
    <3>2. Full(n + 1, k) % 2 = 0
      BY <1>1, <1>7, <2>1, <3>1
    <3>3. \A j \in 1 .. r : d(j) # k
      BY <1>4, <1>11, <1>16, <2>2, <2>3
    <3> QED BY <3>2, <3>3
  <2>4. CASE k = m
    <3>1. k <= m
      BY <1>4, <2>4
    <3>2. Full(n + 1, k) % 2 = 1
      BY <1>1, <1>7, <2>1, <2>4, <3>1
    <3> QED BY <1>11, <2>2, <2>4, <3>2
  <2>5. CASE k > m
    <3>1. ~(k <= m)
      BY <1>4, <2>5
    <3>2. Full(n + 1, k) = Full(n, k)
      BY <1>7, <3>1
    <3>3. ASSUME NEW i \in 1 .. l, e(i) = k PROVE \E j \in 1 .. r : d(j) = k
      <4>1. i > m
        <5> SUFFICES ASSUME i <= m PROVE FALSE
          BY <1>3, <1>4
        <5>1. i \in 1 .. m
          BY <1>3, <1>4
        <5>2. e(i) = i - 1
          BY <1>1, <5>1
        <5> QED BY <1>4, <2>5, <3>3, <5>1, <5>2
      <4> DEFINE j == (i - m) + 1
      <4>2. j \in 2 .. (l - m) + 1 /\ (j - 1) + m = i
        BY <1>3, <1>4, <4>1
      <4>3. j \in 1 .. r
        BY <1>3, <1>4, <1>11, <4>2
      <4> HIDE DEF j
      <4> QED BY <1>11, <3>3, <4>2, <4>3
    <3>4. ASSUME NEW j \in 1 .. r, d(j) = k PROVE \E i \in 1 .. l : e(i) = k
      <4>1. j \in 2 .. r
        BY <1>4, <1>11, <2>2, <2>5, <3>4
      <4> QED BY <1>13, <1>16, <3>4, <4>1
    <3> QED BY <1>3, <3>2, <3>3, <3>4
  <2> QED BY <1>4, <2>3, <2>4, <2>5
<1>18. ASSUME NEW j \in 1 .. r
       PROVE  FromEnd(new.subtrees, j) = LevelAt(hh, d(j))[Full(n + 1, d(j))]
  <2>1. CASE j = 1
    BY <1>6, <1>10, <1>11, <2>1 DEF x
  <2>2. CASE j # 1
    <3> DEFINE i == (j - 1) + m
    <3>1. j \in 2 .. r /\ j \in 2 .. (l - m) + 1
      BY <1>3, <1>4, <1>11, <2>2
    <3>2. i \in 1 .. l /\ d(j) = e(i) /\ e(i) > m /\ e(i) \in Nat
      BY <1>13, <1>16, <3>1
    <3>3. FromEnd(new.subtrees, j) = FromEnd(s, i)
      BY <1>10, <3>1
    <3> HIDE DEF i
    <3>4. FromEnd(s, i) = LevelAt(hs, e(i))[Full(n, e(i))]
      BY <1>3, <3>2
    <3>5. Full(n + 1, e(i)) = Full(n, e(i))
      <4>1. ~(e(i) <= m)
        BY <1>4, <3>2
      <4> QED BY <1>7, <3>2, <4>1
    <3>6. Full(n, e(i)) \in 1 .. Full(n, e(i))
      <4>1. Full(n, e(i)) \in Nat /\ Full(n, e(i)) % 2 = 1
        BY <1>0, <1>3, <3>2, FullStep
      <4> DEFINE a == Full(n, e(i))
      <4> HIDE DEF a
      <4>2. a \in Nat /\ a % 2 = 1
        BY <4>1 DEF a
      <4>3. a \in 1 .. a
        BY <4>2
      <4> QED BY <4>3 DEF a
    <3>7. LevelAt(hh, e(i))[Full(n, e(i))] = LevelAt(hs, e(i))[Full(n, e(i))]
      BY <1>8, <3>2, <3>6
    <3> QED BY <3>2, <3>3, <3>4, <3>5, <3>7
  <2> QED BY <2>1, <2>2
<1>19. Len(new.subtrees) = r /\ \E W : new.subtrees \in Seq(W)
  BY <1>10, <1>11
<1> QED
  BY <1>0, <1>11, <1>12, <1>15, <1>17, <1>18, <1>19 DEF PerfectSubtrees, r, d, n, hh, new

-----------------------------------------------------------------------------
\* The accumulator's root is the tree's: what AccRoot bags up to height k is the node
\* carried at the right edge of level k, where there is one.
THEOREM RootOfAccumulator ==
    ASSUME NEW A, NEW hs \in Seq(A), NEW acc, PerfectSubtrees(acc, hs)
    PROVE  AccRoot(acc) = MerkleRoot(hs)
<1> DEFINE n == Len(hs)  l == Len(acc.heights)  s == acc.subtrees
           e(j) == FromEnd(acc.heights, j)
<1>0. n \in Nat /\ acc.n = n
  BY DEF PerfectSubtrees
<1>1. CASE hs = <<>>
  <2>1. acc.n = 0
    BY <1>0, <1>1, EmptySeq
  <2> QED BY <1>1, <2>1 DEF AccRoot, MerkleRoot
<1>2. CASE hs # <<>>
  <2>0. n # 0 /\ n \in Nat /\ acc.n # 0
    BY <1>0, <1>2, EmptySeq
  <2>1. PICK U : s \in Seq(U)
    BY DEF PerfectSubtrees
  <2>2. /\ l = Len(s) /\ l \in Nat
        /\ \A i, j \in 1 .. l : i < j => e(i) < e(j)
        /\ \A k \in Nat : Full(n, k) % 2 = 1 <=> \E j \in 1 .. l : e(j) = k
        /\ \A j \in 1 .. l : FromEnd(s, j) = LevelAt(hs, e(j))[Full(n, e(j))]
    BY DEF PerfectSubtrees
  <2>3. \A j \in 1 .. l : e(j) \in Nat
    BY HeightIs DEF PerfectSubtrees
  <2> DEFINE f == CHOOSE g : Bagged(g, s)
             c(k) == Len(LevelAt(hs, k))
             Edge(k, t) == /\ \A j \in 1 .. l : e(j) < k <=> j <= t
                           /\ t = 0 => c(k) = Full(n, k)
                           /\ t # 0 => c(k) = Full(n, k) + 1 /\ LevelAt(hs, k)[c(k)] = f[t]
             S == {k \in Nat : \E t \in 0 .. l : Edge(k, t)}
  <2>4. \A k \in Nat : /\ Full(n, k) \in Nat /\ Full(n, 0) = n /\ Full(n, k + 1) = Full(n, k) \div 2
                       /\ c(k) \in Nat /\ c(0) = n /\ c(k + 1) = (c(k) + 1) \div 2
                       /\ LevelAt(hs, k + 1) = Paired(LevelAt(hs, k))
    <3> HIDE DEF n
    <3> QED BY <1>0, FullStep, LevelLength, LevelStep DEF n
  <2>5. l # 0 => Bagged(f, s)
    <3>1. ASSUME l # 0 PROVE s # <<>>
      BY <2>2, <3>1, EmptySeq
    <3>2. ASSUME l # 0 PROVE \E g : Bagged(g, s)
      <4> HIDE DEF s
      <4> QED BY <2>1, <3>1, <3>2, BaggedExists
    <3> HIDE DEF s, l
    <3> QED BY <3>2
  <2> HIDE DEF n, l, s, e, f, c
  <2>6. 0 \in S
    <3>1. Edge(0, 0)
      <4>1. \A j \in 1 .. l : ~(e(j) < 0) /\ ~(j <= 0)
        BY <2>2, <2>3
      <4>2. c(0) = Full(n, 0)
        BY <2>4
      <4> QED BY <4>1, <4>2
    <3>2. 0 \in 0 .. l
      BY <2>2
    <3> HIDE DEF Edge
    <3> QED BY <3>1, <3>2
  <2>7. ASSUME NEW k \in Nat, k \in S PROVE k + 1 \in S
    <3>1. PICK t \in 0 .. l : Edge(k, t)
      BY <2>7
    <3> DEFINE a == Full(n, k)  L == LevelAt(hs, k)  q == a \div 2
    <3>2. /\ a \in Nat /\ q \in Nat /\ (a % 2 = 1 \/ a % 2 = 0)
          /\ (a % 2 = 1 => a = 2 * q + 1) /\ (a % 2 = 0 => a = 2 * q)
      <4>1. a \in Nat
        BY <2>4
      <4> HIDE DEF a
      <4> QED BY <4>1, HalfParity
    <3>3. /\ Full(n, k + 1) = q /\ c(k + 1) = (c(k) + 1) \div 2 /\ c(k) \in Nat
          /\ LevelAt(hs, k + 1) = Paired(L) /\ Len(L) = c(k)
      BY <2>4 DEF c
    <3>4. t \in Nat /\ t <= l
      BY <2>2
    <3>5. \A j \in 1 .. l : e(j) < k + 1 <=> (e(j) < k \/ e(j) = k)
      BY <2>3
    <3> HIDE DEF a, q, L
    <3>6. CASE a % 2 = 0
      <4>1. \A j \in 1 .. l : e(j) # k
        BY <2>2, <3>6 DEF a
      <4>2. \A j \in 1 .. l : e(j) < k + 1 <=> j <= t
        BY <3>1, <3>5, <4>1
      <4>3. CASE t = 0
        <5>1. c(k) = 2 * q
          BY <3>1, <3>2, <3>6, <4>3 DEF a
        <5>2. c(k + 1) = q
          BY <3>2, <3>3, <5>1
        <5>3. Edge(k + 1, t)
          BY <3>3, <4>2, <4>3, <5>2
        <5> HIDE DEF Edge
        <5> QED BY <5>3
      <4>4. CASE t # 0
        <5>1. c(k) = 2 * q + 1 /\ L[c(k)] = f[t]
          BY <3>1, <3>2, <3>6, <4>4 DEF a, L
        <5>2. c(k + 1) = q + 1
          BY <3>2, <3>3, <5>1
        <5>3. Paired(L)[q + 1] = L[2 * q + 1]
          BY <3>2, <3>3, <5>1 DEF Paired
        <5>4. Edge(k + 1, t)
          BY <3>3, <4>2, <4>4, <5>1, <5>2, <5>3
        <5> HIDE DEF Edge
        <5> QED BY <5>4
      <4> QED BY <4>3, <4>4
    <3>7. CASE a % 2 = 1
      <4>1. PICK j \in 1 .. l : e(j) = k
        BY <2>2, <3>7 DEF a
      <4>2. j = t + 1
        <5>1. ~(j <= t)
          BY <2>3, <3>1, <4>1
        <5>2. ~(t + 1 < j)
          <6> SUFFICES ASSUME t + 1 < j PROVE FALSE
            OBVIOUS
          <6>1. t + 1 \in 1 .. l
            BY <2>2, <3>4
          <6>2. e(t + 1) < k
            BY <2>2, <4>1, <6>1
          <6>3. t + 1 <= t
            BY <3>1, <6>1, <6>2
          <6> QED BY <3>4, <6>3
        <5> QED BY <2>2, <3>4, <5>1, <5>2
      <4>3. t + 1 \in 1 .. l /\ t + 1 \in 0 .. l /\ t + 1 # 0 /\ l # 0 /\ e(t + 1) = k
        BY <2>2, <3>4, <4>1, <4>2
      <4>4. ASSUME NEW i \in 1 .. l PROVE e(i) < k + 1 <=> i <= t + 1
        <5>1. CASE i <= t
          BY <3>1, <3>4, <3>5, <5>1
        <5>2. CASE i = t + 1
          BY <3>4, <3>5, <4>3, <5>2
        <5>3. CASE i > t + 1
          <6>1. t + 1 < i
            BY <3>4, <5>3
          <6>2. k < e(i)
            BY <2>2, <4>3, <6>1
          <6> QED BY <2>3, <3>4, <5>3, <6>2
        <5> QED BY <3>4, <5>1, <5>2, <5>3
      <4>5. FromEnd(s, t + 1) = L[a]
        BY <2>2, <4>3 DEF L, a
      <4>6. c(k + 1) = q + 1 /\ Paired(L)[q + 1] = f[t + 1]
        <5>1. CASE t = 0
          <6>1. c(k) = 2 * q + 1 /\ a = 2 * q + 1
            BY <3>1, <3>2, <3>7, <5>1 DEF a
          <6>2. c(k + 1) = q + 1
            BY <3>2, <3>3, <6>1
          <6>3. Paired(L)[q + 1] = L[2 * q + 1]
            BY <3>2, <3>3, <6>1 DEF Paired
          <6>4. f[1] = FromEnd(s, 1)
            <7>1. 1 \in 1 .. Len(s)
              BY <2>2, <4>3, <5>1
            <7> QED BY <2>5, <4>3, <7>1 DEF Bagged
          <6> QED BY <4>5, <5>1, <6>1, <6>2, <6>3, <6>4
        <5>2. CASE t # 0
          <6>1. c(k) = (2 * q + 1) + 1 /\ a = 2 * q + 1 /\ L[c(k)] = f[t]
            BY <3>1, <3>2, <3>7, <5>2 DEF a, L
          <6>2. c(k + 1) = q + 1
            <7>1. q \in Nat
              BY <3>2
            <7>2. (((2 * q + 1) + 1) + 1) \div 2 = q + 1
              BY <7>1
            <7> QED BY <3>3, <6>1, <7>2
          <6>3. Paired(L)[q + 1] = NodeHash(L[2 * (q + 1) - 1], L[2 * (q + 1)])
            <7>1. q + 1 \in 1 .. (Len(L) + 1) \div 2 /\ ~(2 * (q + 1) > Len(L))
              BY <3>2, <3>3, <6>1
            <7> QED BY <7>1 DEF Paired
          <6>4. 2 * (q + 1) - 1 = a /\ 2 * (q + 1) = c(k)
            BY <3>2, <6>1
          <6>5. f[t + 1] = NodeHash(FromEnd(s, t + 1), f[t])
            <7>1. t + 1 \in 1 .. Len(s) /\ t + 1 # 1 /\ (t + 1) - 1 = t
              BY <2>2, <3>4, <4>3, <5>2
            <7> QED BY <2>5, <4>3, <7>1 DEF Bagged
          <6> QED BY <4>5, <6>1, <6>2, <6>3, <6>4, <6>5
        <5> QED BY <5>1, <5>2
      <4>7. Edge(k + 1, t + 1)
        BY <3>3, <4>3, <4>4, <4>6
      <4> HIDE DEF Edge
      <4> QED BY <4>3, <4>7
    <3> QED BY <3>2, <3>6, <3>7
  <2>8. Nat \subseteq S
    <3> HIDE DEF S
    <3> QED BY <2>6, <2>7, InductionOnNat
  <2>9. PICK t \in 0 .. l : Edge(n, t)
    BY <2>0, <2>8
  <2>10. Full(n, n) = 0
    BY <2>0, FullEnds
  <2>11. ASSUME NEW k \in Nat PROVE c(k) >= 1
    <3> DEFINE P == {j \in Nat : c(j) >= 1}
    <3>1. 0 \in P
      <4>1. c(0) = n
        BY <2>4
      <4> QED BY <2>0, <4>1
    <3>2. ASSUME NEW j \in Nat, j \in P PROVE j + 1 \in P
      <4>1. c(j) \in Nat \ {0} /\ c(j + 1) = (c(j) + 1) \div 2
        BY <2>4, <3>2
      <4>2. (c(j) + 1) \div 2 \in Nat \ {0}
        <5> DEFINE y == c(j)
        <5> HIDE DEF y
        <5>1. (y + 1) \div 2 \in Nat \ {0}
          BY <4>1, HalfDown DEF y
        <5> QED BY <5>1 DEF y
      <4> QED BY <4>1, <4>2
    <3>3. Nat \subseteq P
      <4> HIDE DEF P
      <4> QED BY <3>1, <3>2, InductionOnNat
    <3> QED BY <3>3
  <2>12. t # 0 /\ c(n) = 1 /\ LevelAt(hs, n)[1] = f[t]
    <3>1. c(n) >= 1 /\ c(n) \in Nat
      BY <2>0, <2>4, <2>11
    <3> QED BY <2>9, <2>10, <3>1
  <2>13. t = l /\ l # 0
    <3>1. t \in Nat /\ t <= l /\ l # 0
      BY <2>2, <2>12
    <3>2. e(l) < n
      <4>1. l \in 1 .. l
        BY <2>2, <3>1
      <4>2. Full(n, e(l)) % 2 = 1 /\ e(l) \in Nat
        BY <2>2, <2>3, <4>1
      <4>3. Full(n, e(l)) # 0
        <5>1. 0 % 2 = 0
          OBVIOUS
        <5> QED BY <4>2, <5>1
      <4>4. ASSUME NEW k \in Nat PROVE Full(n, n + k) = 0
        <5> DEFINE Q == {j \in Nat : Full(n, n + j) = 0}
        <5>1. 0 \in Q
          <6>1. n + 0 = n
            BY <2>0
          <6> QED BY <2>10, <6>1
        <5>2. ASSUME NEW j \in Nat, j \in Q PROVE j + 1 \in Q
          <6>1. n + j \in Nat /\ n + (j + 1) = (n + j) + 1 /\ Full(n, n + j) = 0
            BY <2>0, <5>2
          <6>2. Full(n, (n + j) + 1) = 0 \div 2
            BY <2>4, <6>1
          <6>3. 0 \div 2 = 0
            OBVIOUS
          <6> QED BY <6>1, <6>2, <6>3
        <5>3. Nat \subseteq Q
          <6> HIDE DEF Q
          <6> QED BY <5>1, <5>2, InductionOnNat
        <5> QED BY <5>3
      <4> SUFFICES ASSUME e(l) >= n PROVE FALSE
        BY <2>0, <4>2
      <4>5. e(l) - n \in Nat /\ n + (e(l) - n) = e(l)
        BY <2>0, <4>2
      <4>6. Full(n, n + (e(l) - n)) = 0
        BY <4>4, <4>5
      <4> QED BY <4>3, <4>5, <4>6
    <3>3. l <= t
      <4>1. l \in 1 .. l
        BY <2>2, <3>1
      <4> QED BY <2>9, <3>2, <4>1
    <3> QED BY <2>2, <3>1, <3>3
  <2>14. AccRoot(acc) = f[l]
    <3>1. s # <<>>
      BY <2>2, <2>13, EmptySeq
    <3> QED BY <2>0, <2>2 DEF AccRoot, Bagged, f, s
  <2>15. MerkleRoot(hs) = LevelAt(hs, n)[1]
    BY <1>2, MerkleRootIs DEF n
  <2> QED BY <2>12, <2>13, <2>14, <2>15
<1> QED BY <1>1, <1>2
=============================================================================
