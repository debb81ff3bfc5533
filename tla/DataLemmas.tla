----------------------------- MODULE DataLemmas -----------------------------
(***************************************************************************)
(* What the proofs need about numbers and sequences that the library only  *)
(* states with an operator for a parameter, or not at all: induction over the*)
(* numbers, as a statement about a set, and what FlattenSeq computes, which*)
(* follows from it.                                                        *)
(***************************************************************************)
EXTENDS SequencesExt, FiniteSetsExt, SequenceTheorems, WellFoundedInduction, TLAPS

\* A non-empty set of numbers has a least element.
LEMMA LeastNat ==
    ASSUME NEW T \in SUBSET Nat, T # {}
    PROVE  \E n \in T : \A m \in T : n <= m
<1> DEFINE R == OpToRel(<, Nat)
<1>1. R = {ss \in Nat \X Nat : ss[1] < ss[2]}
  BY DEF OpToRel
<1>2. IsWellFoundedOn(R, Nat)
  BY NatLessThanWellFounded
<1>3. PICK n \in T : \A m \in T : <<m, n>> \notin R
  <2> HIDE DEF R
  <2> QED BY <1>2, WFMin
<1>4. ASSUME NEW m \in T PROVE n <= m
  <2>1. n \in Nat /\ m \in Nat /\ <<m, n>> \in Nat \X Nat
    OBVIOUS
  <2>2. ~(m < n)
    BY <1>1, <1>3, <2>1
  <2> QED BY <2>1, <2>2
<1> QED BY <1>4

\* Induction: a set that holds 0 and is closed under successor holds every number.
LEMMA InductionOnNat ==
    ASSUME NEW S, 0 \in S, \A n \in Nat : n \in S => n + 1 \in S
    PROVE  Nat \subseteq S
<1> DEFINE T == {n \in Nat : n \notin S}
<1> SUFFICES ASSUME T # {} PROVE FALSE
  OBVIOUS
<1>1. PICK n \in T : \A m \in T : n <= m
  BY LeastNat
<1>2. n \in Nat /\ n # 0 /\ n - 1 \in Nat /\ n - 1 < n
  OBVIOUS
<1>3. n - 1 \in S
  BY <1>1, <1>2
<1>4. (n - 1) + 1 \in S
  BY <1>2, <1>3
<1> QED BY <1>2, <1>4

-----------------------------------------------------------------------------
\* f is the function by which FlattenSeq computes the concatenation of ss.
Flattens(f, ss, n) ==
    f = [i \in 1 .. n |-> IF i = 1 THEN ss[i] ELSE f[i - 1] \o ss[i]]

\* Such a function exists for every sequence of sequences.
LEMMA FlattensExists ==
    ASSUME NEW ss, NEW n \in Nat
    PROVE  \E f : Flattens(f, ss, n)
<1> DEFINE S == {k \in Nat : \E f : Flattens(f, ss, k)}
<1>1. 0 \in S
  <2> DEFINE f == [i \in 1 .. 0 |-> 0]
  <2>1. Flattens(f, ss, 0)
    BY DEF Flattens
  <2> QED BY <2>1
<1>2. ASSUME NEW k \in Nat, k \in S PROVE k + 1 \in S
  <2>1. PICK f : Flattens(f, ss, k)
    BY <1>2
  <2> DEFINE e == IF k = 0 THEN ss[1] ELSE f[k] \o ss[k + 1]
             g == [i \in 1 .. k + 1 |-> IF i <= k THEN f[i] ELSE e]
             h == [i \in 1 .. k + 1 |-> IF i = 1 THEN ss[i] ELSE g[i - 1] \o ss[i]]
  <2>2. ASSUME NEW i \in 1 .. k + 1 PROVE g[i] = h[i]
    <3>1. CASE i = 1 /\ k = 0
      BY <3>1
    <3>2. CASE i = 1 /\ k # 0
      BY <3>2, <2>1 DEF Flattens
    <3>3. CASE i # 1 /\ i <= k
      <4>1. i - 1 \in 1 .. k + 1 /\ i - 1 <= k /\ i \in 1 .. k
        BY <3>3
      <4>2. g[i] = f[i] /\ g[i - 1] = f[i - 1]
        BY <4>1
      <4>3. f[i] = f[i - 1] \o ss[i]
        BY <2>1, <3>3, <4>1 DEF Flattens
      <4> HIDE DEF g
      <4> QED BY <4>2, <4>3, <3>3
    <3>4. CASE i # 1 /\ i = k + 1
      <4>1. k \in 1 .. k + 1 /\ i - 1 = k /\ ~(k + 1 <= k) /\ k # 0 /\ k + 1 \in 1 .. k + 1
        BY <3>4
      <4>2. g[k] = f[k] /\ g[k + 1] = e
        <5> HIDE DEF e
        <5> QED BY <4>1
      <4>3. e = f[k] \o ss[k + 1]
        BY <4>1
      <4> HIDE DEF g, e
      <4> QED BY <4>1, <4>2, <4>3, <3>4
    <3> QED BY <3>1, <3>2, <3>3, <3>4
  <2>3. g = h
    <3> HIDE DEF g
    <3>1. g = [i \in 1 .. k + 1 |-> g[i]]
      BY DEF g
    <3> QED BY <2>2, <3>1
  <2>4. Flattens(g, ss, k + 1)
    <3> HIDE DEF g
    <3> QED BY <2>3 DEF Flattens
  <2> HIDE DEF g
  <2> QED BY <2>4
<1>3. Nat \subseteq S
  <2> HIDE DEF S
  <2> QED BY <1>1, <1>2, InductionOnNat
<1> QED BY <1>3

\* FlattenSeq is its last value.
LEMMA FlattenIs ==
    ASSUME NEW ss, Len(ss) \in Nat \ {0}
    PROVE  \E f : Flattens(f, ss, Len(ss)) /\ FlattenSeq(ss) = f[Len(ss)]
<1> DEFINE F == CHOOSE f : Flattens(f, ss, Len(ss))
<1>1. Flattens(F, ss, Len(ss))
  BY FlattensExists
<1>2. FlattenSeq(ss) = F[Len(ss)]
  BY DEF FlattenSeq, Flattens
<1> QED BY <1>1, <1>2

\* Its values do not depend on what is appended.
LEMMA FlattensPrefix ==
    ASSUME NEW A, NEW ss \in Seq(Seq(A)), NEW t \in Seq(A), NEW f, NEW g,
           Flattens(f, ss, Len(ss)), Flattens(g, Append(ss, t), Len(ss) + 1)
    PROVE  \A i \in 1 .. Len(ss) : f[i] = g[i] /\ f[i] \in Seq(A)
<1> DEFINE n == Len(ss)  tt == Append(ss, t)
<1> DEFINE S == {k \in Nat : \A i \in 1 .. n : i <= k => f[i] = g[i] /\ f[i] \in Seq(A)}
<1>1. 0 \in S
  OBVIOUS
<1>2. ASSUME NEW k \in Nat, k \in S PROVE k + 1 \in S
  <2> SUFFICES ASSUME NEW i \in 1 .. n, i = k + 1
               PROVE  f[i] = g[i] /\ f[i] \in Seq(A)
    BY <1>2
  <2>1. i \in 1 .. n + 1 /\ tt[i] = ss[i] /\ ss[i] \in Seq(A)
    OBVIOUS
  <2>2. CASE i = 1
    BY <2>1, <2>2 DEF Flattens
  <2>3. CASE i # 1
    <3>1. i - 1 \in 1 .. n /\ i - 1 \in 1 .. n + 1 /\ i - 1 <= k
      BY <2>3
    <3>2. f[i - 1] = g[i - 1] /\ f[i - 1] \in Seq(A)
      BY <1>2, <3>1
    <3>3. f[i] = f[i - 1] \o ss[i]
      BY <2>3 DEF Flattens
    <3>4. g[i] = g[i - 1] \o tt[i]
      BY <2>3, <2>1 DEF Flattens
    <3>5. f[i - 1] \o ss[i] \in Seq(A)
      BY <2>1, <3>2, ConcatProperties
    <3> QED BY <2>1, <3>2, <3>3, <3>4, <3>5
  <2> QED BY <2>2, <2>3
<1>3. Nat \subseteq S
  <2> HIDE DEF S
  <2> QED BY <1>1, <1>2, InductionOnNat
<1>4. n \in S
  <2> HIDE DEF S
  <2> QED BY <1>3
<1> QED BY <1>4

\* No sequences flatten to the empty one.
LEMMA FlattenEmpty == FlattenSeq(<<>>) = <<>>
  BY DEF FlattenSeq

\* Sequences over a set flatten to a sequence over it.
LEMMA FlattenType ==
    ASSUME NEW A, NEW ss \in Seq(Seq(A))
    PROVE  FlattenSeq(ss) \in Seq(A)
<1>1. CASE ss = <<>>
  BY <1>1, FlattenEmpty, EmptySeq
<1>2. CASE ss # <<>>
  <2>1. Len(ss) \in Nat \ {0}
    BY <1>2, EmptySeq
  <2>2. PICK f : Flattens(f, ss, Len(ss)) /\ FlattenSeq(ss) = f[Len(ss)]
    BY <2>1, FlattenIs
  <2>3. f[Len(ss)] \in Seq(A)
    <3>1. <<>> \in Seq(A)
      BY EmptySeq
    <3>2. PICK g : Flattens(g, Append(ss, <<>>), Len(ss) + 1)
      <4>1. Len(ss) + 1 \in Nat
        BY <2>1
      <4> QED BY <4>1, FlattensExists
    <3>3. \A i \in 1 .. Len(ss) : f[i] = g[i] /\ f[i] \in Seq(A)
      BY <2>2, <3>1, <3>2, FlattensPrefix
    <3> QED BY <2>1, <3>3
  <2> QED BY <2>2, <2>3
<1> QED BY <1>1, <1>2

\* A sequence appended is concatenated.
LEMMA FlattenAppend ==
    ASSUME NEW A, NEW ss \in Seq(Seq(A)), NEW t \in Seq(A)
    PROVE  FlattenSeq(Append(ss, t)) = FlattenSeq(ss) \o t
<1> DEFINE tt == Append(ss, t)  n == Len(ss)
<1>0. /\ tt \in Seq(Seq(A)) /\ Len(tt) = n + 1 /\ tt[n + 1] = t /\ n \in Nat
      /\ \A i \in 1 .. n : tt[i] = ss[i]
  OBVIOUS
<1> HIDE DEF tt
<1>1. PICK g : Flattens(g, tt, n + 1) /\ FlattenSeq(tt) = g[n + 1]
  BY <1>0, FlattenIs
<1>2. CASE ss = <<>>
  <2>1. FlattenSeq(tt) = t
    BY <1>0, <1>1, <1>2 DEF Flattens
  <2>2. FlattenSeq(ss) \o t = t
    BY <1>2, FlattenEmpty, ConcatEmptySeq
  <2> QED BY <2>1, <2>2 DEF tt
<1>3. CASE ss # <<>>
  <2>1. n \in Nat \ {0}
    BY <1>3, EmptySeq
  <2>2. PICK f : Flattens(f, ss, n) /\ FlattenSeq(ss) = f[n]
    BY <2>1, FlattenIs
  <2>3. f[n] = g[n]
    <3>1. \A i \in 1 .. n : f[i] = g[i] /\ f[i] \in Seq(A)
      BY <1>1, <2>2, FlattensPrefix DEF tt
    <3> QED BY <2>1, <3>1
  <2>4. g[n + 1] = g[n] \o tt[n + 1]
    <3>1. n + 1 \in 1 .. n + 1 /\ n + 1 # 1 /\ (n + 1) - 1 = n
      BY <2>1
    <3> QED BY <1>1, <3>1 DEF Flattens
  <2> QED BY <1>0, <1>1, <2>2, <2>3, <2>4 DEF tt
<1> QED BY <1>2, <1>3
=============================================================================
