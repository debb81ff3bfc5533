------------------------------- MODULE Merkle -------------------------------
(***************************************************************************)
(* The Merkle tree over a run's record hashes (internal/format/merkle.go). *)
(* MerkleRoot is the level-by-level definition; the accumulator is what    *)
(* the streaming reader feeds one record at a time.  A hash is the term it *)
(* is computed from: two hashes are equal when their inputs are.           *)
(***************************************************************************)
EXTENDS Naturals, Sequences

LeafHash(h) == <<"leaf", h>>
NodeHash(l, r) == <<"node", l, r>>
EmptyRoot == <<"empty">>

\* One level up: neighbours are paired, an odd last node is carried unchanged.
Paired(level) ==
    [i \in 1 .. (Len(level) + 1) \div 2 |->
        IF 2 * i > Len(level) THEN level[2 * i - 1]
        ELSE NodeHash(level[2 * i - 1], level[2 * i])]

\* Len(hashes) rounds are enough, a level of one node is its own next level.
MerkleRoot(hashes) ==
    LET level[k \in 0 .. Len(hashes)] ==
            IF k = 0 THEN [i \in 1 .. Len(hashes) |-> LeafHash(hashes[i])]
            ELSE Paired(level[k - 1])
    IN  IF hashes = <<>> THEN EmptyRoot ELSE level[Len(hashes)][1]

(***************************************************************************)
(* The accumulator: the roots of the perfect subtrees not merged yet, the  *)
(* largest first, with their heights.                                      *)
(***************************************************************************)
EmptyAcc == [subtrees |-> <<>>, heights |-> <<>>, n |-> 0]

\* The node k places from the end of the stack of subtrees, 1 the last.
FromEnd(s, k) == s[Len(s) + 1 - k]

\* How many subtrees the new leaf merges with: the run of heights 0, 1, 2, ...
\* read from the end.
Merges(acc) ==
    LET run(k) == \A i \in 1 .. k : FromEnd(acc.heights, i) = i - 1
    IN  CHOOSE k \in 0 .. Len(acc.heights) :
            run(k) /\ \A j \in 0 .. Len(acc.heights) : run(j) => j <= k

\* Mutant of Push: a new leaf merges once instead of as often as it can.
PushOnce(acc, h) ==
    LET l == Len(acc.subtrees)
    IN  IF l > 0 /\ acc.heights[l] = 0
        THEN [subtrees |-> [acc.subtrees EXCEPT ![l] = NodeHash(@, LeafHash(h))],
              heights |-> [acc.heights EXCEPT ![l] = 1], n |-> acc.n + 1]
        ELSE [subtrees |-> Append(acc.subtrees, LeafHash(h)),
              heights |-> Append(acc.heights, 0), n |-> acc.n + 1]

Push(acc, h) ==
    LET m == Merges(acc)
        left == Len(acc.subtrees) - m
        node[k \in 0 .. m] ==
            IF k = 0 THEN LeafHash(h)
            ELSE NodeHash(FromEnd(acc.subtrees, k), node[k - 1])
    IN  [subtrees |-> Append(SubSeq(acc.subtrees, 1, left), node[m]),
         heights  |-> Append(SubSeq(acc.heights, 1, left), m),
         n        |-> acc.n + 1]

AccRoot(acc) ==
    LET bag[k \in 1 .. Len(acc.subtrees)] ==
            IF k = 1 THEN FromEnd(acc.subtrees, 1)
            ELSE NodeHash(FromEnd(acc.subtrees, k), bag[k - 1])
    IN  IF acc.n = 0 THEN EmptyRoot ELSE bag[Len(acc.subtrees)]

=============================================================================
