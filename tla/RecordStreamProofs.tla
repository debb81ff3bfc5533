------------------------- MODULE RecordStreamProofs -------------------------
(***************************************************************************)
(* Proofs about one large record on its way to the target, for records of any*)
(* number of segments of any length, any chunk size and whatever the store *)
(* serves.                                                                 *)
(*                                                                         *)
(* ReaderInv says how far the reader is and that what it opened is what was*)
(* sealed; VerdictInv that its result is the one the buffered path would   *)
(* return; FlowInv what the pipe, the temporary file and the destination   *)
(* hold; WriterInv what the streaming writer has sealed.                   *)
(***************************************************************************)
EXTENDS RecordStream, DataLemmas

\* Plaintext bytes, plaintexts, and what a payload is made of.
Byte == Nat \X Nat
Text == Seq(Byte)
Slot == [kind : {"sealed", "junk", "stub"}, key : Nat, counter : Nat, last : BOOLEAN, text : Text]

\* Texts are closed under concatenation, which is associative.
LEMMA ConcatTexts ==
    ASSUME NEW a \in Text, NEW b \in Text, NEW c \in Text
    PROVE  /\ (a \o b) \o c = a \o (b \o c) /\ a \o b \in Text
           /\ a \o <<>> = a /\ <<>> \o a = a /\ <<>> \in Text
           /\ Len(a \o b) = Len(a) + Len(b) /\ Len(a) \in Nat
<1>1. (a \o b) \o c = a \o (b \o c)
  BY DEF Text
<1>2. a \o <<>> = a /\ <<>> \o a = a
  BY ConcatEmptySeq DEF Text
<1>3. a \o b \in Text /\ <<>> \in Text /\ Len(a \o b) = Len(a) + Len(b) /\ Len(a) \in Nat
  BY ConcatProperties, EmptySeq DEF Text
<1> QED BY <1>1, <1>2, <1>3

\* The empty text adds nothing.
LEMMA ConcatEmpty ==
    ASSUME NEW a \in Text
    PROVE  a \o <<>> = a /\ <<>> \o a = a
  BY ConcatEmptySeq DEF Text

\* A piece of a text, and how long it is.
LEMMA PieceOfText ==
    ASSUME NEW text \in Text, NEW i \in Nat \ {0}, NEW j \in Nat, j <= Len(text)
    PROVE  /\ SubSeq(text, i, j) \in Text
           /\ Len(SubSeq(text, i, j)) = IF i <= j THEN j - i + 1 ELSE 0
  BY DEF Text

\* A beginning of a text and what follows it.
LEMMA JoinPieces ==
    ASSUME NEW text \in Text, NEW i \in Nat, NEW j \in Nat, i <= j, j <= Len(text)
    PROVE  /\ SubSeq(text, 1, i) \o SubSeq(text, i + 1, j) = SubSeq(text, 1, j)
           /\ SubSeq(text, 1, 0) = <<>> /\ SubSeq(text, 1, Len(text)) = text
  BY DEF Text

\* The empty text is a text.
LEMMA EmptyText == <<>> \in Text
  BY DEF Text

\* The slot no chunk was read into.
LEMMA StubIsSlot == Stub \in Slot
  BY EmptyText DEF Stub, Slot

\* The plaintext of a payload with one slot more.
LEMMA TextOfAppend ==
    ASSUME NEW slots \in Seq(Slot), NEW x \in Slot
    PROVE  /\ TextOf(<<>>) = <<>> /\ TextOf(slots) \in Text
           /\ TextOf(Append(slots, x)) = TextOf(slots) \o x.text
<1> DEFINE tt == [i \in DOMAIN slots |-> slots[i].text]
           uu == [i \in DOMAIN Append(slots, x) |-> Append(slots, x)[i].text]
<1>1. tt \in Seq(Text) /\ x.text \in Text
  <2>1. \A y \in Slot : y.text \in Text
    BY DEF Slot
  <2>2. DOMAIN slots = 1 .. Len(slots) /\ Len(slots) \in Nat
    OBVIOUS
  <2>3. \A i \in 1 .. Len(slots) : slots[i].text \in Text
    BY <2>1
  <2> QED BY <2>1, <2>2, <2>3
<1>2. uu = Append(tt, x.text)
  OBVIOUS
<1>3. TextOf(slots) = FlattenSeq(tt) /\ TextOf(Append(slots, x)) = FlattenSeq(uu)
  BY DEF TextOf
<1>4. TextOf(<<>>) = <<>>
  <2>1. [i \in DOMAIN <<>> |-> <<>>[i].text] = <<>>
    OBVIOUS
  <2> QED BY <2>1, FlattenEmpty DEF TextOf
<1> HIDE DEF tt, uu
<1> QED BY <1>1, <1>2, <1>3, <1>4, FlattenAppend, FlattenType DEF Text

\* The plaintext of two payloads, one after the other.
LEMMA TextOfConcat ==
    ASSUME NEW a \in Seq(Slot), NEW b \in Seq(Slot)
    PROVE  TextOf(a \o b) = TextOf(a) \o TextOf(b)
<1> DEFINE S == {k \in Nat : \A c \in Seq(Slot) : Len(c) = k => TextOf(a \o c) = TextOf(a) \o TextOf(c)}
<1>1. 0 \in S
  <2> SUFFICES ASSUME NEW c \in Seq(Slot), Len(c) = 0 PROVE TextOf(a \o c) = TextOf(a) \o TextOf(c)
    OBVIOUS
  <2>1. c = <<>> /\ a \o c = a
    BY ConcatEmptySeq
  <2>2. TextOf(c) = <<>> /\ TextOf(a) \in Text
    BY <2>1, TextOfAppend, StubIsSlot
  <2> QED BY <2>1, <2>2, ConcatEmptySeq DEF Text
<1>2. ASSUME NEW k \in Nat, k \in S PROVE k + 1 \in S
  <2> SUFFICES ASSUME NEW c \in Seq(Slot), Len(c) = k + 1 PROVE TextOf(a \o c) = TextOf(a) \o TextOf(c)
    OBVIOUS
  <2> DEFINE d == SubSeq(c, 1, k)  x == c[k + 1]
  <2>1. d \in Seq(Slot) /\ Len(d) = k /\ x \in Slot /\ c = Append(d, x)
    OBVIOUS
  <2>2. a \o c = Append(a \o d, x) /\ a \o d \in Seq(Slot)
    BY SMTT(30)
  <2> HIDE DEF d, x
  <2>3. TextOf(a \o d) = TextOf(a) \o TextOf(d)
    BY <1>2, <2>1
  <2>4. TextOf(c) = TextOf(d) \o x.text /\ TextOf(d) \in Text
    BY <2>1, TextOfAppend
  <2>5. TextOf(a \o c) = TextOf(a \o d) \o x.text
    BY <2>1, <2>2, TextOfAppend
  <2>6. TextOf(a) \in Text /\ x.text \in Text
    BY <2>1, TextOfAppend DEF Slot
  <2>7. (TextOf(a) \o TextOf(d)) \o x.text = TextOf(a) \o (TextOf(d) \o x.text)
    <3> DEFINE ta == TextOf(a)  td == TextOf(d)  tx == x.text
    <3>1. ta \in Text /\ td \in Text /\ tx \in Text
      BY <2>4, <2>6
    <3> HIDE DEF ta, td, tx
    <3>2. (ta \o td) \o tx = ta \o (td \o tx)
      BY <3>1, SMTT(30) DEF Text
    <3> QED BY <3>2 DEF ta, td, tx
  <2> QED BY <2>3, <2>4, <2>5, <2>7
<1>3. Nat \subseteq S
  <2> HIDE DEF S
  <2> QED BY <1>1, <1>2, InductionOnNat
<1>4. Len(b) \in S
  <2> HIDE DEF S
  <2> QED BY <1>3
<1> QED BY <1>4

\* Division with remainder.
LEMMA DivMod ==
    ASSUME NEW n \in Nat, NEW c \in Nat \ {0}
    PROVE  /\ n \div c \in Nat /\ n % c \in 0 .. c - 1
           /\ n = c * (n \div c) + (n % c)
  OBVIOUS

\* Quotient and remainder are unique.
LEMMA DivUnique ==
    ASSUME NEW c \in Nat \ {0}, NEW q \in Nat, NEW r \in 0 .. c - 1
    PROVE  (c * q + r) \div c = q /\ (c * q + r) % c = r
  OBVIOUS

\* c full chunks and a last one of b bytes are c + 1 chunks; an empty last
\* chunk is allowed only when it is the only one.
LEMMA ChunksOf ==
  ASSUME NEW c \in Nat, NEW b \in Nat, b <= ChunkSize, b = 0 => c = 0
  PROVE  Chunks(ChunkSize * c + b) = c + 1
<1> USE StreamAssumption
<1>1. CASE b < ChunkSize
  <2>1. b \in 0 .. ChunkSize - 1
    BY <1>1
  <2>2. (ChunkSize * c + b) \div ChunkSize = c /\ (ChunkSize * c + b) % ChunkSize = b
    BY <2>1, DivUnique
  <2>3. b = 0 => ChunkSize * c + b = 0
    OBVIOUS
  <2>4. b # 0 => ChunkSize * c + b # 0
    OBVIOUS
  <2> QED BY <2>2, <2>3, <2>4 DEF Chunks
<1>2. CASE b = ChunkSize
  <2>1. ChunkSize * c + b = ChunkSize * (c + 1) + 0
    BY <1>2
  <2>2. (ChunkSize * c + b) \div ChunkSize = c + 1 /\ (ChunkSize * c + b) % ChunkSize = 0
    BY <2>1, DivUnique, 0 \in 0 .. ChunkSize - 1, c + 1 \in Nat
  <2>3. ChunkSize * c + b # 0
    BY <1>2
  <2> QED BY <2>2, <2>3 DEF Chunks
<1> QED BY <1>1, <1>2

\* Every length is cut into full chunks and one last chunk that is empty only
\* when there is nothing to seal.
LEMMA ChunksCut ==
  ASSUME NEW n \in Nat
  PROVE  /\ Chunks(n) \in Nat \ {0}
         /\ \E b \in 0 .. ChunkSize : n = ChunkSize * (Chunks(n) - 1) + b /\ (b = 0 => n = 0)
<1> USE StreamAssumption
<1> DEFINE q == n \div ChunkSize  r == n % ChunkSize
<1>1. q \in Nat /\ r \in 0 .. ChunkSize - 1 /\ n = ChunkSize * q + r
  BY DivMod
<1>2. CASE r # 0
  BY <1>1, <1>2 DEF Chunks
<1>3. CASE r = 0 /\ n = 0
  <2>1. q = 0
    BY <1>1, <1>3
  <2>2. Chunks(n) = 1
    BY <1>3, <2>1 DEF Chunks
  <2> QED BY <2>2, <1>3
<1>4. CASE r = 0 /\ n # 0
  <2>1. q # 0 /\ Chunks(n) = q
    BY <1>1, <1>4 DEF Chunks
  <2>2. n = ChunkSize * (q - 1) + ChunkSize
    BY <1>1, <1>4
  <2> QED BY <1>1, <2>1, <2>2
<1> QED BY <1>1, <1>2, <1>3, <1>4

\* Every chunk starts inside the text, and every chunk but the last ends in it.
LEMMA Piece ==
    ASSUME NEW text \in Text, NEW i \in 1 .. Chunks(Len(text))
    PROVE  /\ ChunkSize * (i - 1) \in Nat /\ ChunkSize * (i - 1) <= Len(text)
           /\ ChunkSize * i \in Nat /\ ChunkSize * i = ChunkSize * (i - 1) + ChunkSize
           /\ i # Chunks(Len(text)) => ChunkSize * i <= Len(text)
<1> USE StreamAssumption
<1> DEFINE m == Chunks(Len(text))
<1>0. Len(text) \in Nat
  BY DEF Text
<1>1. PICK b \in 0 .. ChunkSize : Len(text) = ChunkSize * (m - 1) + b /\ m \in Nat \ {0}
  BY <1>0, ChunksCut
<1> HIDE DEF m
<1>2. i \in 1 .. m
  BY DEF m
<1>3. ASSUME NEW j \in Nat, NEW k \in Nat, j <= k
      PROVE  ChunkSize * j \in Nat /\ ChunkSize * j <= ChunkSize * k
  BY <1>3
<1>4. ChunkSize * (i - 1) <= ChunkSize * (m - 1) /\ ChunkSize * (i - 1) \in Nat /\ ChunkSize * (m - 1) \in Nat
  BY <1>1, <1>2, <1>3
<1>5. i # m => ChunkSize * i <= ChunkSize * (m - 1)
  BY <1>1, <1>2, <1>3
<1>6. ChunkSize * i \in Nat /\ ChunkSize * i = ChunkSize * (i - 1) + ChunkSize
  BY <1>2
<1> QED BY <1>0, <1>1, <1>4, <1>5, <1>6 DEF m

\* The piece of the text in its i-th chunk.
PieceOf(text, i) ==
    SubSeq(text, ChunkSize * (i - 1) + 1,
           IF i = Chunks(Len(text)) THEN Len(text) ELSE ChunkSize * i)

\* SealStream, chunk by chunk.
LEMMA SealedChunk ==
    ASSUME NEW key \in Nat, NEW text \in Text
    PROVE  /\ SealStream(key, text) \in Seq(Slot)
           /\ Len(SealStream(key, text)) = Chunks(Len(text))
           /\ Chunks(Len(text)) \in Nat \ {0}
           /\ \A i \in 1 .. Chunks(Len(text)) :
                 /\ SealStream(key, text)[i] =
                       Chunk(key, i - 1, i = Chunks(Len(text)), PieceOf(text, i))
                 /\ SealStream(key, text)[i].text = PieceOf(text, i)
<1> USE StreamAssumption
<1> DEFINE m == Chunks(Len(text))
           sealed == SealStream(key, text)
<1>1. m \in Nat \ {0} /\ Len(text) \in Nat
  BY ChunksCut DEF Text
<1>2. sealed = [i \in 1 .. m |-> Chunk(key, i - 1, i = m, PieceOf(text, i))]
  BY <1>1 DEF SealStream, PieceOf
<1> HIDE DEF m, sealed
<1>3. ASSUME NEW i \in 1 .. m PROVE Chunk(key, i - 1, i = m, PieceOf(text, i)) \in Slot
  <2>1. PieceOf(text, i) \in Text
    <3>1. ChunkSize * (i - 1) \in Nat /\ (i # m => ChunkSize * i \in Nat /\ ChunkSize * i <= Len(text))
      BY Piece DEF m
    <3> DEFINE e == IF i = m THEN Len(text) ELSE ChunkSize * i
    <3>2. e \in Nat /\ e <= Len(text) /\ ChunkSize * (i - 1) + 1 \in Nat \ {0}
      BY <3>1, <1>1
    <3> HIDE DEF e
    <3>3. SubSeq(text, ChunkSize * (i - 1) + 1, e) \in Text
      BY <3>2, PieceOfText
    <3> QED BY <3>3 DEF e, m, PieceOf
  <2>2. i - 1 \in Nat /\ (i = m) \in BOOLEAN
    BY <1>1
  <2> QED BY <2>1, <2>2 DEF Chunk, Slot
<1>4. sealed \in Seq(Slot) /\ Len(sealed) = m
  BY <1>1, <1>2, <1>3
<1>5. \A i \in 1 .. m : sealed[i].text = PieceOf(text, i)
  BY <1>2 DEF Chunk
<1> QED BY <1>1, <1>2, <1>4, <1>5 DEF m, sealed

(***************************************************************************)
(* What was sealed reads back: the pieces of the chunks make up the text.  *)
(***************************************************************************)
LEMMA PrefixOfSealed ==
    ASSUME NEW key \in Nat, NEW text \in Text, NEW k \in Nat, k < Chunks(Len(text))
    PROVE  TextOf(SubSeq(SealStream(key, text), 1, k)) = SubSeq(text, 1, ChunkSize * k)
<1> USE StreamAssumption
<1> DEFINE m == Chunks(Len(text))
           sealed == SealStream(key, text)
           S == {n \in Nat : n < m => TextOf(SubSeq(sealed, 1, n)) = SubSeq(text, 1, ChunkSize * n)}
<1>0. Len(text) \in Nat
  BY DEF Text
<1>1. /\ sealed \in Seq(Slot) /\ Len(sealed) = m /\ m \in Nat \ {0}
      /\ \A i \in 1 .. m : sealed[i].text = PieceOf(text, i)
  BY SealedChunk
<1> HIDE DEF m, sealed
<1>2. 0 \in S
  <2>1. SubSeq(sealed, 1, 0) = <<>> /\ ChunkSize * 0 = 0
    BY <1>1
  <2>2. TextOf(<<>>) = <<>>
    BY TextOfAppend, <1>1, sealed[1] \in Slot
  <2>3. SubSeq(text, 1, 0) = <<>>
    BY <1>0, JoinPieces
  <2> QED BY <2>1, <2>2, <2>3
<1>3. ASSUME NEW n \in Nat, n \in S PROVE n + 1 \in S
  <2> SUFFICES ASSUME n + 1 < m
               PROVE  TextOf(SubSeq(sealed, 1, n + 1)) = SubSeq(text, 1, ChunkSize * (n + 1))
    OBVIOUS
  <2>1. TextOf(SubSeq(sealed, 1, n)) = SubSeq(text, 1, ChunkSize * n)
    BY <1>1, <1>3
  <2> DEFINE d == SubSeq(sealed, 1, n)  x == sealed[n + 1]
  <2>2. d \in Seq(Slot) /\ x \in Slot /\ SubSeq(sealed, 1, n + 1) = Append(d, x)
    BY <1>1
  <2>3. x.text = SubSeq(text, ChunkSize * n + 1, ChunkSize * (n + 1))
    <3>1. n + 1 \in 1 .. m /\ n + 1 # m /\ (n + 1) - 1 = n
      BY <1>1
    <3>2. x.text = PieceOf(text, n + 1)
      BY <1>1, <3>1
    <3> QED BY <3>1, <3>2 DEF PieceOf, m
  <2>4. /\ ChunkSize * n \in Nat /\ ChunkSize * (n + 1) \in Nat
        /\ ChunkSize * (n + 1) <= Len(text) /\ ChunkSize * n <= ChunkSize * (n + 1)
    <3>1. n + 1 \in 1 .. Chunks(Len(text)) /\ n + 1 # Chunks(Len(text)) /\ (n + 1) - 1 = n
      BY <1>1 DEF m
    <3> QED BY <3>1, Piece
  <2> HIDE DEF d, x
  <2>5. TextOf(Append(d, x)) = TextOf(d) \o x.text
    BY <2>2, TextOfAppend
  <2>6. SubSeq(text, 1, ChunkSize * n) \o SubSeq(text, ChunkSize * n + 1, ChunkSize * (n + 1))
            = SubSeq(text, 1, ChunkSize * (n + 1))
    BY <2>4, JoinPieces
  <2> QED BY <2>1, <2>2, <2>3, <2>5, <2>6 DEF d
<1>4. Nat \subseteq S
  <2> HIDE DEF S
  <2> QED BY <1>2, <1>3, InductionOnNat
<1>5. k \in S
  <2> HIDE DEF S
  <2> QED BY <1>4
<1> QED BY <1>5 DEF m, sealed

\* The chunks of a sealed text hold the text.
LEMMA TextOfSealed ==
    ASSUME NEW key \in Nat, NEW text \in Text
    PROVE  TextOf(SealStream(key, text)) = text
<1> USE StreamAssumption
<1> DEFINE m == Chunks(Len(text))
           sealed == SealStream(key, text)
           d == SubSeq(sealed, 1, m - 1)
<1>0. Len(text) \in Nat
  BY DEF Text
<1>1. /\ sealed \in Seq(Slot) /\ Len(sealed) = m /\ m \in Nat \ {0}
      /\ \A i \in 1 .. m : sealed[i].text = PieceOf(text, i)
  BY SealedChunk
<1>2. TextOf(d) = SubSeq(text, 1, ChunkSize * (m - 1))
  <2>1. m - 1 \in Nat /\ m - 1 < m
    BY <1>1
  <2> HIDE DEF m
  <2> QED BY <2>1, PrefixOfSealed DEF m
<1>3. ChunkSize * (m - 1) \in Nat /\ ChunkSize * (m - 1) <= Len(text)
  <2>1. m \in 1 .. m
    BY <1>1
  <2> QED BY <2>1, Piece
<1> HIDE DEF m, sealed
<1>4. sealed = Append(d, sealed[m]) /\ d \in Seq(Slot) /\ sealed[m] \in Slot
  BY <1>1
<1>5. sealed[m].text = SubSeq(text, ChunkSize * (m - 1) + 1, Len(text))
  <2>1. sealed[m].text = PieceOf(text, m)
    BY <1>1, m \in 1 .. m
  <2> QED BY <2>1 DEF PieceOf, m
<1>6. TextOf(Append(d, sealed[m])) = TextOf(d) \o sealed[m].text
  <2> HIDE DEF d
  <2> QED BY <1>4, TextOfAppend
<1>7. SubSeq(text, 1, ChunkSize * (m - 1)) \o SubSeq(text, ChunkSize * (m - 1) + 1, Len(text)) = text
  <2> DEFINE j == ChunkSize * (m - 1)
  <2>1. j \in Nat /\ j <= Len(text)
    BY <1>3
  <2> HIDE DEF j
  <2>2. Len(text) <= Len(text)
    BY <1>0
  <2>3. SubSeq(text, 1, j) \o SubSeq(text, j + 1, Len(text)) = SubSeq(text, 1, Len(text))
    BY <1>0, <2>1, <2>2, JoinPieces, ZenonT(30)
  <2>4. SubSeq(text, 1, Len(text)) = text
    BY <1>0, <2>1, JoinPieces
  <2> QED BY <2>3, <2>4 DEF j
<1> HIDE DEF d
<1> QED BY <1>2, <1>4, <1>5, <1>6, <1>7 DEF sealed
-----------------------------------------------------------------------------
\* f is the function by which FoldLeft computes SizeOfAll of the first n slots.
Sums(f, slots, n) ==
    f = [s \in SUBSET (1 .. n) |->
            IF s = {} THEN 0 ELSE f[s \ {Max(s)}] + SizeOf(slots[Max(s)])]

\* A non-empty set of positions has a largest one, and is smaller without it.
LEMMA MaxOf ==
    ASSUME NEW k \in Nat, NEW s \in SUBSET (1 .. k + 1), k + 1 \in s
    PROVE  Max(s) = k + 1
<1>1. \A y \in s : k + 1 >= y
  OBVIOUS
<1>2. Max(s) \in s /\ \A y \in s : Max(s) >= y
  BY <1>1 DEF Max
<1>3. \A x \in s : x \in Nat
  OBVIOUS
<1>4. Max(s) \in Nat /\ Max(s) >= k + 1 /\ k + 1 >= Max(s)
  BY <1>1, <1>2, <1>3, Zenon
<1> QED BY <1>4

\* The function by which the fold over a payload is computed exists.
LEMMA SumsExists ==
    ASSUME NEW slots, NEW n \in Nat
    PROVE  \E f : Sums(f, slots, n)
<1> DEFINE S == {k \in Nat : \E f : Sums(f, slots, k)}
<1>1. 0 \in S
  <2> DEFINE f == [s \in SUBSET (1 .. 0) |-> 0]
  <2>1. \A s \in SUBSET (1 .. 0) : s = {}
    OBVIOUS
  <2>2. Sums(f, slots, 0)
    BY <2>1 DEF Sums
  <2> QED BY <2>2
<1>2. ASSUME NEW k \in Nat, k \in S PROVE k + 1 \in S
  <2>1. PICK f : Sums(f, slots, k)
    BY <1>2
  <2> DEFINE g == [s \in SUBSET (1 .. k + 1) |->
                      IF k + 1 \in s THEN f[s \ {k + 1}] + SizeOf(slots[k + 1]) ELSE f[s]]
             h == [s \in SUBSET (1 .. k + 1) |->
                      IF s = {} THEN 0 ELSE g[s \ {Max(s)}] + SizeOf(slots[Max(s)])]
  <2>2. ASSUME NEW s \in SUBSET (1 .. k + 1) PROVE g[s] = h[s]
    <3>1. CASE k + 1 \in s
      <4>1. Max(s) = k + 1 /\ s # {}
        BY <3>1, MaxOf
      <4>2. s \ {k + 1} \in SUBSET (1 .. k + 1) /\ k + 1 \notin s \ {k + 1}
        OBVIOUS
      <4>3. g[s \ {k + 1}] = f[s \ {k + 1}] /\ g[s] = f[s \ {k + 1}] + SizeOf(slots[k + 1])
        BY <3>1, <4>2
      <4> HIDE DEF g
      <4> QED BY <4>1, <4>3
    <3>2. CASE k + 1 \notin s
      <4>1. s \in SUBSET (1 .. k)
        BY <3>2
      <4>2. f[s] = IF s = {} THEN 0 ELSE f[s \ {Max(s)}] + SizeOf(slots[Max(s)])
        BY <2>1, <4>1 DEF Sums
      <4>3. s \ {Max(s)} \in SUBSET (1 .. k + 1) /\ k + 1 \notin s \ {Max(s)}
        BY <3>2
      <4>4. g[s] = f[s] /\ g[s \ {Max(s)}] = f[s \ {Max(s)}]
        BY <3>2, <4>3
      <4> HIDE DEF g
      <4> QED BY <4>2, <4>4
    <3> QED BY <3>1, <3>2
  <2>3. g = h
    <3> HIDE DEF g
    <3>1. g = [s \in SUBSET (1 .. k + 1) |-> g[s]]
      BY DEF g
    <3> QED BY <2>2, <3>1
  <2>4. Sums(g, slots, k + 1)
    <3> HIDE DEF g
    <3> QED BY <2>3 DEF Sums
  <2> HIDE DEF g
  <2> QED BY <2>4
<1>3. Nat \subseteq S
  <2> HIDE DEF S
  <2> QED BY <1>1, <1>2, InductionOnNat
<1> QED BY <1>3

\* SizeOfAll is the value of that function at the whole payload.
LEMMA SizeOfAllIs ==
    ASSUME NEW slots \in Seq(Slot)
    PROVE  \E f : Sums(f, slots, Len(slots)) /\ SizeOfAll(slots) = f[1 .. Len(slots)]
<1> DEFINE F == CHOOSE f : Sums(f, slots, Len(slots))
<1>0. DOMAIN slots = 1 .. Len(slots) /\ Len(slots) \in Nat
  OBVIOUS
<1>1. Sums(F, slots, Len(slots))
  BY <1>0, SumsExists
<1>2. SizeOfAll(slots) = F[1 .. Len(slots)]
  BY <1>0 DEF SizeOfAll, FoldLeft, MapThenFoldSet, Sums
<1> QED BY <1>1, <1>2

\* One slot more adds its size.
LEMMA SumsStep ==
    ASSUME NEW slots, NEW n \in Nat, NEW f, Sums(f, slots, n), NEW k \in Nat, k + 1 <= n
    PROVE  f[1 .. k + 1] = f[1 .. k] + SizeOf(slots[k + 1])
<1> DEFINE s == 1 .. k + 1
<1>1. s \in SUBSET (1 .. n) /\ s \in SUBSET (1 .. k + 1) /\ k + 1 \in s /\ s # {}
  OBVIOUS
<1>2. s \ {k + 1} = 1 .. k
  OBVIOUS
<1> HIDE DEF s
<1>3. Max(s) = k + 1
  BY <1>1, MaxOf
<1>4. f[s] = f[s \ {Max(s)}] + SizeOf(slots[Max(s)])
  BY <1>1 DEF Sums
<1> QED BY <1>2, <1>3, <1>4 DEF s

\* The size of a slot is a number.
LEMMA SizeOfSlot == \A x \in Slot : SizeOf(x) \in Nat
<1> SUFFICES ASSUME NEW x \in Slot PROVE SizeOf(x) \in Nat
  OBVIOUS
<1>1. x.text \in Text
  BY DEF Slot
<1>2. Len(x.text) \in Nat
  BY <1>1, ConcatTexts
<1> QED BY <1>2, StreamAssumption DEF SizeOf

\* The fold over a beginning of a payload does not see what follows.
LEMMA SumsAgree ==
    ASSUME NEW slots \in Seq(Slot), NEW x \in Slot, NEW f, NEW g,
           Sums(f, slots, Len(slots)), Sums(g, Append(slots, x), Len(slots) + 1)
    PROVE  \A i \in 0 .. Len(slots) : f[1 .. i] = g[1 .. i] /\ f[1 .. i] \in Nat
<1> DEFINE n == Len(slots)  tt == Append(slots, x)
           S == {i \in Nat : i <= n => f[1 .. i] = g[1 .. i] /\ f[1 .. i] \in Nat}
<1>0. n \in Nat /\ \A i \in 1 .. n : tt[i] = slots[i] /\ slots[i] \in Slot
  OBVIOUS
<1> HIDE DEF n, tt
<1>1. 0 \in S
  <2>1. 1 .. 0 = {} /\ {} \in SUBSET (1 .. n) /\ {} \in SUBSET (1 .. n + 1)
    OBVIOUS
  <2>2. f[{}] = 0 /\ g[{}] = 0
    BY <2>1 DEF Sums, n
  <2> QED BY <2>1, <2>2
<1>2. ASSUME NEW i \in Nat, i \in S PROVE i + 1 \in S
  <2> SUFFICES ASSUME i + 1 <= n PROVE f[1 .. i + 1] = g[1 .. i + 1] /\ f[1 .. i + 1] \in Nat
    OBVIOUS
  <2>1. f[1 .. i] = g[1 .. i] /\ f[1 .. i] \in Nat /\ i + 1 \in 1 .. n /\ i + 1 <= n + 1 /\ n + 1 \in Nat
    BY <1>0, <1>2
  <2>2. f[1 .. i + 1] = f[1 .. i] + SizeOf(slots[i + 1])
    BY <1>0, SumsStep DEF n
  <2>3. g[1 .. i + 1] = g[1 .. i] + SizeOf(tt[i + 1])
    <3>1. Sums(g, tt, n + 1)
      BY DEF n, tt
    <3> QED BY <2>1, <3>1, SumsStep
  <2>4. SizeOf(slots[i + 1]) \in Nat /\ tt[i + 1] = slots[i + 1]
    BY <1>0, <2>1, SizeOfSlot
  <2> QED BY <2>1, <2>2, <2>3, <2>4
<1>3. Nat \subseteq S
  <2> HIDE DEF S
  <2> QED BY <1>1, <1>2, InductionOnNat
<1> QED BY <1>0, <1>3 DEF n

\* The size of a payload with one slot more.
LEMMA SizeOfAllAppend ==
    ASSUME NEW slots \in Seq(Slot), NEW x \in Slot
    PROVE  /\ SizeOfAll(slots) \in Nat
           /\ SizeOfAll(Append(slots, x)) = SizeOfAll(slots) + SizeOf(x)
<1> DEFINE n == Len(slots)  tt == Append(slots, x)
<1>0. n \in Nat /\ tt \in Seq(Slot) /\ Len(tt) = n + 1 /\ tt[n + 1] = x /\ n \in 0 .. n
      /\ n + 1 \in Nat /\ n + 1 <= n + 1
  OBVIOUS
<1> HIDE DEF tt
<1>1. PICK f : Sums(f, slots, n) /\ SizeOfAll(slots) = f[1 .. n]
  BY SizeOfAllIs
<1>2. PICK g : Sums(g, tt, n + 1) /\ SizeOfAll(tt) = g[1 .. n + 1]
  BY <1>0, SizeOfAllIs
<1>3. \A i \in 0 .. n : f[1 .. i] = g[1 .. i] /\ f[1 .. i] \in Nat
  BY <1>1, <1>2, SumsAgree DEF tt
<1>4. g[1 .. n + 1] = g[1 .. n] + SizeOf(tt[n + 1])
  <2> HIDE DEF n
  <2> QED BY <1>0, <1>2, SumsStep
<1>5. f[1 .. n] = g[1 .. n] /\ f[1 .. n] \in Nat
  BY <1>0, <1>3
<1> QED BY <1>0, <1>1, <1>2, <1>4, <1>5 DEF tt

\* A beginning of a payload is no larger than the payload.
LEMMA SizeOfPrefix ==
    ASSUME NEW slots \in Seq(Slot), NEW n \in 0 .. Len(slots)
    PROVE  /\ SizeOfAll(SubSeq(slots, 1, n)) \in Nat /\ SizeOfAll(slots) \in Nat
           /\ SizeOfAll(SubSeq(slots, 1, n)) <= SizeOfAll(slots)
<1> DEFINE size(k) == SizeOfAll(SubSeq(slots, 1, k))
           S == {k \in Nat : n + k <= Len(slots) => size(n) <= size(n + k)}
<1>1. ASSUME NEW k \in 0 .. Len(slots)
      PROVE  size(k) \in Nat /\ (k < Len(slots) => size(k) <= size(k + 1))
  <2> DEFINE d == SubSeq(slots, 1, k)
  <2>1. d \in Seq(Slot) /\ Stub \in Slot
    BY StubIsSlot
  <2>2. size(k) \in Nat
    <3> HIDE DEF d
    <3>1. SizeOfAll(d) \in Nat
      BY <2>1, SizeOfAllAppend
    <3> QED BY <3>1 DEF d
  <2>3. CASE k < Len(slots)
    <3>1. slots[k + 1] \in Slot /\ SubSeq(slots, 1, k + 1) = Append(d, slots[k + 1])
      BY <2>3
    <3> HIDE DEF d
    <3>2. SizeOfAll(Append(d, slots[k + 1])) = SizeOfAll(d) + SizeOf(slots[k + 1])
      BY <2>1, <3>1, SizeOfAllAppend
    <3>3. SizeOf(slots[k + 1]) \in Nat
      BY <3>1, SizeOfSlot
    <3>4. size(k + 1) = size(k) + SizeOf(slots[k + 1])
      BY <3>1, <3>2 DEF d
    <3> HIDE DEF size
    <3> QED BY <2>2, <3>3, <3>4
  <2> QED BY <2>2, <2>3
<1> HIDE DEF size
<1>2. 0 \in S
  <2>1. n + 0 = n /\ size(n) \in Nat
    BY <1>1
  <2> QED BY <2>1
<1>3. ASSUME NEW k \in Nat, k \in S PROVE k + 1 \in S
  <2> SUFFICES ASSUME n + (k + 1) <= Len(slots) PROVE size(n) <= size(n + (k + 1))
    OBVIOUS
  <2>1. n + k \in 0 .. Len(slots) /\ n + k < Len(slots) /\ (n + k) + 1 = n + (k + 1) /\ n + (k + 1) \in 0 .. Len(slots)
    OBVIOUS
  <2>2. size(n) <= size(n + k)
    BY <1>3, <2>1
  <2>3. size(n) \in Nat /\ size(n + k) \in Nat /\ size(n + (k + 1)) \in Nat
        /\ size(n + k) <= size((n + k) + 1)
    BY <1>1, <2>1
  <2> QED BY <2>1, <2>2, <2>3
<1>4. Nat \subseteq S
  <2> HIDE DEF S
  <2> QED BY <1>2, <1>3, InductionOnNat
<1>5. Len(slots) - n \in Nat /\ n + (Len(slots) - n) = Len(slots) /\ Len(slots) \in 0 .. Len(slots)
  OBVIOUS
<1>6. Len(slots) - n \in S
  <2> HIDE DEF S
  <2> QED BY <1>4, <1>5
<1>7. size(n) <= size(Len(slots))
  BY <1>5, <1>6
<1>8. SubSeq(slots, 1, Len(slots)) = slots
  OBVIOUS
<1> QED BY <1>1, <1>5, <1>7, <1>8 DEF size
-----------------------------------------------------------------------------
Defects == {"none", "name", "key", "hash", "range"}

\* The signed record is well formed, and right in its chunk counts unless that is
\* its defect.
RecordOK ==
    /\ record = [lens |-> record.lens, declared |-> record.declared, defect |-> record.defect]
    /\ record.lens \in Seq(Nat)
    /\ record.declared \in [DOMAIN record.lens -> Nat]
    /\ record.defect \in Defects
    /\ record.defect # "range" =>
          record.declared = [s \in DOMAIN record.lens |-> Chunks(record.lens[s])]

\* A segment as it was sealed.
Sealed(s) == SealStream(s, SegText(s))

\* What a store can serve: it cannot make a sealed chunk of its own.
Served == {o \in [head : {"whole", "broken"}, slots : Seq(Slot)] :
              \A i \in DOMAIN o.slots : o.slots[i].kind = "sealed" => o.slots[i] \in Genuine}

\* The records the engine writes, and those with one defect, are well formed.
LEMMA InitialRecord == Init => RecordOK
<1> SUFFICES ASSUME Init PROVE RecordOK
  OBVIOUS
<1>1. PICK lens \in Lengths : record \in Records(lens)
  BY DEF Init
<1>2. lens \in Seq(Nat)
  BY RecordStreamAssumption
<1> DEFINE right == [s \in DOMAIN lens |-> Chunks(lens[s])]
<1>3. right \in [DOMAIN lens -> Nat]
  <2>1. ASSUME NEW s \in DOMAIN lens PROVE Chunks(lens[s]) \in Nat
    <3>1. lens[s] \in Nat
      BY <1>2
    <3> QED BY <3>1, ChunksCut
  <2> QED BY <2>1
<1>4. \/ record \in [lens : {lens}, declared : {right}, defect : {"none", "name", "key", "hash"}]
      \/ \E n \in Nat : record = [lens |-> lens, declared |-> [right EXCEPT ![1] = n], defect |-> "range"]
  <2> DEFINE A == [lens : {lens}, declared : {right}, defect : {"none", "name", "key", "hash"}]
             N == {m \in 0 .. MaxSegmentChunks + 1 : lens # <<>> /\ m # right[1]}
             r(n) == [lens |-> lens, declared |-> [right EXCEPT ![1] = n], defect |-> "range"]
  <2>1. Records(lens) = A \cup {r(n) : n \in N}
    BY DEF Records
  <2>2. N \subseteq Nat
    BY RecordStreamAssumption
  <2> HIDE DEF A, N, r
  <2>3. record \in A \/ \E n \in Nat : record = r(n)
    BY <1>1, <2>1, <2>2
  <2> QED BY <2>3 DEF A, r
<1>5. \A n \in Nat : [right EXCEPT ![1] = n] \in [DOMAIN lens -> Nat]
  <2> HIDE DEF right
  <2> QED BY <1>3
<1> HIDE DEF right
<1>6. CASE record \in [lens : {lens}, declared : {right}, defect : {"none", "name", "key", "hash"}]
  <2>1. record.lens = lens /\ record.declared = right
    BY <1>6
  <2> QED BY <1>2, <1>3, <1>6, <2>1 DEF RecordOK, Defects, right
<1>7. ASSUME NEW n \in Nat,
             record = [lens |-> lens, declared |-> [right EXCEPT ![1] = n], defect |-> "range"]
      PROVE  RecordOK
  BY <1>2, <1>5, <1>7 DEF RecordOK, Defects
<1> QED BY <1>4, <1>6, <1>7

\* The text of a segment has the length the record gives.
LEMMA SegTextType ==
    ASSUME RecordOK, NEW s \in Segments
    PROVE  /\ SegText(s) \in Text /\ Len(SegText(s)) = record.lens[s]
           /\ record.lens[s] \in Nat /\ s \in Nat \ {0} /\ record.declared[s] \in Nat
           /\ Segments = 1 .. Len(record.lens)
<1>1. record.lens[s] \in Nat /\ s \in Nat \ {0} /\ record.declared[s] \in Nat
      /\ Segments = 1 .. Len(record.lens)
  BY DEF RecordOK, Segments
<1>2. \A i \in 1 .. record.lens[s] : <<s, i>> \in Byte
  BY <1>1 DEF Byte
<1> QED BY <1>1, <1>2 DEF SegText, Text

\* A segment as it is sealed.
LEMMA SealedType ==
    ASSUME RecordOK, NEW s \in Segments
    PROVE  /\ Sealed(s) \in Seq(Slot) /\ Len(Sealed(s)) = Chunks(record.lens[s])
           /\ Chunks(record.lens[s]) \in Nat \ {0}
           /\ \A i \in 1 .. Len(Sealed(s)) :
                 Sealed(s)[i] = Chunk(s, i - 1, i = Len(Sealed(s)), PieceOf(SegText(s), i))
           /\ TextOf(Sealed(s)) = SegText(s)
<1>1. SegText(s) \in Text /\ Len(SegText(s)) = record.lens[s] /\ s \in Nat
  BY SegTextType
<1> DEFINE text == SegText(s)
<1> HIDE DEF text
<1>2. text \in Text /\ s \in Nat /\ Len(text) = record.lens[s]
  BY <1>1 DEF text
<1>3. Sealed(s) = SealStream(s, text)
  BY DEF Sealed, text
<1>4. /\ Sealed(s) \in Seq(Slot) /\ Len(Sealed(s)) = Chunks(Len(text))
      /\ Chunks(Len(text)) \in Nat \ {0}
      /\ \A i \in 1 .. Chunks(Len(text)) :
            Sealed(s)[i] = Chunk(s, i - 1, i = Chunks(Len(text)), PieceOf(text, i))
  <2>1. /\ SealStream(s, text) \in Seq(Slot) /\ Len(SealStream(s, text)) = Chunks(Len(text))
        /\ Chunks(Len(text)) \in Nat \ {0}
        /\ \A i \in 1 .. Chunks(Len(text)) :
              SealStream(s, text)[i] = Chunk(s, i - 1, i = Chunks(Len(text)), PieceOf(text, i))
    BY <1>2, SealedChunk
  <2> QED BY <1>3, <2>1, Zenon
<1>5. TextOf(Sealed(s)) = text
  BY <1>2, <1>3, TextOfSealed
<1>6. \A i \in 1 .. Len(Sealed(s)) :
            Sealed(s)[i] = Chunk(s, i - 1, i = Len(Sealed(s)), PieceOf(text, i))
  BY <1>4
<1> QED BY <1>2, <1>4, <1>5, <1>6 DEF text

\* A genuine chunk names its segment, its index and whether it is the last.
LEMMA GenuineChunk ==
    ASSUME RecordOK
    PROVE  /\ \A c \in Genuine : \E s \in Segments : \E i \in 1 .. Len(Sealed(s)) : c = Sealed(s)[i]
           /\ \A s \in Segments : \A i \in 1 .. Len(Sealed(s)) : Sealed(s)[i] \in Genuine
<1>1. \A s \in Segments : DOMAIN Sealed(s) = 1 .. Len(Sealed(s))
  BY SealedType
<1>2. Genuine = UNION {{Sealed(s)[i] : i \in DOMAIN Sealed(s)} : s \in Segments}
  BY DEF Genuine, ToSet, Sealed
<1>3. ASSUME NEW c \in Genuine
      PROVE  \E s \in Segments : \E i \in 1 .. Len(Sealed(s)) : c = Sealed(s)[i]
  BY <1>1, <1>2
<1>4. ASSUME NEW s \in Segments, NEW i \in 1 .. Len(Sealed(s)) PROVE Sealed(s)[i] \in Genuine
  BY <1>1, <1>2
<1> QED BY <1>3, <1>4

\* Key, counter and flag determine the chunk.
LEMMA OpensGenuine ==
    ASSUME RecordOK, NEW x \in Genuine, NEW s \in Segments, NEW n \in Nat, NEW last \in BOOLEAN,
           Opens(x, s, n, last)
    PROVE  /\ n + 1 \in 1 .. Len(Sealed(s)) /\ x = Sealed(s)[n + 1]
           /\ last = (n + 1 = Len(Sealed(s)))
<1>0. PICK t \in Segments : \E i \in 1 .. Len(Sealed(t)) : x = Sealed(t)[i]
  BY GenuineChunk
<1>1. PICK i \in 1 .. Len(Sealed(t)) : x = Sealed(t)[i]
  BY <1>0
<1>2. Len(Sealed(t)) \in Nat
  BY SealedType
<1>3. x = Chunk(t, i - 1, i = Len(Sealed(t)), PieceOf(SegText(t), i))
  BY <1>1, SealedType
<1>4. t = s /\ i - 1 = n /\ last = (i = Len(Sealed(t)))
  BY <1>3 DEF Opens, Chunk
<1>5. i = n + 1
  BY <1>2, <1>4
<1> QED BY <1>1, <1>4, <1>5

\* A payload that opens as a stream is the segment as it was sealed.
LEMMA OpensAll ==
    ASSUME RecordOK, NEW s \in Segments, NEW o \in Served, OpenStream(s, o.slots)
    PROVE  o.slots = Sealed(s)
<1> DEFINE slots == o.slots  n == Len(slots)
<1>1. slots \in Seq(Slot) /\ n \in Nat /\ DOMAIN slots = 1 .. n /\ slots # <<>>
  BY DEF Served, OpenStream
<1>2. ASSUME NEW i \in 1 .. n
      PROVE  i \in 1 .. Len(Sealed(s)) /\ slots[i] = Sealed(s)[i] /\ (i = n) = (i = Len(Sealed(s)))
  <2>1. Opens(slots[i], s, i - 1, i = n) /\ slots[i].kind = "sealed"
    BY <1>1 DEF OpenStream, Opens
  <2>2. slots[i] \in Genuine /\ i - 1 \in Nat /\ (i = n) \in BOOLEAN /\ (i - 1) + 1 = i
    BY <1>1, <2>1 DEF Served
  <2> HIDE DEF slots, n
  <2> DEFINE b == (i = n)  k == i - 1
  <2>3. k + 1 = i
    BY <2>2
  <2>4. k \in Nat /\ b \in BOOLEAN /\ Opens(slots[i], s, k, b)
    BY <2>1, <2>2
  <2> HIDE DEF b, k
  <2>5. k + 1 \in 1 .. Len(Sealed(s)) /\ slots[i] = Sealed(s)[k + 1] /\ b = (k + 1 = Len(Sealed(s)))
    BY <2>2, <2>4, OpensGenuine
  <2> QED BY <2>3, <2>5 DEF b
<1>3. n >= 1
  BY <1>1
<1>4. Sealed(s) \in Seq(Slot) /\ n = Len(Sealed(s))
  <2> HIDE DEF slots, n
  <2> QED BY <1>1, <1>2, <1>3, SealedType
<1> HIDE DEF slots
<1>5. slots = Sealed(s)
  BY <1>1, <1>2, <1>4, SeqEqual
<1> QED BY <1>5 DEF slots

\* Whatever a store serves is made of genuine chunks and other bytes.
LEMMA ServedObjects ==
    ASSUME RecordOK, NEW s \in Segments, NEW o \in Objects \cup {Intact(s)}
    PROVE  o \in Served
<1> USE StreamAssumption, RecordStreamAssumption
<1>1. \A c \in Genuine : c \in Slot
  <2> SUFFICES ASSUME NEW c \in Genuine PROVE c \in Slot
    OBVIOUS
  <2>1. PICK t \in Segments : \E i \in 1 .. Len(Sealed(t)) : c = Sealed(t)[i]
    BY GenuineChunk
  <2> QED BY <2>1, SealedType
<1>2. \A n \in Nat : Junk(n) \in Slot /\ Junk(n).kind = "junk"
  <2> SUFFICES ASSUME NEW n \in Nat PROVE Junk(n) \in Slot /\ Junk(n).kind = "junk"
    OBVIOUS
  <2>1. \A i \in 1 .. n : <<0, i>> \in Byte
    BY DEF Byte
  <2>2. [i \in 1 .. n |-> <<0, i>>] \in Text
    BY <2>1 DEF Text
  <2> QED BY <2>2 DEF Junk, Slot
<1> DEFINE Good == {c \in Slot : c.kind = "sealed" => c \in Genuine}
<1>3. FullSlots \subseteq Good /\ TailSlots \subseteq Good
  <2>1. Stub \in Slot /\ Stub.kind = "stub"
    BY StubIsSlot DEF Stub
  <2> QED BY <1>1, <1>2, <2>1 DEF FullSlots, TailSlots
<1>4. \A p \in Payloads : p \in Seq(Good)
  <2> HIDE DEF Good
  <2> DEFINE heads == UNION {[1 .. k -> FullSlots] : k \in 0 .. MaxSlots}
  <2>1. \A h \in heads : h \in Seq(Good)
    <3> SUFFICES ASSUME NEW k \in 0 .. MaxSlots, NEW h \in [1 .. k -> FullSlots] PROVE h \in Seq(Good)
      OBVIOUS
    <3> QED BY <1>3
  <2>2. Payloads = heads \cup {Append(h, t) : h \in heads, t \in TailSlots}
    BY DEF Payloads
  <2> HIDE DEF heads
  <2>3. \A h \in heads, t \in TailSlots : Append(h, t) \in Seq(Good)
    BY <1>3, <2>1
  <2> QED BY <2>1, <2>2, <2>3
<1>5. ASSUME NEW p \in Seq(Good), NEW h \in {"whole", "broken"}
      PROVE  [head |-> h, slots |-> p] \in Served
  <2>1. p \in Seq(Slot) /\ \A i \in DOMAIN p : p[i].kind = "sealed" => p[i] \in Genuine
    <3>1. \A i \in DOMAIN p : p[i] \in Good
      <4> HIDE DEF Good
      <4> QED OBVIOUS
    <3>2. \A i \in DOMAIN p : p[i] \in Slot /\ (p[i].kind = "sealed" => p[i] \in Genuine)
      BY <3>1
    <3>3. p \in Seq(Slot)
      <4>1. Good \subseteq Slot
        OBVIOUS
      <4> HIDE DEF Good
      <4> QED BY <4>1, SeqMonotonic
    <3> QED BY <3>2, <3>3
  <2> QED BY <2>1 DEF Served
<1>6. Sealed(s) \in Seq(Good)
  <2>1. Sealed(s) \in Seq(Slot)
    BY SealedType
  <2>2. \A i \in 1 .. Len(Sealed(s)) : Sealed(s)[i] \in Good
    BY <2>1, GenuineChunk
  <2> HIDE DEF Good
  <2> QED BY <2>1, <2>2
<1>7. <<>> \in Seq(Good)
  <2> HIDE DEF Good
  <2> QED OBVIOUS
<1> HIDE DEF Good
<1>8. CASE o = Intact(s)
  BY <1>5, <1>6, <1>8 DEF Intact, Sealed
<1>9. CASE o \in Objects
  BY <1>4, <1>5, <1>7, <1>9 DEF Objects
<1> QED BY <1>8, <1>9

-----------------------------------------------------------------------------
(***************************************************************************)
(* The value is the concatenation of the segments, one at a time.          *)
(***************************************************************************)
Before(n) == FlattenSeq([s \in 1 .. n |-> SegText(s)])

\* The plaintext of the first segments, one segment at a time.
LEMMA BeforeStep ==
    ASSUME RecordOK
    PROVE  /\ Before(0) = <<>> /\ Before(Len(record.lens)) = Value
           /\ \A n \in 0 .. Len(record.lens) : Before(n) \in Text
           /\ \A n \in Nat : n + 1 \in Segments => Before(n + 1) = Before(n) \o SegText(n + 1)
<1> DEFINE part(n) == [s \in 1 .. n |-> SegText(s)]
<1>0. Segments = 1 .. Len(record.lens) /\ Len(record.lens) \in Nat
  BY DEF RecordOK, Segments
<1>1. ASSUME NEW n \in 0 .. Len(record.lens)
      PROVE  part(n) \in Seq(Text) /\ Len(part(n)) = n
  <2>1. \A s \in 1 .. n : SegText(s) \in Text
    BY <1>0, SegTextType
  <2> QED BY <2>1
<1>2. Before(0) = <<>>
  <2>1. part(0) = <<>>
    OBVIOUS
  <2> QED BY <2>1, FlattenEmpty DEF Before
<1>3. Before(Len(record.lens)) = Value
  BY <1>0 DEF Before, Value
<1>4. ASSUME NEW n \in 0 .. Len(record.lens) PROVE Before(n) \in Text
  <2>1. part(n) \in Seq(Seq(Byte))
    BY <1>1 DEF Text
  <2> HIDE DEF part
  <2>2. FlattenSeq(part(n)) \in Seq(Byte)
    BY <2>1, FlattenType
  <2> QED BY <2>2 DEF Before, Text, part
<1>5. ASSUME NEW n \in Nat, n + 1 \in Segments
      PROVE  Before(n + 1) = Before(n) \o SegText(n + 1)
  <2>1. n \in 0 .. Len(record.lens)
    BY <1>0, <1>5
  <2>2. SegText(n + 1) \in Text
    BY <1>5, SegTextType
  <2>3. part(n + 1) = Append(part(n), SegText(n + 1))
    OBVIOUS
  <2>4. part(n) \in Seq(Seq(Byte)) /\ SegText(n + 1) \in Seq(Byte)
    BY <1>1, <2>1, <2>2 DEF Text
  <2> HIDE DEF part
  <2>5. FlattenSeq(Append(part(n), SegText(n + 1))) = FlattenSeq(part(n)) \o SegText(n + 1)
    BY <2>4, FlattenAppend
  <2> QED BY <2>3, <2>5 DEF Before, part
<1> QED BY <1>2, <1>3, <1>4, <1>5

\* The plaintext of all the sealed segments is the value.
LEMMA TextOfSegments ==
    ASSUME RecordOK, NEW n \in 0 .. Len(record.lens)
    PROVE  TextOf(FlattenSeq([s \in 1 .. n |-> Sealed(s)])) = Before(n)
<1> DEFINE part(k) == [s \in 1 .. k |-> Sealed(s)]
           S == {k \in Nat : k <= Len(record.lens) => TextOf(FlattenSeq(part(k))) = Before(k)}
<1>0. Segments = 1 .. Len(record.lens) /\ Len(record.lens) \in Nat
  BY DEF RecordOK, Segments
<1>1. ASSUME NEW k \in 0 .. Len(record.lens) PROVE part(k) \in Seq(Seq(Slot))
  <2>1. \A s \in 1 .. k : Sealed(s) \in Seq(Slot)
    BY <1>0, SealedType
  <2> QED BY <2>1
<1>2. 0 \in S
  <2>1. part(0) = <<>>
    OBVIOUS
  <2>2. TextOf(<<>>) = <<>>
    BY TextOfAppend, StubIsSlot, EmptySeq
  <2> HIDE DEF part
  <2> QED BY <2>1, <2>2, FlattenEmpty, BeforeStep
<1>3. ASSUME NEW k \in Nat, k \in S PROVE k + 1 \in S
  <2> SUFFICES ASSUME k + 1 <= Len(record.lens)
               PROVE  TextOf(FlattenSeq(part(k + 1))) = Before(k + 1)
    OBVIOUS
  <2>1. k \in 0 .. Len(record.lens) /\ k + 1 \in Segments
    BY <1>0
  <2>2. part(k + 1) = Append(part(k), Sealed(k + 1))
    OBVIOUS
  <2>3. TextOf(FlattenSeq(part(k))) = Before(k)
    BY <1>3, <2>1
  <2>4. part(k) \in Seq(Seq(Slot)) /\ Sealed(k + 1) \in Seq(Slot)
    BY <1>1, <2>1, SealedType
  <2> HIDE DEF part
  <2>5. FlattenSeq(part(k + 1)) = FlattenSeq(part(k)) \o Sealed(k + 1)
    BY <2>2, <2>4, FlattenAppend
  <2>6. FlattenSeq(part(k)) \in Seq(Slot)
    BY <2>4, FlattenType
  <2>7. TextOf(FlattenSeq(part(k)) \o Sealed(k + 1)) = TextOf(FlattenSeq(part(k))) \o TextOf(Sealed(k + 1))
    BY <2>4, <2>6, TextOfConcat
  <2>8. TextOf(Sealed(k + 1)) = SegText(k + 1) /\ Before(k + 1) = Before(k) \o SegText(k + 1)
    BY <2>1, SealedType, BeforeStep
  <2> QED BY <2>3, <2>5, <2>7, <2>8
<1>4. Nat \subseteq S
  <2> HIDE DEF S
  <2> QED BY <1>2, <1>3, InductionOnNat
<1> QED BY <1>4
-----------------------------------------------------------------------------
\* Where the reader stands, and where it stands inside a segment.
ReaderPlaces == {"seal", "get", "head", "first", "next", "open", "write", "end", "done"}
Mid == {"head", "first", "next", "open", "write", "end"}

(***************************************************************************)
(* In the middle of a segment: what has been opened of the object so far   *)
(* are non-last chunks of this segment in their order, the current slot is *)
(* the one after them, and the hash has seen exactly their plaintext.      *)
(***************************************************************************)
AtSegment ==
    /\ seg \in Segments /\ Len(objs) = seg
    /\ rpc # "head" => /\ Obj.head = "whole" /\ record.defect # "key"
                       /\ ChunkBound(record.declared[seg])
    /\ rpc \in {"head", "first"} => at = 0 /\ counter = 0 /\ got = 0 /\ sum = Before(seg - 1)
    /\ rpc \in {"next", "open", "write", "end"} =>
          /\ counter < Len(Obj.slots) /\ counter <= MaxChunkIndex
          /\ cur = Obj.slots[counter + 1]
          /\ \A i \in 1 .. counter : Opens(Obj.slots[i], seg, i - 1, FALSE)
    /\ rpc = "next" => at = counter + 1
    /\ rpc \in {"open", "write"} =>
          IF more THEN at = counter + 2 /\ at <= Len(Obj.slots)
          ELSE Len(Obj.slots) = counter + 1 /\ SizeOfAll(Obj.slots) <= ObjectLimit
    /\ rpc = "write" => Opens(cur, seg, counter, ~more) /\ counter < record.declared[seg]
    /\ rpc \in {"next", "open", "write"} =>
          /\ got = ChunkSize * counter
          /\ sum = Before(seg - 1) \o SubSeq(SegText(seg), 1, ChunkSize * counter)
    /\ rpc = "end" =>
          /\ OpenStream(seg, Obj.slots) /\ Len(Obj.slots) <= record.declared[seg]
          /\ SizeOfAll(Obj.slots) <= ObjectLimit
          /\ got = record.lens[seg] /\ sum = Before(seg)

\* How far the reader is: every earlier segment was served intact and would be
\* accepted by the buffered path, and the hash has seen all of it.
ReaderInv ==
    /\ RecordOK /\ rpc \in ReaderPlaces
    /\ seg \in 1 .. Len(record.lens) + 1
    /\ objs \in Seq(Served) /\ Len(objs) >= seg - 1
    /\ at \in Nat /\ cur \in Slot /\ more \in BOOLEAN /\ counter \in Nat
    /\ got \in Nat /\ sum \in Text
    /\ rpc = "seal" => seg = 1
    /\ rpc \in {"seal", "get"} => Len(objs) = seg - 1 /\ sum = Before(seg - 1)
    /\ \A s \in 1 .. seg - 1 : objs[s] = Intact(s) /\ BufferedSegment(s)
    /\ objs # <<>> => record.defect # "name"
    /\ rpc \in Mid => AtSegment

\* What depends on the record alone stays.
LEMMA RecordStays ==
    ASSUME record' = record
    PROVE  /\ RecordOK' = RecordOK /\ Segments' = Segments /\ Served' = Served /\ Value' = Value
           /\ \A s : SegText(s)' = SegText(s) /\ Sealed(s)' = Sealed(s) /\ Intact(s)' = Intact(s)
           /\ \A n : Before(n)' = Before(n)
<1>1. Segments' = Segments /\ \A s : SegText(s)' = SegText(s)
  BY DEF Segments, SegText
<1>2. \A s : Sealed(s)' = Sealed(s) /\ Intact(s)' = Intact(s)
  BY <1>1 DEF Sealed, Intact
<1>3. \A n : Before(n)' = Before(n)
  BY <1>1 DEF Before
<1>4. Value' = Value
  BY <1>1 DEF Value
<1>5. Genuine' = Genuine
  BY <1>1 DEF Genuine
<1>6. Served' = Served
  BY <1>5 DEF Served
<1>7. RecordOK' = RecordOK
  BY DEF RecordOK
<1> QED BY <1>1, <1>2, <1>3, <1>4, <1>6, <1>7

\* A step that leaves the reader alone.
LEMMA SameReader ==
    ASSUME ReaderInv, UNCHANGED <<record, rpc, reader>>
    PROVE  ReaderInv'
<1>1. AtSegment => AtSegment'
  BY RecordStays DEF AtSegment, reader, Obj
<1>2. \A s \in 1 .. seg - 1 : BufferedSegment(s) => BufferedSegment(s)'
  BY RecordStays DEF BufferedSegment, reader
<1> QED BY <1>1, <1>2, RecordStays DEF ReaderInv, reader
-----------------------------------------------------------------------------
\* What RestoreRecordTo returns.
Verdicts == {NotYet, Nil, Teardown}
                \cup {Err(c) : c \in {"unverified", "unreachable", "uncoded", "plaintext"}}

(***************************************************************************)
(* What the reader returned: while nothing disturbed the transfer, what    *)
(* the buffered path returns but for its ceiling; nil only for the value   *)
(* itself; and each of the codes but unverified only for a cause of its    *)
(* own.                                                                    *)
(***************************************************************************)
FaultType == [transport : BOOLEAN, waited : BOOLEAN, target : BOOLEAN]

HasCause ==
    /\ rerr.code = "unreachable" => fault.transport
    /\ rerr.code = "uncoded" => fault.transport \/ record.defect = "name"
    /\ rerr.code = "plaintext" => record.defect = "hash"

VerdictInv ==
    /\ body \in [flows : BOOLEAN, interrupted : BOOLEAN, timedOut : BOOLEAN, armed : BOOLEAN]
    /\ fault \in FaultType
    /\ body.timedOut \/ body.interrupted => Disturbed
    /\ rerr \in Verdicts /\ (rerr = NotYet <=> rpc # "done")
    /\ Judged => rerr = RestoreRecord(FALSE)
    /\ HasCause
    /\ rerr = Nil => HashAgrees(sum)

\* Where WriteStream stands, and where it has not returned yet.
TargetPlaces == {"idle", "reserve", "temp", "copy", "rename", "returned", "await", "finished"}
Writing == {"idle", "reserve", "temp", "copy", "rename"}

(***************************************************************************)
(* What the target holds: the temporary file and what is still offered are *)
(* together the plaintext the reader has opened, the path is reserved just *)
(* while the file is being written, and a value is there only after a      *)
(* clean end of the pipe.                                                  *)
(***************************************************************************)
FlowInv ==
    /\ sink \in {"file", "discard"} /\ tpc \in TargetPlaces
    /\ offer \in [on : BOOLEAN, text : Text] /\ (~offer.on => offer.text = <<>>)
    /\ offer.on => rpc = "write"
    /\ temp \in [is : {"none", "file"}, text : Text]
    /\ dest \in [is : {"free", "taken", "reserved", "value"}, text : Text]
    /\ tpc = "idle" <=> rpc = "seal"
    /\ tpc \in {"reserve", "temp", "rename"} => sink = "file"
    /\ dest.is # "value" => dest.text = <<>>
    /\ dest.is = "reserved" <=> sink = "file" /\ tpc \in {"temp", "copy", "rename"}
    /\ dest.is = "taken" => sink = "file"
    /\ dest.is = "value" <=> werr = Nil
    /\ werr = NotYet <=> tpc \in Writing
    /\ tpc \in {"idle", "reserve", "temp"} => temp.text = <<>>
    /\ tpc \in Writing /\ rerr \in {NotYet, Nil} =>
          temp.text \o offer.text = IF rpc = "write" THEN sum \o cur.text ELSE sum
    /\ tpc = "rename" => rerr = Nil
    /\ dest.is = "value" => rerr = Nil /\ record.defect # "hash" /\ dest.text = Value
    /\ pipe = [w |-> rerr, r |-> tpc \in {"await", "finished"}]
    /\ rerr.teardown => pipe.r
    /\ werr \in {NotYet, Nil, Err("write")} \/ (werr = rerr /\ ~rerr.teardown)
    /\ werr = Err("write") => fault.target \/ dest.is = "taken"
    /\ tpc = "finished" => rerr # NotYet
    /\ result = IF tpc = "finished" THEN Weigh(rerr, werr) ELSE NotYet

(***************************************************************************)
(* The streaming writer, while it is open: full chunks of the value have   *)
(* been sealed in their order, and the buffer and what is left continue it.*)
(***************************************************************************)
First == IF record.lens = <<>> THEN <<>> ELSE SegText(1)

Written(n) == [i \in 1 .. n |-> Chunk(1, i - 1, FALSE,
                                      SubSeq(First, ChunkSize * (i - 1) + 1, ChunkSize * i))]

WriterInv ==
    LET n == Len(w.stream.out)  b == Len(w.stream.buf)
    IN  /\ w \in [stream : [buf : Text, out : Seq(Slot), counter : Nat,
                            state : {"open", "closed", "failed"}],
                  left : Text]
        /\ rpc # "seal" => w.stream.state = "closed"
        /\ w.stream.state = "open" =>
              /\ w.stream.out = Written(n) /\ w.stream.counter = n /\ n <= MaxChunkIndex
              /\ b <= ChunkSize /\ (b = 0 => n = 0)
              /\ ChunkSize * n + b + Len(w.left) = Len(First)
              /\ w.stream.buf = SubSeq(First, ChunkSize * n + 1, ChunkSize * n + b)
              /\ w.left = SubSeq(First, ChunkSize * n + b + 1, Len(First))
        /\ w.stream.state = "failed" => w.stream.out = Written(n) /\ ~CanSeal(First)
        /\ w.stream.state = "closed" => w.stream.out = SealStream(1, First)
-----------------------------------------------------------------------------
\* The reader returns.
LEMMA ReturnedReader ==
    ASSUME ReaderInv, rpc' = "done", UNCHANGED <<record, reader>>
    PROVE  ReaderInv'
<1>1. \A s \in 1 .. seg - 1 : BufferedSegment(s) => BufferedSegment(s)'
  BY RecordStays DEF BufferedSegment, reader
<1> QED BY <1>1, RecordStays DEF ReaderInv, reader, Mid, ReaderPlaces

\* The object being read, and its slots.
LEMMA ObjType ==
    ASSUME ReaderInv, rpc \in Mid
    PROVE  /\ Obj = objs[seg] /\ Obj \in Served /\ Obj.slots \in Seq(Slot)
           /\ Len(Obj.slots) \in Nat /\ seg \in Segments /\ seg \in Nat \ {0} /\ Len(objs) = seg
           /\ record.declared[seg] \in Nat /\ record.defect # "name"
<1>1. seg \in Segments /\ Len(objs) = seg
  BY DEF ReaderInv, AtSegment
<1>2. seg \in Nat \ {0} /\ record.declared[seg] \in Nat
  BY <1>1, SegTextType DEF ReaderInv
<1>3. Obj = objs[seg] /\ Obj \in Served /\ objs # <<>>
  BY <1>1, <1>2 DEF Obj, ReaderInv
<1>4. Obj.slots \in Seq(Slot)
  BY <1>3 DEF Served
<1> QED BY <1>1, <1>2, <1>3, <1>4 DEF ReaderInv

\* GetReader starts a segment with nothing read of it.
LEMMA ReaderGetReader ==
    ASSUME ReaderInv, GetReader
    PROVE  ReaderInv'
<1>1. PICK o \in Objects \cup {Intact(seg)} : objs' = Append(objs, o)
  BY DEF GetReader
<1>2. /\ rpc = "get" /\ seg \in Segments /\ record.defect # "name" /\ rpc' = "head"
      /\ at' = 0 /\ counter' = 0 /\ got' = 0 /\ record' = record
      /\ UNCHANGED <<seg, cur, more, sum>>
  BY DEF GetReader, source
<1>3. RecordOK /\ seg \in Nat \ {0} /\ Len(objs) = seg - 1 /\ sum = Before(seg - 1)
  BY <1>2 DEF ReaderInv
<1>4. o \in Served
  BY <1>1, <1>2, <1>3, ServedObjects
<1>5. /\ objs' \in Seq(Served) /\ Len(objs') = seg /\ objs' # <<>>
      /\ \A s \in 1 .. seg - 1 : objs'[s] = objs[s]
  BY <1>1, <1>3, <1>4 DEF ReaderInv
<1>6. \A s \in 1 .. seg - 1 : BufferedSegment(s) => BufferedSegment(s)'
  BY <1>2, <1>5, RecordStays DEF BufferedSegment
<1>7. AtSegment'
  BY <1>2, <1>3, <1>5, RecordStays DEF AtSegment
<1> QED BY <1>2, <1>3, <1>5, <1>6, <1>7, RecordStays DEF ReaderInv, ReaderPlaces, Mid

\* A step inside a segment leaves the finished ones alone.
LEMMA ReaderInside ==
    ASSUME ReaderInv, rpc \in Mid, rpc' \in Mid, record' = record, UNCHANGED <<seg, objs>>,
           at' \in Nat, cur' \in Slot, more' \in BOOLEAN, counter' \in Nat, got' \in Nat,
           sum' \in Text, AtSegment'
    PROVE  ReaderInv'
<1>1. \A s \in 1 .. seg - 1 : BufferedSegment(s) => BufferedSegment(s)'
  BY RecordStays DEF BufferedSegment
<1> QED BY <1>1, RecordStays DEF ReaderInv, ReaderPlaces, Mid

\* openSegmentStream: range, key and header are checked before the first chunk.
LEMMA ReaderOpenSegmentStream ==
    ASSUME ReaderInv, OpenSegmentStream
    PROVE  ReaderInv'
<1>1. rpc = "head" /\ rpc \in Mid /\ UNCHANGED <<record, reader>>
  BY DEF OpenSegmentStream, source, Mid
<1>2. CASE rpc' = "done"
  BY <1>1, <1>2, ReturnedReader
<1>3. CASE rpc' # "done"
  <2>1. /\ rpc' = "first" /\ ChunkBound(record.declared[seg]) /\ record.defect # "key"
        /\ Obj.head # "broken"
    BY <1>3 DEF OpenSegmentStream, Return
  <2>2. Obj.head = "whole" /\ Obj' = Obj
    BY <1>1, <2>1, ObjType DEF Served, Obj, reader
  <2>3. AtSegment'
    BY <1>1, <2>1, <2>2, RecordStays DEF ReaderInv, AtSegment, reader, Mid, ChunkBound
  <2> QED BY <1>1, <2>1, <2>3, ReaderInside DEF ReaderInv, reader, Mid
<1> QED BY <1>2, <1>3

\* The first slot becomes current.
LEMMA ReaderReadFirstChunk ==
    ASSUME ReaderInv, ReadFirstChunk
    PROVE  ReaderInv'
<1>1. rpc = "first" /\ rpc \in Mid /\ UNCHANGED <<record, seg, objs, more, counter, sum, got>>
  BY DEF ReadFirstChunk, source, Mid
<1>2. CASE rpc' = "done"
  BY <1>1, <1>2, ReturnedReader DEF ReadFirstChunk, Return, reader
<1>3. CASE rpc' # "done"
  <2>1. rpc' = "next" /\ cur' = Obj.slots[at + 1] /\ at' = at + 1 /\ at < Len(Obj.slots)
    BY <1>3 DEF ReadFirstChunk, Return, SlotArrives
  <2>2. at = 0 /\ counter = 0 /\ got = 0 /\ sum = Before(seg - 1) /\ RecordOK /\ seg \in Segments
        /\ Obj' = Obj /\ Obj.head = "whole" /\ record.defect # "key" /\ ChunkBound(record.declared[seg])
    BY <1>1 DEF ReaderInv, AtSegment, Mid, Obj
  <2>3. cur' \in Slot /\ at' = 1 /\ cur' = Obj.slots[1]
    BY <1>1, <2>1, <2>2, ObjType
  <2>4. ChunkSize * 0 = 0 /\ sum = Before(seg - 1) \o SubSeq(SegText(seg), 1, 0)
    <3>1. SubSeq(SegText(seg), 1, 0) = <<>>
      OBVIOUS
    <3>2. sum \in Text
      BY DEF ReaderInv
    <3>3. sum \o <<>> = sum
      BY <3>2, ConcatEmpty
    <3>4. ChunkSize * 0 = 0
      BY StreamAssumption
    <3> QED BY <2>2, <3>1, <3>3, <3>4
  <2>5. AtSegment'
    <3>1. /\ counter' < Len(Obj'.slots) /\ counter' <= MaxChunkIndex /\ at' = counter' + 1
          /\ cur' = Obj'.slots[counter' + 1] /\ 1 .. counter' = {}
      BY <1>1, <2>1, <2>2, <2>3, ObjType, StreamAssumption
    <3>2. /\ got' = ChunkSize * counter' /\ record' = record /\ seg' = seg
          /\ sum' = Before(seg' - 1) \o SubSeq(SegText(seg'), 1, ChunkSize * counter')
      BY <1>1, <2>2, <2>4
    <3>3. Len(objs') = seg'
      BY <1>1, ObjType
    <3> QED BY <2>1, <2>2, <3>1, <3>2, <3>3, RecordStays DEF AtSegment, ChunkBound
  <2>6. at' \in Nat /\ more' \in BOOLEAN /\ counter' \in Nat /\ got' \in Nat /\ sum' \in Text
    BY <1>1, <2>3 DEF ReaderInv
  <2> QED BY <1>1, <2>1, <2>3, <2>5, <2>6, ReaderInside DEF Mid
<1> QED BY <1>2, <1>3

\* The look-ahead: nothing follows only when the object ends there.
LEMMA ReaderReadNextChunk ==
    ASSUME ReaderInv, ReadNextChunk
    PROVE  ReaderInv'
<1>1. /\ rpc = "next" /\ rpc \in Mid /\ rpc' = "open" /\ rpc' \in Mid
      /\ UNCHANGED <<record, seg, objs, cur, counter, sum, got>>
  BY DEF ReadNextChunk, source, Mid
<1>2. AtSegment /\ at = counter + 1 /\ counter \in Nat /\ Obj' = Obj
  BY <1>1 DEF ReaderInv, AtSegment, Obj
<1>3. /\ more' \in BOOLEAN /\ at' \in Nat
      /\ IF more' THEN at' = counter + 2 /\ at' <= Len(Obj.slots)
         ELSE Len(Obj.slots) = counter + 1 /\ SizeOfAll(Obj.slots) <= ObjectLimit
  <2>1. CASE SlotArrives /\ more' = TRUE /\ at' = at + 1
    BY <1>1, <1>2, <2>1, ObjType DEF SlotArrives
  <2>2. CASE EndArrives /\ more' = FALSE /\ UNCHANGED at
    <3>1. at = Len(Obj.slots) /\ SizeOfAll(SubSeq(Obj.slots, 1, at)) <= ObjectLimit
      BY <2>2 DEF EndArrives, Taken
    <3>2. SubSeq(Obj.slots, 1, at) = Obj.slots
      BY <1>1, <3>1, ObjType
    <3>3. SizeOfAll(Obj.slots) <= ObjectLimit
      BY <3>1, <3>2
    <3>4. Len(Obj.slots) = counter + 1 /\ at' \in Nat
      BY <1>2, <2>2, <3>1
    <3> QED BY <2>2, <3>3, <3>4
  <2> QED BY <2>1, <2>2 DEF ReadNextChunk
<1>4. AtSegment'
  BY <1>1, <1>2, <1>3, RecordStays DEF AtSegment, ChunkBound
<1>5. cur' \in Slot /\ counter' \in Nat /\ got' \in Nat /\ sum' \in Text
  BY <1>1 DEF ReaderInv
<1> QED BY <1>1, <1>3, <1>4, <1>5, ReaderInside

\* A chunk that opens is offered, one that does not ends the read.
LEMMA ReaderOpenChunk ==
    ASSUME ReaderInv, OpenChunk
    PROVE  ReaderInv'
<1>1. rpc = "open" /\ rpc \in Mid /\ UNCHANGED <<record, reader>>
  BY DEF OpenChunk, source, Mid
<1>2. CASE rpc' = "done"
  BY <1>1, <1>2, ReturnedReader
<1>3. CASE rpc' # "done"
  <2>1. rpc' = "write" /\ counter < record.declared[seg] /\ Opens(cur, seg, counter, ~more)
    BY <1>3 DEF OpenChunk, Return
  <2>2. AtSegment /\ Obj' = Obj
    BY <1>1 DEF ReaderInv, Obj, reader
  <2>3. AtSegment'
    BY <1>1, <2>1, <2>2, RecordStays DEF AtSegment, reader, ChunkBound
  <2> QED BY <1>1, <2>1, <2>3, ReaderInside DEF ReaderInv, reader, Mid
<1> QED BY <1>2, <1>3

(***************************************************************************)
(* A chunk that opened is the sealed one of that index, and its plaintext  *)
(* the next piece of the segment.                                          *)
(***************************************************************************)
LEMMA OpenedChunk ==
    ASSUME ReaderInv, rpc = "write"
    PROVE  /\ cur.text \in Text
           /\ more => /\ sum \o cur.text =
                             Before(seg - 1) \o SubSeq(SegText(seg), 1, ChunkSize * (counter + 1))
                      /\ got + Len(cur.text) = ChunkSize * (counter + 1)
           /\ ~more => sum \o cur.text = Before(seg) /\ got + Len(cur.text) = record.lens[seg]
<1> USE StreamAssumption
<1> DEFINE text == SegText(seg)  m == Len(Sealed(seg))  k == ChunkSize * counter
           e == IF more THEN ChunkSize * (counter + 1) ELSE Len(text)
           before == Before(seg - 1)
<1>1. /\ AtSegment /\ RecordOK /\ counter \in Nat /\ more \in BOOLEAN /\ cur \in Slot
      /\ rpc \in Mid /\ seg \in Segments /\ seg \in Nat \ {0}
  BY SegTextType DEF ReaderInv, Mid, AtSegment
<1>2. /\ Opens(cur, seg, counter, ~more) /\ cur = Obj.slots[counter + 1]
      /\ counter < Len(Obj.slots)
      /\ got = k /\ sum = before \o SubSeq(text, 1, k)
  BY <1>1 DEF AtSegment
<1>3. cur \in Genuine
  <2>1. counter + 1 \in DOMAIN Obj.slots /\ cur.kind = "sealed" /\ Obj \in Served
    BY <1>1, <1>2, ObjType DEF Opens
  <2> QED BY <1>2, <2>1 DEF Served
<1>4. counter + 1 \in 1 .. m /\ cur = Sealed(seg)[counter + 1] /\ (~more) = (counter + 1 = m)
  <2>1. (~more) \in BOOLEAN
    OBVIOUS
  <2> DEFINE b == ~more
  <2>2. b \in BOOLEAN /\ Opens(cur, seg, counter, b)
    BY <1>2, <2>1
  <2> HIDE DEF b
  <2>3. counter + 1 \in 1 .. m /\ cur = Sealed(seg)[counter + 1] /\ b = (counter + 1 = m)
    BY <1>1, <1>3, <2>2, OpensGenuine
  <2> QED BY <2>3 DEF b
<1>5. /\ text \in Text /\ Len(text) = record.lens[seg] /\ Len(text) \in Nat
      /\ m = Chunks(Len(text)) /\ m \in Nat
  BY <1>1, SegTextType, SealedType
<1>6. cur.text = SubSeq(text, k + 1, e)
  <2>1. cur = Chunk(seg, (counter + 1) - 1, counter + 1 = m, PieceOf(text, counter + 1))
    BY <1>1, <1>4, SealedType
  <2>2. cur.text = PieceOf(text, counter + 1)
    BY <2>1 DEF Chunk
  <2>3. (counter + 1) - 1 = counter
    BY <1>1
  <2> HIDE DEF text, m
  <2> QED BY <1>4, <1>5, <2>2, <2>3 DEF PieceOf
<1>7. /\ k \in Nat /\ k <= Len(text) /\ e \in Nat /\ e <= Len(text) /\ k <= e
      /\ (more => e = k + ChunkSize)
  <2>1. counter + 1 \in 1 .. Chunks(Len(text)) /\ (counter + 1) - 1 = counter
    BY <1>1, <1>4, <1>5
  <2> HIDE DEF text
  <2>2. /\ ChunkSize * counter \in Nat /\ ChunkSize * counter <= Len(text)
        /\ ChunkSize * (counter + 1) \in Nat /\ ChunkSize * (counter + 1) = ChunkSize * counter + ChunkSize
        /\ counter + 1 # Chunks(Len(text)) => ChunkSize * (counter + 1) <= Len(text)
    BY <1>5, <2>1, Piece
  <2> QED BY <1>4, <1>5, <2>2
<1>8. before \in Text
  BY <1>1, BeforeStep, SegTextType
<1> HIDE DEF text, m, k, before
<1>9. Len(cur.text) = e - k /\ cur.text \in Text
  <2> HIDE DEF e
  <2>1. k + 1 \in Nat \ {0}
    BY <1>7
  <2>2. Len(SubSeq(text, k + 1, e)) = IF k + 1 <= e THEN e - (k + 1) + 1 ELSE 0
    BY <1>5, <1>7, <2>1, PieceOfText
  <2>3. SubSeq(text, k + 1, e) \in Text
    BY <1>5, <1>7, <2>1, PieceOfText
  <2> QED BY <1>6, <1>7, <2>2, <2>3
<1>10. sum \o cur.text = before \o SubSeq(text, 1, e)
  <2> HIDE DEF e
  <2>1. SubSeq(text, 1, k) \o SubSeq(text, k + 1, e) = SubSeq(text, 1, e)
    BY <1>5, <1>7, JoinPieces
  <2>2. SubSeq(text, 1, k) \in Text
    BY <1>5, <1>7, PieceOfText
  <2> DEFINE a == SubSeq(text, 1, k)  b == SubSeq(text, k + 1, e)
  <2>3. a \in Text /\ b \in Text
    BY <1>6, <1>9, <2>2
  <2>4. sum = before \o a /\ cur.text = b
    BY <1>2, <1>6
  <2> HIDE DEF a, b
  <2>5. (before \o a) \o b = before \o (a \o b)
    BY <1>8, <2>3, SMTT(30) DEF Text
  <2>6. sum \o cur.text = before \o (a \o b)
    BY <2>4, <2>5
  <2> QED BY <2>1, <2>6 DEF a, b
<1>11. ~more => sum \o cur.text = Before(seg)
  <2>1. SubSeq(text, 1, Len(text)) = text
    BY <1>5 DEF Text
  <2>2. Before(seg) = before \o text
    <3>1. seg - 1 \in Nat /\ (seg - 1) + 1 = seg
      BY <1>1
    <3> QED BY <1>1, <3>1, BeforeStep DEF text, before
  <2> QED BY <1>10, <2>1, <2>2
<1>12. more => /\ sum \o cur.text = Before(seg - 1) \o SubSeq(SegText(seg), 1, ChunkSize * (counter + 1))
              /\ got + Len(cur.text) = ChunkSize * (counter + 1)
  <2>1. more => e = ChunkSize * (counter + 1)
    OBVIOUS
  <2> HIDE DEF e
  <2>2. got + Len(cur.text) = e
    BY <1>2, <1>7, <1>9
  <2> QED BY <1>10, <2>1, <2>2 DEF text, before
<1>13. ~more => got + Len(cur.text) = record.lens[seg]
  BY <1>2, <1>5, <1>7, <1>9
<1> QED BY <1>9, <1>11, <1>12, <1>13

\* A chunk was written and hashed; the next slot becomes current.
LEMMA ReaderWriteDone ==
    ASSUME ReaderInv, WriteDone
    PROVE  ReaderInv'
<1> USE StreamAssumption
<1>1. /\ rpc = "write" /\ rpc \in Mid /\ UNCHANGED <<record, seg, objs, at, more>>
      /\ sum' = sum \o cur.text /\ got' = got + Len(cur.text)
  BY DEF WriteDone, source, Mid
<1>2. /\ AtSegment /\ RecordOK /\ counter \in Nat /\ more \in BOOLEAN /\ cur \in Slot /\ at \in Nat
      /\ sum \in Text /\ got \in Nat /\ Obj' = Obj /\ Len(Obj.slots) \in Nat /\ cur.text \in Text
      /\ seg \in Segments /\ record.declared[seg] \in Nat /\ Len(objs) = seg
  BY <1>1, ObjType, OpenedChunk DEF ReaderInv, Obj
<1>3. sum' \in Text /\ got' \in Nat
  <2>1. Len(cur.text) \in Nat /\ sum \o cur.text \in Text
    BY <1>2, ConcatTexts
  <2> QED BY <1>1, <1>2, <2>1
<1>4. /\ Opens(cur, seg, counter, ~more) /\ cur = Obj.slots[counter + 1]
      /\ counter < Len(Obj.slots) /\ counter <= MaxChunkIndex /\ counter < record.declared[seg]
      /\ \A i \in 1 .. counter : Opens(Obj.slots[i], seg, i - 1, FALSE)
      /\ Obj.head = "whole" /\ record.defect # "key" /\ ChunkBound(record.declared[seg])
  BY <1>1, <1>2 DEF AtSegment
<1>5. CASE ~more
  <2>1. rpc' = "end" /\ UNCHANGED <<cur, counter>>
    BY <1>5 DEF WriteDone
  <2>2. Len(Obj.slots) = counter + 1 /\ SizeOfAll(Obj.slots) <= ObjectLimit
    BY <1>1, <1>2, <1>5 DEF AtSegment
  <2>3. sum' = Before(seg) /\ got' = record.lens[seg]
    BY <1>1, <1>5, OpenedChunk
  <2>4. OpenStream(seg, Obj.slots)
    <3>1. Obj.slots # <<>> /\ DOMAIN Obj.slots = 1 .. counter + 1
      BY <1>1, <2>2, <1>2, ObjType
    <3>2. ASSUME NEW i \in 1 .. counter + 1 PROVE Opens(Obj.slots[i], seg, i - 1, i = Len(Obj.slots))
      <4>1. CASE i = counter + 1
        <5>1. i - 1 = counter
          BY <1>2, <4>1
        <5> QED BY <1>4, <1>5, <2>2, <4>1, <5>1 DEF Opens
      <4>2. CASE i # counter + 1
        <5>1. i \in 1 .. counter
          BY <1>2, <4>2
        <5> QED BY <1>4, <2>2, <4>2, <5>1 DEF Opens
      <4> QED BY <4>1, <4>2
    <3>3. Len(Obj.slots) - 1 <= MaxChunkIndex
      BY <1>2, <1>4, <2>2
    <3> QED BY <3>1, <3>2, <3>3 DEF OpenStream
  <2>5. Len(Obj.slots) <= record.declared[seg]
    BY <1>2, <1>4, <2>2
  <2>6. AtSegment'
    BY <1>1, <1>2, <1>4, <2>1, <2>2, <2>3, <2>4, <2>5, RecordStays DEF AtSegment, ChunkBound
  <2> QED BY <1>1, <1>2, <1>3, <2>1, <2>6, ReaderInside DEF Mid
<1>6. CASE more /\ rpc' = "done"
  <2>1. UNCHANGED <<cur, counter>>
    BY <1>6 DEF WriteDone, Return
  <2>2. \A s \in 1 .. seg - 1 : BufferedSegment(s) => BufferedSegment(s)'
    BY <1>1, RecordStays DEF BufferedSegment
  <2> QED BY <1>1, <1>3, <1>6, <2>1, <2>2, RecordStays DEF ReaderInv, Mid, ReaderPlaces
<1>7. CASE more /\ rpc' # "done"
  <2>1. /\ rpc' = "next" /\ counter' = Advanced(counter) /\ cur' = Obj.slots[at]
        /\ ~AtLastIndex(counter)
    BY <1>7 DEF WriteDone, Return
  <2>2. counter' = counter + 1 /\ counter' <= MaxChunkIndex /\ counter' \in Nat
    <3>1. counter + 1 \in 0 .. MaxChunkIndex /\ MaxChunkIndex + 1 \in Nat \ {0}
      BY <1>2, <2>1 DEF AtLastIndex
    <3>2. (counter + 1) % (MaxChunkIndex + 1) = counter + 1
      BY <3>1
    <3> QED BY <2>1, <3>1, <3>2 DEF Advanced
  <2>3. at = counter' + 1 /\ at <= Len(Obj.slots)
    BY <1>1, <1>2, <1>7, <2>2 DEF AtSegment
  <2>4. cur' = Obj.slots[counter' + 1] /\ cur' \in Slot /\ counter' < Len(Obj.slots)
    BY <1>1, <1>2, <2>1, <2>2, <2>3, ObjType
  <2>5. \A i \in 1 .. counter' : Opens(Obj.slots[i], seg, i - 1, FALSE)
    <3> SUFFICES ASSUME NEW i \in 1 .. counter' PROVE Opens(Obj.slots[i], seg, i - 1, FALSE)
      OBVIOUS
    <3>1. CASE i = counter + 1
      <4>1. i - 1 = counter
        BY <1>2, <3>1
      <4> QED BY <1>4, <1>7, <3>1, <4>1 DEF Opens
    <3>2. CASE i # counter + 1
      <4>1. i \in 1 .. counter
        BY <1>2, <2>2, <3>2
      <4> QED BY <1>4, <4>1
    <3> QED BY <3>1, <3>2
  <2>6. /\ got' = ChunkSize * counter'
        /\ sum' = Before(seg - 1) \o SubSeq(SegText(seg), 1, ChunkSize * counter')
    BY <1>1, <1>7, <2>2, OpenedChunk
  <2>7. AtSegment'
    BY <1>1, <1>2, <1>4, <2>1, <2>2, <2>3, <2>4, <2>5, <2>6, RecordStays DEF AtSegment, ChunkBound
  <2> QED BY <1>1, <1>2, <1>3, <2>1, <2>2, <2>4, <2>7, ReaderInside DEF Mid
<1> QED BY <1>5, <1>6, <1>7

\* A segment whose stream ended at its bound is the sealed one.
LEMMA EndedSegment ==
    ASSUME ReaderInv, rpc = "end"
    PROVE  /\ objs[seg] = Intact(seg)
           /\ EndsAtBound(got, record.declared[seg]) <=> BufferedSegment(seg)
<1>1. AtSegment /\ rpc \in Mid /\ RecordOK
  BY DEF ReaderInv, Mid
<1>2. Obj = objs[seg] /\ Obj \in Served /\ seg \in Segments
  BY <1>1, ObjType
<1>3. /\ OpenStream(seg, Obj.slots) /\ Len(Obj.slots) <= record.declared[seg]
      /\ SizeOfAll(Obj.slots) <= ObjectLimit /\ got = record.lens[seg]
      /\ Obj.head = "whole" /\ record.defect # "key" /\ ChunkBound(record.declared[seg])
  BY <1>1 DEF AtSegment
<1>4. Obj.slots = Sealed(seg)
  BY <1>1, <1>2, <1>3, OpensAll
<1>5. objs[seg] = Intact(seg)
  BY <1>2, <1>3, <1>4 DEF Served, Intact, Sealed
<1>6. Len(TextOf(Obj.slots)) = got
  BY <1>1, <1>2, <1>3, <1>4, SealedType, SegTextType
<1>7. EndsAtBound(got, record.declared[seg]) <=> BufferedSegment(seg)
  BY <1>2, <1>3, <1>6 DEF BufferedSegment, EndsAtBound
<1> QED BY <1>5, <1>7

\* A segment that ends where it was declared to end was served intact.
LEMMA ReaderEndSegment ==
    ASSUME ReaderInv, EndSegment
    PROVE  ReaderInv'
<1>1. rpc = "end" /\ rpc \in Mid /\ UNCHANGED <<record, objs, at, cur, more, counter, sum, got>>
  BY DEF EndSegment, source, Mid
<1>2. CASE ~EndsAtBound(got, record.declared[seg])
  BY <1>1, <1>2, ReturnedReader DEF EndSegment, Return, reader
<1>3. CASE EndsAtBound(got, record.declared[seg])
  <2>1. seg' = seg + 1 /\ rpc' = "get"
    BY <1>3 DEF EndSegment
  <2>2. AtSegment /\ seg \in Segments /\ seg \in Nat \ {0} /\ Segments = 1 .. Len(record.lens)
    BY <1>1, ObjType, SegTextType DEF ReaderInv
  <2>3. Len(objs) = seg /\ sum = Before(seg)
    BY <1>1, <2>2 DEF AtSegment
  <2>4. seg' \in 1 .. Len(record.lens) + 1 /\ seg' - 1 = seg
    <3>1. Len(record.lens) \in Nat
      BY DEF ReaderInv, RecordOK
    <3> QED BY <2>1, <2>2, <3>1
  <2>5. \A s \in 1 .. seg : objs[s] = Intact(s) /\ BufferedSegment(s)
    BY <1>1, <1>3, <2>2, EndedSegment DEF ReaderInv
  <2>6. \A s \in 1 .. seg : BufferedSegment(s) => BufferedSegment(s)'
    BY <1>1, RecordStays DEF BufferedSegment
  <2> QED BY <1>1, <2>1, <2>2, <2>3, <2>4, <2>5, <2>6, RecordStays DEF ReaderInv, Mid, ReaderPlaces
<1> QED BY <1>2, <1>3

\* The reader starts with nothing read.
LEMMA InitReader == Init => ReaderInv
<1> SUFFICES ASSUME Init PROVE ReaderInv
  OBVIOUS
<1>1. RecordOK
  BY InitialRecord
<1>2. Len(record.lens) \in Nat /\ <<>> \in Text /\ Stub \in Slot /\ Before(0) = <<>>
  BY <1>1, EmptyText, StubIsSlot, BeforeStep DEF RecordOK
<1>3. objs = <<>> /\ objs \in Seq(Served) /\ Len(objs) = 0
  BY DEF Init
<1>4. /\ rpc = "seal" /\ seg = 1 /\ at = 0 /\ cur = Stub /\ more = FALSE /\ counter = 0
      /\ sum = <<>> /\ got = 0
  BY DEF Init
<1>5. seg - 1 = 0 /\ 1 .. seg - 1 = {} /\ seg \in 1 .. Len(record.lens) + 1
  BY <1>2, <1>4
<1>6. sum = Before(seg - 1) /\ sum \in Text /\ Len(objs) = seg - 1 /\ Len(objs) >= seg - 1
  BY <1>2, <1>3, <1>4, <1>5
<1>7. \A s \in 1 .. seg - 1 : objs[s] = Intact(s) /\ BufferedSegment(s)
  BY <1>5
<1>8. at \in Nat /\ cur \in Slot /\ more \in BOOLEAN /\ counter \in Nat /\ got \in Nat
  BY <1>2, <1>4
<1>9. rpc \in ReaderPlaces /\ rpc \notin Mid
  BY <1>4 DEF ReaderPlaces, Mid
<1> QED BY <1>1, <1>3, <1>4, <1>5, <1>6, <1>7, <1>8, <1>9 DEF ReaderInv

\* Every step keeps what is known of the reader.
LEMMA NextReader ==
    ASSUME ReaderInv, [Next]_vars
    PROVE  ReaderInv'
<1>1. CASE SealClose
  <2>1. rpc = "seal" /\ rpc' = "get" /\ UNCHANGED <<record, reader>>
    BY <1>1 DEF SealClose, source
  <2>2. \A s \in 1 .. seg - 1 : BufferedSegment(s) => BufferedSegment(s)'
    BY <2>1, RecordStays DEF BufferedSegment, reader
  <2> QED BY <2>1, <2>2, RecordStays DEF ReaderInv, reader, Mid, ReaderPlaces
<1>2. CASE \/ BadObjectName \/ GetReaderFails \/ TooLarge \/ ReadError \/ ConnectionLost
           \/ WriteBroken \/ CloseFails \/ CheckHash
  <2>1. rpc' = "done" /\ UNCHANGED <<record, reader>>
    BY <1>2 DEF BadObjectName, GetReaderFails, TooLarge, ReadError, ConnectionLost, WriteBroken,
                CloseFails, CheckHash, Return, source
  <2> QED BY <2>1, ReturnedReader
<1>3. CASE GetReader
  BY <1>3, ReaderGetReader
<1>4. CASE OpenSegmentStream
  BY <1>4, ReaderOpenSegmentStream
<1>5. CASE ReadFirstChunk
  BY <1>5, ReaderReadFirstChunk
<1>6. CASE ReadNextChunk
  BY <1>6, ReaderReadNextChunk
<1>7. CASE OpenChunk
  BY <1>7, ReaderOpenChunk
<1>8. CASE WriteDone
  BY <1>8, ReaderWriteDone
<1>9. CASE EndSegment
  BY <1>9, ReaderEndSegment
<1>10. CASE SealWrite \/ Stall \/ TimerFires \/ Interrupt \/ TargetStep \/ TargetFails \/ UNCHANGED vars
  <2>1. UNCHANGED <<record, rpc, reader>>
    BY <1>10 DEF SealWrite, Stall, TimerFires, Interrupt, TargetStep, Reserve, CreateTemp, Copy,
                 CopyEnd, Rename, WriteReturned, Finish, TargetFails, source, vars
  <2> QED BY <2>1, SameReader
<1> QED BY <1>1, <1>2, <1>3, <1>4, <1>5, <1>6, <1>7, <1>8, <1>9, <1>10
        DEF Next, ReaderStep, Faults

(***************************************************************************)
(* At every step the reader has opened and hashed exactly the leading non- *)
(* last chunks of its segment, as they were sealed, after every earlier    *)
(* segment in full (OpenStreamTo, RestoreRecordTo).                        *)
(***************************************************************************)
THEOREM ReaderIsInvariant == Spec => []ReaderInv
  BY InitReader, NextReader, PTL DEF Spec

(***************************************************************************)
(* A segment that the reader has finished with was served exactly as it    *)
(* was sealed (OpenStreamTo, decryptSegmentTo), for chunks and segments of *)
(* any size and any number.                                                *)
(***************************************************************************)
THEOREM FinishedSegmentsIntact == Spec => []OnlyWhatWasSealed
<1>1. ReaderInv => OnlyWhatWasSealed
  <2> SUFFICES ASSUME ReaderInv, NEW s \in Segments, s < seg PROVE objs[s] = Intact(s)
    BY DEF OnlyWhatWasSealed
  <2>1. s \in 1 .. seg - 1
    BY SegTextType DEF ReaderInv
  <2> QED BY <2>1 DEF ReaderInv
<1> QED BY <1>1, ReaderIsInvariant, PTL

-----------------------------------------------------------------------------
(***************************************************************************)
(* A segment that the streamed path refused, the buffered path refuses.    *)
(***************************************************************************)
LEMMA Refused ==
    ASSUME ReaderInv, rpc \in Mid, ~BufferedSegment(seg)
    PROVE  RestoreRecord(FALSE) = Err("unverified")
<1>1. seg \in DOMAIN objs /\ record.defect # "name"
  BY ObjType DEF ReaderInv
<1> QED BY <1>1 DEF RestoreRecord

\* A read that fails in a transfer nothing disturbed failed at the ceiling, which
\* refuses the object on the buffered path too.
LEMMA RefusedRead ==
    ASSUME ReaderInv, VerdictInv, ReadError, ~Disturbed
    PROVE  ~BufferedSegment(seg)
<1>1. rpc \in Mid /\ ReadFails
  BY DEF ReadError, Reading, Mid
<1>2. ~body.interrupted /\ ~body.timedOut
  BY DEF VerdictInv
<1>3. PICK n \in 0 .. Len(Obj.slots) : Taken(n) > ObjectLimit
  <2>1. at \in 0 .. Len(Obj.slots) /\ at \in Nat /\ Len(Obj.slots) \in Nat
    <3>1. AtSegment /\ rpc \in {"head", "first", "next"} /\ at \in Nat /\ counter \in Nat
      BY <1>1 DEF ReadError, Reading, ReaderInv
    <3>2. Len(Obj.slots) \in Nat
      BY <1>1, ObjType
    <3>3. at = 0 \/ (at = counter + 1 /\ counter < Len(Obj.slots))
      BY <3>1 DEF AtSegment
    <3> QED BY <3>1, <3>2, <3>3
  <2>2. CASE at < Len(Obj.slots) /\ Taken(at + 1) > ObjectLimit
    BY <2>1, <2>2
  <2>3. CASE Taken(at) > ObjectLimit
    BY <2>1, <2>3
  <2> QED BY <1>1, <1>2, <2>2, <2>3 DEF ReadFails
<1>4. SizeOfAll(Obj.slots) > ObjectLimit
  <2> DEFINE slots == Obj.slots
  <2>1. slots \in Seq(Slot)
    BY <1>1, ObjType
  <2> HIDE DEF slots
  <2>2. n \in 0 .. Len(slots) /\ SizeOfAll(SubSeq(slots, 1, n)) > ObjectLimit
    BY <1>3 DEF Taken, slots
  <2>3. /\ SizeOfAll(SubSeq(slots, 1, n)) \in Nat /\ SizeOfAll(slots) \in Nat
        /\ SizeOfAll(SubSeq(slots, 1, n)) <= SizeOfAll(slots)
    BY <2>1, <2>2, SizeOfPrefix
  <2>4. SizeOfAll(slots) > ObjectLimit
    BY <2>2, <2>3, RecordStreamAssumption
  <2> QED BY <2>4 DEF slots
<1>5. SizeOfAll(Obj.slots) \in Nat /\ Obj = objs[seg]
  <2> DEFINE slots == Obj.slots
  <2>1. slots \in Seq(Slot) /\ Obj = objs[seg] /\ Len(slots) \in Nat
    BY <1>1, ObjType
  <2> HIDE DEF slots
  <2>2. 0 \in 0 .. Len(slots)
    BY <2>1
  <2>3. SizeOfAll(slots) \in Nat
    BY <2>1, <2>2, SizeOfPrefix
  <2> QED BY <2>1, <2>3 DEF slots
<1> QED BY <1>4, <1>5, RecordStreamAssumption DEF BufferedSegment

\* What openSegmentStream refuses the buffered path refuses.
LEMMA RefusedOpen ==
    ASSUME ReaderInv, OpenSegmentStream, rpc' = "done"
    PROVE  ~BufferedSegment(seg)
<1>1. rpc = "head" /\ rpc \in Mid
  BY DEF OpenSegmentStream, Mid
<1>2. Obj = objs[seg]
  BY <1>1, ObjType
<1>3. ~ChunkBound(record.declared[seg]) \/ record.defect = "key" \/ Obj.head = "broken"
  BY <1>1 DEF OpenSegmentStream
<1> QED BY <1>2, <1>3 DEF BufferedSegment

\* A first chunk that is missing or too short.
LEMMA RefusedFirst ==
    ASSUME ReaderInv, ReadFirstChunk, rpc' = "done"
    PROVE  ~BufferedSegment(seg)
<1>1. rpc = "first" /\ rpc \in Mid
  BY DEF ReadFirstChunk, Mid
<1>2. Obj = objs[seg] /\ Obj.slots \in Seq(Slot)
  BY <1>1, ObjType
<1>3. at = 0
  BY <1>1 DEF ReaderInv, AtSegment
<1>4. at = Len(Obj.slots) \/ (at < Len(Obj.slots) /\ Obj.slots[at + 1].kind = "stub")
  BY <1>1 DEF ReadFirstChunk, EndArrives, SlotArrives
<1>5. Obj.slots = <<>> \/ (1 \in DOMAIN Obj.slots /\ Obj.slots[1].kind = "stub")
  BY <1>2, <1>3, <1>4
<1>6. ~OpenStream(seg, Obj.slots)
  BY <1>5 DEF OpenStream, Opens
<1> QED BY <1>2, <1>6 DEF BufferedSegment

\* A chunk beyond the declared count, or one that does not open.
LEMMA RefusedChunk ==
    ASSUME ReaderInv, OpenChunk, rpc' = "done"
    PROVE  ~BufferedSegment(seg)
<1>1. rpc = "open" /\ rpc \in Mid
  BY DEF OpenChunk, Mid
<1>2. /\ Obj = objs[seg] /\ Obj.slots \in Seq(Slot) /\ Len(Obj.slots) \in Nat
      /\ record.declared[seg] \in Nat
  BY <1>1, ObjType
<1>3. AtSegment /\ counter \in Nat /\ more \in BOOLEAN /\ at \in Nat
  BY <1>1 DEF ReaderInv
<1>4. counter < Len(Obj.slots) /\ cur = Obj.slots[counter + 1] /\ (~more <=> counter + 1 = Len(Obj.slots))
  BY <1>1, <1>2, <1>3 DEF AtSegment
<1>5. counter >= record.declared[seg] \/ ~Opens(cur, seg, counter, ~more)
  BY <1>1, <1>2, <1>3 DEF OpenChunk
<1>6. CASE counter >= record.declared[seg]
  BY <1>2, <1>3, <1>4, <1>6 DEF BufferedSegment
<1>7. CASE ~Opens(cur, seg, counter, ~more)
  <2>1. counter + 1 \in DOMAIN Obj.slots /\ (counter + 1) - 1 = counter
    BY <1>2, <1>3, <1>4
  <2>2. ~Opens(Obj.slots[counter + 1], seg, (counter + 1) - 1, counter + 1 = Len(Obj.slots))
    BY <1>3, <1>4, <1>7, <2>1 DEF Opens
  <2>3. ~OpenStream(seg, Obj.slots)
    BY <2>1, <2>2 DEF OpenStream
  <2> QED BY <1>2, <2>3 DEF BufferedSegment
<1> QED BY <1>5, <1>6, <1>7

\* A counter at its last value, or a tail too short to be a chunk.
LEMMA RefusedNext ==
    ASSUME ReaderInv, WriteDone, rpc' = "done"
    PROVE  ~BufferedSegment(seg)
<1>1. rpc = "write" /\ rpc \in Mid
  BY DEF WriteDone, Mid
<1>2. /\ Obj = objs[seg] /\ Obj.slots \in Seq(Slot) /\ Len(Obj.slots) \in Nat
  BY <1>1, ObjType
<1>3. AtSegment /\ counter \in Nat /\ at \in Nat
  BY <1>1 DEF ReaderInv
<1>4. more /\ (AtLastIndex(counter) \/ Obj.slots[at].kind = "stub")
  BY DEF WriteDone
<1>5. at = counter + 2 /\ at <= Len(Obj.slots)
  BY <1>1, <1>3, <1>4 DEF AtSegment
<1>6. ~OpenStream(seg, Obj.slots)
  <2>1. CASE AtLastIndex(counter)
    BY <1>2, <1>3, <1>5, <2>1, StreamAssumption DEF AtLastIndex, OpenStream
  <2>2. CASE Obj.slots[at].kind = "stub"
    <3>1. at \in DOMAIN Obj.slots
      BY <1>2, <1>3, <1>5
    <3> QED BY <2>2, <3>1 DEF OpenStream, Opens
  <2> QED BY <1>4, <2>1, <2>2
<1> QED BY <1>2, <1>6 DEF BufferedSegment

\* The hash over everything read agrees exactly when the record's does.
LEMMA HashOfAll ==
    ASSUME ReaderInv, CheckHash
    PROVE  /\ RestoreRecord(FALSE) = IF HashAgrees(sum) THEN Nil ELSE Err("plaintext")
           /\ sum = Value /\ (~HashAgrees(sum) => record.defect = "hash")
<1>1. rpc = "get" /\ seg \notin Segments /\ RecordOK
  BY DEF CheckHash, ReaderInv
<1>2. /\ Len(record.lens) \in Nat /\ Segments = 1 .. Len(record.lens)
      /\ seg = Len(record.lens) + 1 /\ Len(objs) = Len(record.lens) /\ sum = Before(seg - 1)
  <2>1. Len(record.lens) \in Nat /\ Segments = 1 .. Len(record.lens)
    BY <1>1 DEF RecordOK, Segments
  <2>2. seg \in 1 .. Len(record.lens) + 1 /\ Len(objs) = seg - 1 /\ sum = Before(seg - 1)
    BY <1>1 DEF ReaderInv
  <2> QED BY <1>1, <2>1, <2>2
<1>3. sum = Value
  <2>1. seg - 1 = Len(record.lens)
    BY <1>2
  <2> QED BY <1>1, <1>2, <2>1, BeforeStep
<1>4. /\ DOMAIN objs = 1 .. Len(record.lens)
      /\ \A s \in 1 .. Len(record.lens) : objs[s] = Intact(s) /\ BufferedSegment(s)
  BY <1>1, <1>2 DEF ReaderInv
<1>5. TextOf(FlattenSeq([s \in DOMAIN objs |-> objs[s].slots])) = Value
  <2>1. [s \in DOMAIN objs |-> objs[s].slots] = [s \in 1 .. Len(record.lens) |-> Sealed(s)]
    <3>0. \A s : Intact(s).slots = Sealed(s)
      BY DEF Intact, Sealed
    <3>1. \A s \in 1 .. Len(record.lens) : objs[s].slots = Sealed(s)
      BY <1>4, <3>0
    <3> QED BY <1>4, <3>1
  <2>2. Len(record.lens) \in 0 .. Len(record.lens)
    BY <1>2
  <2>3. TextOf(FlattenSeq([s \in 1 .. Len(record.lens) |-> Sealed(s)])) = Before(Len(record.lens))
    BY <1>1, <2>2, TextOfSegments
  <2> QED BY <1>1, <2>1, <2>3, BeforeStep
<1>6. record.defect # "name" \/ record.lens = <<>>
  <2>1. CASE objs # <<>>
    BY <2>1 DEF ReaderInv
  <2>2. CASE objs = <<>>
    BY <1>1, <1>2, <2>2 DEF RecordOK
  <2> QED BY <2>1, <2>2
<1>7. RestoreRecord(FALSE) = IF HashAgrees(Value) THEN Nil ELSE Err("plaintext")
  BY <1>2, <1>4, <1>5, <1>6 DEF RestoreRecord, Reassembled
<1> QED BY <1>3, <1>7 DEF HashAgrees
-----------------------------------------------------------------------------
\* The results are told apart by their code and the sentinel.
LEMMA VerdictKinds ==
    /\ NotYet # Nil /\ NotYet # Teardown /\ Nil # Teardown
    /\ \A c \in {"unverified", "unreachable", "uncoded", "plaintext", "write"} :
          Err(c) \notin {NotYet, Nil, Teardown} /\ ~Err(c).teardown /\ Err(c).code = c
    /\ ~NotYet.teardown /\ ~Nil.teardown /\ Teardown.teardown
    /\ NotYet.code = "none" /\ Nil.code = "ok" /\ Teardown.code = "unverified"
  BY DEF NotYet, Nil, Teardown, Err

\* Nothing has been returned.
LEMMA InitVerdict == Init => VerdictInv
  BY VerdictKinds DEF Init, VerdictInv, Verdicts, FaultType, Judged, HasCause

\* The buffered verdict depends on the record and the objects alone.
LEMMA BufferedStays ==
    ASSUME record' = record, objs' = objs
    PROVE  RestoreRecord(FALSE)' = RestoreRecord(FALSE)
<1>1. \A s : BufferedSegment(s)' = BufferedSegment(s)
  BY DEF BufferedSegment
<1>2. \A t : HashAgrees(t)' = HashAgrees(t)
  BY RecordStays DEF HashAgrees
<1>3. Reassembled' = Reassembled
  BY DEF Reassembled
<1> QED BY <1>1, <1>2, <1>3 DEF RestoreRecord

\* A step that leaves the reader's result alone.
LEMMA SameVerdict ==
    ASSUME VerdictInv, UNCHANGED <<record, rpc, objs, sum, rerr>>,
           body' \in [flows : BOOLEAN, interrupted : BOOLEAN, timedOut : BOOLEAN, armed : BOOLEAN],
           fault' \in FaultType,
           body'.timedOut \/ body'.interrupted => Disturbed',
           fault.transport => fault'.transport, Disturbed => Disturbed'
    PROVE  VerdictInv'
<1>1. RestoreRecord(FALSE)' = RestoreRecord(FALSE)
  BY BufferedStays
<1>2. HashAgrees(sum)' = HashAgrees(sum)
  BY RecordStays DEF HashAgrees
<1>3. (Judged => rerr = RestoreRecord(FALSE))'
  BY <1>1 DEF VerdictInv, Judged
<1>4. HasCause'
  BY DEF VerdictInv, HasCause
<1> QED BY <1>2, <1>3, <1>4 DEF VerdictInv

\* The reader returns.
LEMMA ReturnedVerdict ==
    ASSUME VerdictInv, NEW e \in Verdicts \ {NotYet}, Return(e), UNCHANGED <<record, objs>>,
           fault' \in FaultType,
           Disturbed => Disturbed',
           ~Disturbed' /\ ~e.teardown => e = RestoreRecord(FALSE),
           e.code = "unreachable" => fault'.transport,
           e.code = "uncoded" => fault'.transport \/ record.defect = "name",
           e.code = "plaintext" => record.defect = "hash",
           e = Nil => sum' = sum /\ HashAgrees(sum)
    PROVE  VerdictInv'
<1>1. RestoreRecord(FALSE)' = RestoreRecord(FALSE)
  BY BufferedStays
<1>2. HashAgrees(sum)' = (record.defect # "hash" /\ sum' = Value)
  BY RecordStays DEF HashAgrees
<1>3. rerr' = e /\ rpc' = "done" /\ body' = [body EXCEPT !.armed = FALSE]
  BY DEF Return
<1>4. (Judged => rerr = RestoreRecord(FALSE))'
  BY <1>1, <1>3 DEF Judged
<1>5. body' \in [flows : BOOLEAN, interrupted : BOOLEAN, timedOut : BOOLEAN, armed : BOOLEAN]
      /\ (body'.timedOut \/ body'.interrupted => Disturbed')
  BY <1>3 DEF VerdictInv
<1>6. e = Nil => HashAgrees(sum)'
  BY <1>2 DEF HashAgrees
<1>7. HasCause'
  BY <1>3 DEF HasCause
<1> QED BY <1>3, <1>4, <1>5, <1>6, <1>7 DEF VerdictInv

\* The reader moves on.
LEMMA GoesOn ==
    ASSUME VerdictInv, rpc # "done", rpc' # "done", rerr' = rerr, fault' = fault,
           body' \in [flows : BOOLEAN, interrupted : BOOLEAN, timedOut : BOOLEAN, armed : BOOLEAN],
           body'.timedOut \/ body'.interrupted => Disturbed
    PROVE  VerdictInv'
<1>1. rerr = NotYet
  BY DEF VerdictInv
<1>2. Disturbed' = Disturbed
  BY DEF Disturbed
<1>3. HasCause' /\ ~Judged'
  BY <1>1, VerdictKinds DEF HasCause, Judged
<1> QED BY <1>1, <1>2, <1>3, VerdictKinds DEF VerdictInv

\* The reader refuses the segment it is at, or the transfer was disturbed.
LEMMA RefusesSegment ==
    ASSUME ReaderInv, VerdictInv, rpc \in Mid, UNCHANGED <<record, objs>>, fault' = fault,
           Return(Err("unverified")), ~Disturbed => ~BufferedSegment(seg)
    PROVE  VerdictInv'
<1>1. Err("unverified") \in Verdicts \ {NotYet} /\ Err("unverified") # Nil
  BY VerdictKinds DEF Verdicts
<1>2. ~Disturbed => RestoreRecord(FALSE) = Err("unverified")
  BY Refused
<1> DEFINE e == Err("unverified")
<1>3. /\ e \in Verdicts \ {NotYet} /\ Return(e)
      /\ (~Disturbed' /\ ~e.teardown => e = RestoreRecord(FALSE))
      /\ (e = Nil => sum' = sum /\ HashAgrees(sum)) /\ e.code = "unverified"
      /\ fault' \in FaultType /\ (Disturbed => Disturbed')
  BY <1>1, <1>2, VerdictKinds DEF VerdictInv, Disturbed
<1> HIDE DEF e
<1> QED BY <1>3, ReturnedVerdict

\* The transport fails.
LEMMA TransportFails ==
    ASSUME VerdictInv, UNCHANGED <<record, objs>>, fault' = [fault EXCEPT !.transport = TRUE],
           NEW c \in {"unverified", "unreachable", "uncoded"}, Return(Err(c))
    PROVE  VerdictInv'
<1> DEFINE e == Err(c)
<1>1. e \in Verdicts \ {NotYet} /\ e # Nil /\ Return(e) /\ e.code # "plaintext"
  BY VerdictKinds DEF Verdicts
<1>2. fault' \in FaultType /\ fault'.transport /\ Disturbed'
  BY DEF VerdictInv, FaultType, Disturbed
<1> HIDE DEF e
<1> QED BY <1>1, <1>2, ReturnedVerdict

\* Every step keeps what is known of the result.
LEMMA NextVerdict ==
    ASSUME ReaderInv, VerdictInv, [Next]_vars
    PROVE  VerdictInv'
<1> USE VerdictKinds
<1>1. CASE BadObjectName
  <2>1. /\ rpc = "get" /\ seg \in Segments /\ record.defect = "name" /\ Return(Err("uncoded"))
        /\ UNCHANGED <<record, objs, fault>>
    BY <1>1 DEF BadObjectName, source, reader
  <2>2. RestoreRecord(FALSE) = Err("uncoded")
    <3>1. record.lens # <<>>
      BY <2>1 DEF Segments
    <3> QED BY <2>1, <3>1 DEF RestoreRecord
  <2> DEFINE e == Err("uncoded")
  <2>3. e \in Verdicts \ {NotYet} /\ e # Nil /\ e = RestoreRecord(FALSE) /\ Return(e)
          /\ e.code = "uncoded"
    BY <2>1, <2>2 DEF Verdicts
  <2>4. fault' \in FaultType /\ (Disturbed => Disturbed')
    BY <2>1 DEF VerdictInv, Disturbed
  <2> HIDE DEF e
  <2> QED BY <2>1, <2>3, <2>4, ReturnedVerdict
<1>2. CASE GetReader
  <2>1. rpc # "done" /\ rpc' # "done" /\ rerr' = rerr /\ fault' = fault
        /\ body' = [body EXCEPT !.armed = store = "http", !.timedOut = FALSE]
    BY <1>2 DEF GetReader
  <2>2. body' \in [flows : BOOLEAN, interrupted : BOOLEAN, timedOut : BOOLEAN, armed : BOOLEAN]
        /\ (body'.timedOut \/ body'.interrupted => Disturbed)
    BY <2>1 DEF VerdictInv
  <2> QED BY <2>1, <2>2, GoesOn
<1>3. CASE GetReaderFails
  <2>1. UNCHANGED <<record, objs>> /\ fault' = [fault EXCEPT !.transport = TRUE]
    BY <1>3 DEF GetReaderFails, source, reader
  <2>2. Return(Err("unreachable")) \/ Return(Err("unverified"))
    BY <1>3 DEF GetReaderFails
  <2> QED BY <2>1, <2>2, TransportFails
<1>4. CASE TooLarge
  <2>1. /\ rpc \in Mid /\ Return(Err("unverified")) /\ UNCHANGED <<record, objs, fault>>
        /\ SizeOfAll(Obj.slots) > ObjectLimit
    BY <1>4 DEF TooLarge, source, reader, Mid
  <2>2. SizeOfAll(Obj.slots) \in Nat /\ Obj = objs[seg]
    <3> DEFINE slots == Obj.slots
    <3>1. slots \in Seq(Slot) /\ Obj = objs[seg] /\ Len(slots) \in Nat
      BY <2>1, ObjType
    <3> HIDE DEF slots
    <3>2. 0 \in 0 .. Len(slots)
      BY <3>1
    <3>3. SizeOfAll(slots) \in Nat
      BY <3>1, <3>2, SizeOfPrefix
    <3> QED BY <3>1, <3>3 DEF slots
  <2>3. ~BufferedSegment(seg)
    BY <2>1, <2>2, RecordStreamAssumption DEF BufferedSegment
  <2> QED BY <2>1, <2>3, RefusesSegment
<1>5. CASE ReadError
  <2>1. rpc \in Mid /\ Return(Err("unverified")) /\ UNCHANGED <<record, objs, fault>>
    BY <1>5 DEF ReadError, Reading, source, reader, Mid
  <2> QED BY <1>5, <2>1, RefusedRead, RefusesSegment
<1>6. CASE ConnectionLost
  <2>1. /\ UNCHANGED <<record, objs>> /\ fault' = [fault EXCEPT !.transport = TRUE]
        /\ Return(Err("unverified"))
    BY <1>6 DEF ConnectionLost, source, reader
  <2> QED BY <2>1, TransportFails
<1>7. CASE CloseFails
  <2>1. /\ UNCHANGED <<record, objs>> /\ fault' = [fault EXCEPT !.transport = TRUE]
        /\ Return(Err("uncoded"))
    BY <1>7 DEF CloseFails, source, reader
  <2> QED BY <2>1, TransportFails
<1>8. CASE OpenSegmentStream
  <2>1. rpc = "head" /\ rpc \in Mid /\ UNCHANGED <<record, objs, fault>>
    BY <1>8 DEF OpenSegmentStream, source, reader, Mid
  <2>2. CASE Return(Err("unverified"))
    <3>1. rpc' = "done"
      BY <2>2 DEF Return
    <3> QED BY <1>8, <2>1, <2>2, <3>1, RefusedOpen, RefusesSegment
  <2>3. CASE rpc' = "first" /\ UNCHANGED <<body, rerr>>
    BY <2>1, <2>3, GoesOn DEF VerdictInv
  <2> QED BY <1>8, <2>2, <2>3 DEF OpenSegmentStream
<1>9. CASE ReadFirstChunk
  <2>1. rpc = "first" /\ rpc \in Mid /\ UNCHANGED <<record, objs, fault>>
    BY <1>9 DEF ReadFirstChunk, source, Mid
  <2>2. CASE Return(Err("unverified"))
    <3>1. rpc' = "done"
      BY <2>2 DEF Return
    <3> QED BY <1>9, <2>1, <2>2, <3>1, RefusedFirst, RefusesSegment
  <2>3. CASE rpc' = "next" /\ UNCHANGED <<body, rerr>>
    BY <2>1, <2>3, GoesOn DEF VerdictInv
  <2> QED BY <1>9, <2>2, <2>3 DEF ReadFirstChunk
<1>10. CASE ReadNextChunk
  <2>1. rpc = "next" /\ rpc' = "open" /\ UNCHANGED <<fault, body, rerr>>
    BY <1>10 DEF ReadNextChunk
  <2> QED BY <2>1, GoesOn DEF VerdictInv
<1>11. CASE OpenChunk
  <2>1. rpc = "open" /\ rpc \in Mid /\ UNCHANGED <<record, objs, fault>>
    BY <1>11 DEF OpenChunk, source, reader, Mid
  <2>2. CASE Return(Err("unverified"))
    <3>1. rpc' = "done"
      BY <2>2 DEF Return
    <3> QED BY <1>11, <2>1, <2>2, <3>1, RefusedChunk, RefusesSegment
  <2>3. CASE rpc' = "write" /\ UNCHANGED <<body, rerr>>
    BY <2>1, <2>3, GoesOn DEF VerdictInv
  <2> QED BY <1>11, <2>2, <2>3 DEF OpenChunk
<1>12. CASE WriteBroken
  <2>1. UNCHANGED <<record, objs, fault>> /\ Return(Teardown)
    BY <1>12 DEF WriteBroken, source, reader
  <2> DEFINE e == Teardown
  <2>2. e \in Verdicts \ {NotYet} /\ e # Nil /\ e.teardown /\ Return(e) /\ e.code = "unverified"
    BY <2>1 DEF Verdicts
  <2>3. fault' \in FaultType /\ (Disturbed => Disturbed')
    BY <2>1 DEF VerdictInv, Disturbed
  <2> HIDE DEF e
  <2> QED BY <2>1, <2>2, <2>3, ReturnedVerdict
<1>13. CASE WriteDone
  <2>1. rpc = "write" /\ rpc \in Mid /\ UNCHANGED <<record, objs, fault>>
    BY <1>13 DEF WriteDone, source, Mid
  <2>2. CASE Return(Err("unverified"))
    <3>1. rpc' = "done"
      BY <2>2 DEF Return
    <3> QED BY <1>13, <2>1, <2>2, <3>1, RefusedNext, RefusesSegment
  <2>3. CASE rpc' \in {"end", "next"} /\ UNCHANGED <<body, rerr>>
    BY <2>1, <2>3, GoesOn DEF VerdictInv
  <2> QED BY <1>13, <2>2, <2>3 DEF WriteDone
<1>14. CASE EndSegment
  <2>1. rpc = "end" /\ rpc \in Mid /\ UNCHANGED <<record, objs, fault>>
    BY <1>14 DEF EndSegment, source, Mid
  <2>2. CASE ~EndsAtBound(got, record.declared[seg])
    <3>1. Return(Err("unverified")) /\ ~BufferedSegment(seg)
      BY <1>14, <2>1, <2>2, EndedSegment DEF EndSegment
    <3> QED BY <2>1, <3>1, RefusesSegment
  <2>3. CASE EndsAtBound(got, record.declared[seg])
    <3>1. rpc' = "get" /\ rerr' = rerr /\ body' = [body EXCEPT !.armed = FALSE]
      BY <1>14, <2>3 DEF EndSegment
    <3>2. body' \in [flows : BOOLEAN, interrupted : BOOLEAN, timedOut : BOOLEAN, armed : BOOLEAN]
          /\ (body'.timedOut \/ body'.interrupted => Disturbed)
      BY <3>1 DEF VerdictInv
    <3> QED BY <2>1, <3>1, <3>2, GoesOn
  <2> QED BY <2>2, <2>3
<1>15. CASE CheckHash
  <2> DEFINE e == IF HashAgrees(sum) THEN Nil ELSE Err("plaintext")
  <2>1. UNCHANGED <<record, objs, fault, sum>> /\ Return(e)
    BY <1>15 DEF CheckHash, source, reader
  <2>2. /\ e \in Verdicts \ {NotYet} /\ (e = Nil => HashAgrees(sum)) /\ e = RestoreRecord(FALSE)
        /\ e.code \in {"ok", "plaintext"} /\ (e.code = "plaintext" => record.defect = "hash")
    BY <1>15, HashOfAll DEF Verdicts
  <2>3. fault' \in FaultType /\ (Disturbed => Disturbed')
    BY <2>1 DEF VerdictInv, Disturbed
  <2> HIDE DEF e
  <2> QED BY <2>1, <2>2, <2>3, ReturnedVerdict
<1>16. CASE Stall \/ TimerFires \/ Interrupt
  <2>1. /\ UNCHANGED <<record, rpc, objs, sum, rerr>>
        /\ \/ body' = [body EXCEPT !.flows = FALSE]
           \/ body' = [body EXCEPT !.timedOut = TRUE]
           \/ body' = [body EXCEPT !.interrupted = TRUE]
    BY <1>16 DEF Stall, TimerFires, Interrupt, source, reader
  <2>2. \/ fault' = [fault EXCEPT !.transport = TRUE]
        \/ fault' = [fault EXCEPT !.transport = @ \/ Reading, !.waited = @ \/ ~Reading]
    BY <1>16 DEF Stall, TimerFires, Interrupt
  <2>3. PICK a, b \in BOOLEAN : a = (fault.transport \/ Reading) /\ b = (fault.waited \/ ~Reading)
    BY Zenon
  <2>4. (a \/ b) /\ (fault.transport => a)
    BY <2>3, Zenon
  <2>5. \/ fault' = [fault EXCEPT !.transport = TRUE]
        \/ fault' = [fault EXCEPT !.transport = a, !.waited = b]
    BY <2>2, <2>3, Zenon
  <2>6. fault' \in FaultType /\ Disturbed' /\ (fault.transport => fault'.transport)
    BY <2>4, <2>5 DEF VerdictInv, FaultType, Disturbed
  <2>7. body' \in [flows : BOOLEAN, interrupted : BOOLEAN, timedOut : BOOLEAN, armed : BOOLEAN]
    BY <2>1 DEF VerdictInv
  <2> QED BY <2>1, <2>6, <2>7, SameVerdict
<1>17. CASE SealWrite \/ TargetStep \/ TargetFails \/ UNCHANGED vars
  <2>1. /\ UNCHANGED <<record, rpc, objs, sum, rerr, body>>
        /\ fault' = fault \/ fault' = [fault EXCEPT !.target = TRUE]
    BY <1>17 DEF SealWrite, TargetStep, Reserve, CreateTemp, Copy, reader,
                 CopyEnd, Rename, WriteReturned, Finish, TargetFails, source, vars
  <2>2. /\ fault' \in FaultType /\ fault'.transport = fault.transport /\ fault'.waited = fault.waited
        /\ body' \in [flows : BOOLEAN, interrupted : BOOLEAN, timedOut : BOOLEAN, armed : BOOLEAN]
    BY <2>1 DEF VerdictInv, FaultType
  <2>3. Disturbed' = Disturbed /\ (body'.timedOut \/ body'.interrupted => Disturbed')
    BY <2>1, <2>2 DEF VerdictInv, Disturbed
  <2> QED BY <2>1, <2>2, <2>3, SameVerdict
<1>18. CASE SealClose
  <2>1. rpc = "seal" /\ rpc' = "get" /\ UNCHANGED <<fault, body, rerr>>
    BY <1>18 DEF SealClose
  <2> QED BY <2>1, GoesOn DEF VerdictInv
<1> QED BY <1>1, <1>2, <1>3, <1>4, <1>5, <1>6, <1>7, <1>8, <1>9, <1>10, <1>11, <1>12, <1>13,
           <1>14, <1>15, <1>16, <1>17, <1>18 DEF Next, ReaderStep, Faults

(***************************************************************************)
(* What RestoreRecordTo has returned is what the objects it was served     *)
(* deserve, and nil only for the value itself.                             *)
(***************************************************************************)
THEOREM VerdictIsInvariant == Spec => [](ReaderInv /\ VerdictInv)
<1>1. Init => ReaderInv /\ VerdictInv
  BY InitReader, InitVerdict
<1>2. (ReaderInv /\ VerdictInv) /\ [Next]_vars => (ReaderInv /\ VerdictInv)'
  BY NextReader, NextVerdict
<1> QED BY <1>1, <1>2, PTL DEF Spec

(***************************************************************************)
(* When nothing disturbed the transfer and the target stayed, the streamed *)
(* path returns what the buffered path returns for the same objects: the   *)
(* same verdict on a record within the reassembly ceiling, and on a larger *)
(* one the verdict that path would return if it had none                   *)
(* (RestoreRecordTo, restoreRecord).                                       *)
(***************************************************************************)
THEOREM StreamedAsBuffered == Spec => []BufferedAgrees
<1>1. VerdictInv => BufferedAgrees
  <2> SUFFICES ASSUME VerdictInv, Judged
               PROVE  (~OverCeiling => rerr = Buffered) /\ rerr = RestoreRecord(FALSE)
    BY DEF BufferedAgrees
  <2>1. rerr = RestoreRecord(FALSE)
    BY DEF VerdictInv
  <2>2. ~OverCeiling => Buffered = RestoreRecord(FALSE)
    BY DEF Buffered, RestoreRecord
  <2> QED BY <2>1, <2>2
<1> QED BY <1>1, VerdictIsInvariant, PTL
-----------------------------------------------------------------------------
\* The target has not started.
LEMMA InitFlow == Init => FlowInv
<1> SUFFICES ASSUME Init PROVE FlowInv
  OBVIOUS
<1>1. /\ sink \in {"file", "discard"} /\ dest \in {[is |-> i, text |-> <<>>] : i \in {"free", "taken"}}
      /\ (dest.is = "taken" => sink = "file")
  <2>1. PICK route \in Routes : sink = route[2]
    BY DEF Init
  <2>2. route[2] \in {"file", "discard"}
    BY RecordStreamAssumption
  <2>3. dest \in {[is |-> i, text |-> <<>>] : i \in IF sink = "file" THEN {"free", "taken"} ELSE {"free"}}
    BY DEF Init
  <2> QED BY <2>1, <2>2, <2>3
<1>2. <<>> \in Text /\ <<>> \o <<>> = <<>>
  BY EmptyText, ConcatEmpty
<1>3. /\ rpc = "seal" /\ tpc = "idle" /\ rerr = NotYet /\ werr = NotYet /\ result = NotYet
      /\ offer = [on |-> FALSE, text |-> <<>>] /\ temp = [is |-> "none", text |-> <<>>]
      /\ pipe = [w |-> NotYet, r |-> FALSE] /\ sum = <<>>
  BY DEF Init
<1>4. dest \in [is : {"free", "taken"}, text : {<<>>}]
  BY <1>1
<1>5. /\ offer \in [on : BOOLEAN, text : Text] /\ temp \in [is : {"none", "file"}, text : Text]
      /\ dest \in [is : {"free", "taken", "reserved", "value"}, text : Text]
      /\ dest.is \in {"free", "taken"} /\ dest.text = <<>>
      /\ temp.text \o offer.text = sum
  BY <1>2, <1>3, <1>4
<1>6. pipe = [w |-> rerr, r |-> tpc \in {"await", "finished"}]
  <2> DEFINE r == tpc \in {"await", "finished"}
  <2>1. r = FALSE
    BY <1>3
  <2> HIDE DEF r
  <2>2. pipe = [w |-> rerr, r |-> r]
    BY <1>3, <2>1
  <2> QED BY <2>2 DEF r
<1> QED BY <1>1, <1>3, <1>5, <1>6, VerdictKinds DEF FlowInv, TargetPlaces, Writing

\* The reader returns: the target sees the end of the pipe.
LEMMA FlowReturn ==
    ASSUME FlowInv, VerdictInv, rpc \notin {"seal", "done"}, NEW e \in Verdicts \ {NotYet}, Return(e),
           UNCHANGED <<record, sink, target, result>>, fault.target => fault'.target,
           e.teardown => pipe.r, e = Nil => rpc # "write" /\ sum' = sum
    PROVE  FlowInv'
<1>1. /\ rerr' = e /\ pipe' = [pipe EXCEPT !.w = e] /\ rpc' = "done"
      /\ offer' = [on |-> FALSE, text |-> <<>>]
  BY DEF Return
<1>2. rerr = NotYet /\ e # NotYet
  BY DEF VerdictInv
<1>3. UNCHANGED <<tpc, dest, temp, werr, result, sink, record>> /\ Value' = Value
  BY RecordStays DEF target
<1>4. /\ tpc # "finished" /\ tpc # "rename" /\ dest.is # "value" /\ werr # Nil
      /\ werr \in {NotYet, Nil, Err("write")} /\ ~NotYet.teardown /\ <<>> \in Text
  BY <1>2, VerdictKinds, EmptyText DEF FlowInv
<1>5. tpc \in Writing /\ e = Nil => temp.text \o offer'.text = sum'
  <2> SUFFICES ASSUME tpc \in Writing, e = Nil PROVE temp.text \o <<>> = sum'
    BY <1>1
  <2>1. temp.text \o offer.text = sum /\ sum' = sum /\ offer.text = <<>>
    BY <1>2 DEF FlowInv
  <2> QED BY <2>1
<1>6. pipe' = [w |-> rerr', r |-> tpc' \in {"await", "finished"}]
  BY <1>1, <1>3 DEF FlowInv
<1>7. pipe'.r = pipe.r
  BY <1>1 DEF FlowInv
<1> QED BY <1>1, <1>2, <1>3, <1>4, <1>5, <1>6, <1>7 DEF FlowInv

\* The reader moves on.
LEMMA FlowGoesOn ==
    ASSUME FlowInv, rpc' \notin {"seal", "done"}, rpc # "seal",
           UNCHANGED <<record, sink, target, result, rerr, pipe, fault>>,
           offer' \in [on : BOOLEAN, text : Text], ~offer'.on => offer'.text = <<>>,
           offer'.on => rpc' = "write",
           temp.text \o offer.text = (IF rpc = "write" THEN sum \o cur.text ELSE sum) =>
             temp.text \o offer'.text = IF rpc' = "write" THEN sum' \o cur'.text ELSE sum'
    PROVE  FlowInv'
<1>1. UNCHANGED <<tpc, dest, temp, werr, result, sink, record>> /\ Value' = Value
  BY RecordStays DEF target
<1> QED BY <1>1, ZenonT(30) DEF FlowInv

\* The reader's steps: what it opened is offered before it is hashed.
LEMMA FlowOfReader ==
    ASSUME ReaderInv, VerdictInv, FlowInv,
           ReaderStep \/ TooLarge \/ ConnectionLost \/ CloseFails
    PROVE  FlowInv'
<1> USE VerdictKinds
<1>0. UNCHANGED <<record, sink, target, result>> /\ rpc \notin {"seal", "done"}
      /\ (fault.target => fault'.target)
  BY DEF ReaderStep, TooLarge, ConnectionLost, CloseFails, BadObjectName, GetReader, GetReaderFails,
         OpenSegmentStream, ReadFirstChunk, ReadNextChunk, OpenChunk, WriteBroken, WriteDone,
         EndSegment, CheckHash, ReadError, Reading, VerdictInv, FaultType, source
<1>1. ASSUME NEW c \in {"unverified", "unreachable", "uncoded", "plaintext"}, Return(Err(c))
      PROVE  FlowInv'
  <2> DEFINE e == Err(c)
  <2>1. e \in Verdicts \ {NotYet} /\ e # Nil /\ ~e.teardown /\ Return(e)
    BY <1>1 DEF Verdicts
  <2> HIDE DEF e
  <2> QED BY <1>0, <2>1, FlowReturn
<1>2. ASSUME Return(Teardown), pipe.r PROVE FlowInv'
  <2> DEFINE e == Teardown
  <2>1. e \in Verdicts \ {NotYet} /\ e # Nil /\ Return(e)
    BY <1>2 DEF Verdicts
  <2> HIDE DEF e
  <2> QED BY <1>0, <1>2, <2>1, FlowReturn
<1>3. ASSUME Return(Nil), rpc # "write", sum' = sum PROVE FlowInv'
  <2> DEFINE e == Nil
  <2>1. e \in Verdicts \ {NotYet} /\ ~e.teardown /\ Return(e)
    BY <1>3 DEF Verdicts
  <2> HIDE DEF e
  <2> QED BY <1>0, <1>3, <2>1, FlowReturn
<1>4. ASSUME rpc \in ReaderPlaces \ {"write"}, rpc' \in ReaderPlaces \ {"seal", "write", "done"},
             UNCHANGED <<sum, offer, rerr, pipe, fault>>
      PROVE  FlowInv'
  <2>1. offer' \in [on : BOOLEAN, text : Text] /\ (~offer'.on => offer'.text = <<>>) /\ ~offer'.on
    BY <1>4 DEF FlowInv
  <2> QED BY <1>0, <1>4, <2>1, FlowGoesOn
<1>5. CASE OpenChunk /\ rpc' = "write"
  <2>1. rpc = "open" /\ offer' = [on |-> TRUE, text |-> cur.text] /\ UNCHANGED <<sum, cur, rerr, pipe, fault>>
    BY <1>5 DEF OpenChunk, Return, reader
  <2>2. cur.text \in Text /\ temp.text \in Text /\ offer.text = <<>>
    BY <2>1 DEF ReaderInv, Slot, FlowInv
  <2>3. temp.text \o offer.text = temp.text
    BY <2>2, ConcatEmpty
  <2>4. temp.text \o offer.text = sum => temp.text \o offer'.text = sum' \o cur'.text
    BY <2>1, <2>3
  <2> QED BY <1>0, <1>5, <2>1, <2>2, <2>4, FlowGoesOn
<1>6. CASE WriteDone /\ rpc' # "done"
  <2>1. /\ rpc = "write" /\ rpc' \in {"end", "next"} /\ sum' = sum \o cur.text /\ ~offer.on
        /\ UNCHANGED <<offer, rerr, pipe, fault>>
    BY <1>6 DEF WriteDone, Return
  <2>2. offer' \in [on : BOOLEAN, text : Text] /\ (~offer'.on => offer'.text = <<>>) /\ ~offer'.on
    BY <2>1 DEF FlowInv
  <2> QED BY <1>0, <2>1, <2>2, FlowGoesOn
<1>7. CASE WriteDone /\ rpc' = "done"
  BY <1>1, <1>7 DEF WriteDone
<1>8. CASE CheckHash
  BY <1>1, <1>3, <1>8 DEF CheckHash, reader
<1>9. CASE WriteBroken
  BY <1>2, <1>9 DEF WriteBroken
<1>10. CASE OpenChunk /\ rpc' # "write"
  BY <1>1, <1>10 DEF OpenChunk
<1>11. CASE EndSegment \/ ReadNextChunk \/ GetReader
  BY <1>1, <1>4, <1>11 DEF EndSegment, ReadNextChunk, GetReader, ReaderPlaces
<1>12. CASE OpenSegmentStream \/ ReadFirstChunk
  BY <1>1, <1>4, <1>12 DEF OpenSegmentStream, ReadFirstChunk, ReaderPlaces, reader
<1>13. CASE BadObjectName \/ GetReaderFails \/ ReadError \/ TooLarge \/ ConnectionLost \/ CloseFails
  BY <1>1, <1>13 DEF BadObjectName, GetReaderFails, ReadError, TooLarge, ConnectionLost, CloseFails
<1> QED BY <1>5, <1>6, <1>7, <1>8, <1>9, <1>10, <1>11, <1>12, <1>13 DEF ReaderStep

\* A part of what is offered is taken.
LEMMA TakePart ==
    ASSUME NEW t \in Text, NEW u \in Text, NEW n \in 0 .. Len(t)
    PROVE  LET a == SubSeq(t, 1, n)  b == SubSeq(t, n + 1, Len(t))
           IN  /\ b \in Text /\ (u \o a) \in Text /\ (u \o a) \o b = u \o t
               /\ (~(n < Len(t)) => b = <<>>)
<1> DEFINE a == SubSeq(t, 1, n)  b == SubSeq(t, n + 1, Len(t))
<1>1. n \in Nat /\ Len(t) \in Nat
  BY DEF Text
<1>2. a \in Text /\ b \in Text
  BY <1>1 DEF Text
<1>3. a \o b = t
  <2>1. n <= Len(t) /\ Len(t) <= Len(t)
    BY <1>1
  <2>2. a \o b = SubSeq(t, 1, Len(t)) /\ SubSeq(t, 1, Len(t)) = t
    BY <1>1, <2>1, JoinPieces
  <2> QED BY <2>2
<1>4. ~(n < Len(t)) => b = <<>>
  BY <1>1 DEF Text
<1>5. (u \o a) \in Text /\ (u \o a) \o b = u \o (a \o b)
  <2> HIDE DEF a, b
  <2> QED BY <1>2 DEF Text
<1> HIDE DEF a, b
<1>6. (u \o a) \o b = u \o t
  BY <1>3, <1>5
<1> QED BY <1>2, <1>4, <1>5, <1>6 DEF a, b

\* The target's steps: what is taken from the pipe goes to the file, and the
\* value is at the destination only once the reader has returned nil.
LEMMA FlowOfTarget ==
    ASSUME ReaderInv, VerdictInv, FlowInv, TargetStep \/ TargetFails
    PROVE  FlowInv'
<1> USE VerdictKinds
<1>0. /\ UNCHANGED <<record, sink, rpc, sum, cur, rerr>> /\ Value' = Value
      /\ (fault.target => fault'.target)
  <2>1. UNCHANGED <<record, sink, rpc, reader, rerr>> /\ (fault.target => fault'.target)
    BY DEF TargetStep, TargetFails, Reserve, CreateTemp, Copy, CopyEnd, Rename, WriteReturned, Finish,
           source, VerdictInv, FaultType
  <2> QED BY <2>1, RecordStays DEF reader
<1>1. ASSUME NEW e, e = Err("write") \/ (e = rerr /\ e \notin {NotYet, Nil}), GiveUpWrite(e), tpc \in Writing \ {"idle"},
             UNCHANGED <<offer, pipe, result>>,
             e = Err("write") => fault'.target \/ dest.is = "taken"
      PROVE  FlowInv'
  <2>1. /\ tpc' = "returned" /\ werr' = e /\ temp' = [is |-> "none", text |-> <<>>]
        /\ dest' = IF dest.is = "reserved" THEN [is |-> "free", text |-> <<>>] ELSE dest
    BY <1>1 DEF GiveUpWrite, Empty
  <2>2. /\ e \notin {NotYet, Nil} /\ werr = NotYet /\ dest.is # "value" /\ result = NotYet
        /\ ~pipe.r /\ ~rerr.teardown
    BY <1>1 DEF FlowInv, Writing
  <2>3. dest'.is \in {"free", "taken"} /\ dest'.text = <<>> /\ dest' \in [is : {"free", "taken", "reserved", "value"}, text : Text]
        /\ (dest'.is = "taken" <=> dest.is = "taken")
    BY <2>1, <2>2, EmptyText DEF FlowInv
  <2>4. temp' \in [is : {"none", "file"}, text : Text]
    BY <2>1, EmptyText
  <2>5. pipe' = [w |-> rerr', r |-> tpc' \in {"await", "finished"}]
    <3> DEFINE r == tpc \in {"await", "finished"}
               s == tpc' \in {"await", "finished"}
    <3>1. r = s
      BY <1>1, <2>1 DEF Writing
    <3>2. pipe = [w |-> rerr, r |-> r]
      BY DEF FlowInv
    <3> HIDE DEF r, s
    <3>3. pipe' = [w |-> rerr', r |-> s]
      BY <1>0, <1>1, <3>1, <3>2
    <3> QED BY <3>3 DEF s
  <2>6. result' = IF tpc' = "finished" THEN Weigh(rerr, werr)' ELSE NotYet
    BY <1>1, <2>1, <2>2
  <2>7. e = Err("write") => fault'.target \/ dest'.is = "taken"
    BY <1>1, <2>3
  <2> HIDE DEF FlowInv
  <2> QED BY <1>0, <1>1, <2>1, <2>2, <2>3, <2>4, <2>5, <2>6, <2>7 DEF FlowInv, Writing, TargetPlaces
<1>2. ASSUME tpc' \in TargetPlaces, tpc' \in {"await", "finished"} <=> tpc \in {"await", "finished"},
             pipe' = pipe
      PROVE  pipe' = [w |-> rerr', r |-> tpc' \in {"await", "finished"}]
  <2> DEFINE r == tpc \in {"await", "finished"}
             s == tpc' \in {"await", "finished"}
  <2>1. r = s
    BY <1>2
  <2>2. pipe = [w |-> rerr, r |-> r]
    BY DEF FlowInv
  <2> HIDE DEF r, s
  <2>3. pipe' = [w |-> rerr', r |-> s]
    BY <1>0, <1>2, <2>1, <2>2
  <2> QED BY <2>3 DEF s
<1>3. CASE Reserve
  <2>0. tpc = "reserve" /\ UNCHANGED <<offer, pipe, result, fault>>
    BY <1>3 DEF Reserve
  <2>1. CASE dest.is = "free"
    <3>1. /\ dest' = [is |-> "reserved", text |-> <<>>] /\ tpc' = "temp" /\ UNCHANGED <<temp, werr>>
      BY <1>3, <2>1 DEF Reserve, Empty
    <3>2. pipe' = [w |-> rerr', r |-> tpc' \in {"await", "finished"}]
      BY <1>2, <2>0, <3>1 DEF TargetPlaces
    <3>3. dest' \in [is : {"free", "taken", "reserved", "value"}, text : Text]
      BY <3>1, EmptyText
    <3> QED BY <1>0, <2>0, <3>1, <3>2, <3>3 DEF FlowInv, Writing, TargetPlaces
  <2>2. CASE dest.is # "free"
    <3>1. GiveUpWrite(Err("write")) /\ dest.is = "taken"
      BY <1>3, <2>0, <2>2 DEF Reserve, FlowInv, Writing
    <3> DEFINE e == Err("write")
    <3>2. e = Err("write") /\ GiveUpWrite(e)
      BY <3>1
    <3> HIDE DEF e
    <3> QED BY <1>1, <2>0, <3>1, <3>2 DEF Writing
  <2> QED BY <2>1, <2>2
<1>4. CASE CreateTemp
  <2>1. /\ tpc = "temp" /\ tpc' = "copy" /\ temp' = [is |-> "file", text |-> <<>>]
        /\ UNCHANGED <<offer, pipe, result, fault, dest, werr>>
    BY <1>4 DEF CreateTemp, Empty
  <2>2. pipe' = [w |-> rerr', r |-> tpc' \in {"await", "finished"}]
    BY <1>2, <2>1 DEF TargetPlaces
  <2>3. temp' \in [is : {"none", "file"}, text : Text] /\ temp'.text = temp.text
    BY <2>1, EmptyText DEF FlowInv
  <2> QED BY <1>0, <2>1, <2>2, <2>3 DEF FlowInv, Writing, TargetPlaces
<1>5. CASE TargetFails
  <2>1. /\ tpc \in Writing \ {"idle"} /\ GiveUpWrite(Err("write")) /\ UNCHANGED <<offer, pipe, result>>
        /\ fault'.target
    BY <1>5 DEF TargetFails, Writing, VerdictInv
  <2> DEFINE e == Err("write")
  <2>2. e = Err("write") /\ GiveUpWrite(e)
    BY <2>1
  <2> HIDE DEF e
  <2> QED BY <1>1, <2>1, <2>2
<1>6. CASE Copy
  <2>1. /\ tpc = "copy" /\ offer.on /\ UNCHANGED <<pipe, tpc, dest, werr, result, fault>>
    BY <1>6 DEF Copy
  <2>2. PICK n \in 0 .. Len(offer.text) :
          /\ temp' = [temp EXCEPT !.text = @ \o SubSeq(offer.text, 1, n)]
          /\ offer' = [on |-> n < Len(offer.text),
                       text |-> SubSeq(offer.text, n + 1, Len(offer.text))]
    BY <1>6 DEF Copy
  <2> DEFINE t == offer.text  a == SubSeq(t, 1, n)  b == SubSeq(t, n + 1, Len(t))  u == temp.text
  <2>3. t \in Text /\ u \in Text /\ n \in 0 .. Len(t)
    BY DEF FlowInv
  <2>4. /\ b \in Text /\ (u \o a) \in Text /\ (u \o a) \o b = u \o t
        /\ (~(n < Len(t)) => b = <<>>)
    <3> HIDE DEF t, u
    <3> QED BY <2>3, TakePart
  <2>5. temp' = [temp EXCEPT !.text = u \o a] /\ offer'.text = b /\ offer'.on = (n < Len(t))
    BY <2>2
  <2>6. offer' \in [on : BOOLEAN, text : Text]
    <3> DEFINE f == n < Len(t)
    <3>1. offer' = [on |-> f, text |-> b] /\ f \in BOOLEAN
      BY <2>2
    <3> HIDE DEF f, b
    <3> QED BY <2>4, <3>1
  <2>8. temp' \in [is : {"none", "file"}, text : Text] /\ temp'.text = u \o a
    <3> DEFINE x == u \o a
    <3>1. temp' = [temp EXCEPT !.text = x] /\ x \in Text
      BY <2>4, <2>5
    <3> HIDE DEF x
    <3>2. temp' \in [is : {"none", "file"}, text : Text] /\ temp'.text = x
      BY <3>1 DEF FlowInv
    <3> QED BY <3>2 DEF x
  <2>9. temp'.text \o offer'.text = temp.text \o offer.text
    BY <2>4, <2>5, <2>8
  <2>10. (~offer'.on => offer'.text = <<>>) /\ (offer'.on => rpc' = "write")
    BY <1>0, <2>1, <2>4, <2>5 DEF FlowInv
  <2>11. pipe' = [w |-> rerr', r |-> tpc' \in {"await", "finished"}]
    BY <1>2, <2>1 DEF FlowInv
  <2> HIDE DEF t, a, b, u
  <2> QED BY <1>0, <2>1, <2>6, <2>8, <2>9, <2>10, <2>11 DEF FlowInv, Writing
<1>7. CASE CopyEnd
  <2>0. tpc = "copy" /\ UNCHANGED <<offer, pipe, result, fault>> /\ pipe.w = rerr /\ rerr # NotYet
    BY <1>7 DEF CopyEnd, FlowInv
  <2>1. CASE rerr # Nil
    <3>1. GiveUpWrite(rerr)
      BY <1>7, <2>0, <2>1 DEF CopyEnd, CopyEnds
    <3>2. rerr # Err("write")
      BY DEF VerdictInv, Verdicts, Err, NotYet, Nil, Teardown
    <3> DEFINE e == rerr
    <3>3. e = rerr /\ e \notin {NotYet, Nil} /\ e # Err("write") /\ GiveUpWrite(e)
      BY <2>0, <2>1, <3>1, <3>2
    <3> HIDE DEF e
    <3> QED BY <1>1, <2>0, <3>3 DEF Writing
  <2>2. CASE rerr = Nil
    <3>1. /\ rpc = "done" /\ ~offer.on /\ offer.text = <<>>
          /\ record.defect # "hash" /\ sum = Value /\ temp.text \in Text
          /\ temp.text \o offer.text = sum
      BY <2>0, <2>2 DEF VerdictInv, FlowInv, HashAgrees, Writing
    <3>2. temp.text = Value
      BY <3>1, ConcatEmpty
    <3>3. CASE sink = "file"
      <4>1. tpc' = "rename" /\ UNCHANGED <<dest, temp, werr>>
        BY <1>7, <2>0, <2>2, <3>3 DEF CopyEnd, CopyEnds
      <4>2. pipe' = [w |-> rerr', r |-> tpc' \in {"await", "finished"}]
        BY <1>2, <2>0, <4>1 DEF TargetPlaces
      <4> QED BY <1>0, <2>0, <2>2, <3>3, <4>1, <4>2 DEF FlowInv, Writing, TargetPlaces
    <3>4. CASE sink # "file"
      <4>1. dest' = [is |-> "value", text |-> temp.text] /\ tpc' = "returned" /\ werr' = Nil /\ temp' = temp
        BY <1>7, <2>0, <2>2, <3>4 DEF CopyEnd, CopyEnds
      <4>2. pipe' = [w |-> rerr', r |-> tpc' \in {"await", "finished"}]
        BY <1>2, <2>0, <4>1 DEF TargetPlaces
      <4>3. dest' \in [is : {"free", "taken", "reserved", "value"}, text : Text]
        BY <3>1, <4>1
      <4> QED BY <1>0, <2>0, <2>2, <3>1, <3>2, <3>4, <4>1, <4>2, <4>3 DEF FlowInv, Writing, TargetPlaces
    <3> QED BY <3>3, <3>4
  <2> QED BY <2>1, <2>2
<1>8. CASE Rename
  <2>0. tpc = "rename" /\ UNCHANGED <<offer, pipe, result, fault>> /\ rerr = Nil
    BY <1>8 DEF Rename, FlowInv
  <2>1. /\ dest' = [is |-> "value", text |-> temp.text] /\ temp' = [is |-> "none", text |-> <<>>]
        /\ tpc' = "returned" /\ werr' = Nil
    BY <1>8 DEF Rename, Empty
  <2>2. /\ rpc = "done" /\ ~offer.on /\ offer.text = <<>>
        /\ record.defect # "hash" /\ sum = Value /\ temp.text \in Text
        /\ temp.text \o offer.text = sum
    BY <2>0 DEF VerdictInv, FlowInv, HashAgrees, Writing
  <2>3. temp.text = Value
    BY <2>2, ConcatEmpty
  <2>4. pipe' = [w |-> rerr', r |-> tpc' \in {"await", "finished"}]
    BY <1>2, <2>0, <2>1 DEF TargetPlaces
  <2>5. /\ dest' \in [is : {"free", "taken", "reserved", "value"}, text : Text]
        /\ temp' \in [is : {"none", "file"}, text : Text]
    BY <2>1, <2>2, EmptyText
  <2> QED BY <1>0, <2>0, <2>1, <2>2, <2>3, <2>4, <2>5 DEF FlowInv, Writing, TargetPlaces
<1>9. CASE WriteReturned
  <2>1. /\ tpc = "returned" /\ pipe' = [pipe EXCEPT !.r = TRUE] /\ tpc' = "await"
        /\ UNCHANGED <<offer, dest, temp, werr, result, fault>>
    BY <1>9 DEF WriteReturned, CloseReadEnd
  <2>2. pipe' = [w |-> rerr', r |-> tpc' \in {"await", "finished"}]
    <3> DEFINE r == tpc \in {"await", "finished"}
               s == tpc' \in {"await", "finished"}
    <3>1. s = TRUE
      BY <2>1
    <3>2. pipe = [w |-> rerr, r |-> r]
      BY DEF FlowInv
    <3> HIDE DEF r, s
    <3>3. pipe' = [w |-> rerr', r |-> s]
      BY <1>0, <2>1, <3>1, <3>2
    <3> QED BY <3>3 DEF s
  <2>3. pipe'.r
    BY <2>1 DEF FlowInv
  <2> QED BY <1>0, <2>1, <2>2, <2>3 DEF FlowInv, Writing, TargetPlaces
<1>10. CASE Finish
  <2>1. /\ tpc = "await" /\ rerr # NotYet /\ result' = Weigh(rerr, werr) /\ tpc' = "finished"
        /\ UNCHANGED <<offer, pipe, dest, temp, werr, fault>>
    BY <1>10 DEF Finish
  <2>2. pipe' = [w |-> rerr', r |-> tpc' \in {"await", "finished"}]
    BY <1>2, <2>1 DEF TargetPlaces
  <2>3. result' = Weigh(rerr, werr)'
    BY <1>0, <2>1 DEF Weigh
  <2> QED BY <1>0, <2>1, <2>2, <2>3 DEF FlowInv, Writing, TargetPlaces
<1> QED BY <1>3, <1>4, <1>5, <1>6, <1>7, <1>8, <1>9, <1>10 DEF TargetStep

\* Every step keeps what is known of the target.
LEMMA NextFlow ==
    ASSUME ReaderInv, VerdictInv, FlowInv, [Next]_vars
    PROVE  FlowInv'
<1>1. ASSUME UNCHANGED <<record, sink, rpc, reader, offer, pipe, rerr, target, result>>,
             fault'.target = fault.target
      PROVE  FlowInv'
  <2>1. UNCHANGED <<sum, cur, tpc, dest, temp, werr>> /\ Value' = Value
    BY <1>1, RecordStays DEF reader, target
  <2> QED BY <1>1, <2>1, SMTT(30) DEF FlowInv, Weigh
<1>2. CASE SealClose
  <2>1. /\ rpc = "seal" /\ rpc' = "get" /\ tpc' = IF sink = "file" THEN "reserve" ELSE "copy"
        /\ UNCHANGED <<record, sink, reader, offer, pipe, rerr, dest, temp, werr, result, fault>>
    BY <1>2 DEF SealClose, source
  <2>2. Value' = Value /\ UNCHANGED <<sum, cur>> /\ tpc = "idle"
    BY <2>1, RecordStays DEF reader, FlowInv
  <2>3. pipe' = [w |-> rerr', r |-> tpc' \in {"await", "finished"}]
    <3> DEFINE r == tpc \in {"await", "finished"}
               s == tpc' \in {"await", "finished"}
    <3>1. r = s
      BY <2>1, <2>2
    <3>2. pipe = [w |-> rerr, r |-> r]
      BY DEF FlowInv
    <3> HIDE DEF r, s
    <3>3. pipe' = [w |-> rerr', r |-> s]
      BY <2>1, <3>1, <3>2
    <3> QED BY <3>3 DEF s
  <2> QED BY <2>1, <2>2, <2>3 DEF FlowInv, Writing, TargetPlaces
<1>3. CASE UNCHANGED vars
  BY <1>1, <1>3 DEF vars, source
<1>4. CASE SealWrite
  BY <1>1, <1>4 DEF SealWrite, source
<1>5. CASE Stall \/ TimerFires \/ Interrupt
  BY <1>1, <1>5 DEF Stall, TimerFires, Interrupt, source, VerdictInv, FaultType
<1> QED BY <1>2, <1>3, <1>4, <1>5, FlowOfReader, FlowOfTarget DEF Next, Faults

(***************************************************************************)
(* The temporary file and what is still in the pipe are together the       *)
(* plaintext opened so far, and a value stands at the destination only once*)
(* the reader has returned nil (WriteStream, applyStream).                 *)
(***************************************************************************)
THEOREM FlowIsInvariant == Spec => [](ReaderInv /\ VerdictInv /\ FlowInv)
<1>1. Init => ReaderInv /\ VerdictInv /\ FlowInv
  BY InitReader, InitVerdict, InitFlow
<1>2. (ReaderInv /\ VerdictInv /\ FlowInv) /\ [Next]_vars => (ReaderInv /\ VerdictInv /\ FlowInv)'
  BY NextReader, NextVerdict, NextFlow
<1> QED BY <1>1, <1>2, PTL DEF Spec
-----------------------------------------------------------------------------
\* applyStream weighs the two results: nil exactly when the value is there.
LEMMA WeighedRight ==
    ASSUME VerdictInv, FlowInv, tpc \in {"await", "finished"}, rerr # NotYet
    PROVE  /\ Weigh(rerr, werr) # NotYet
           /\ Weigh(rerr, werr) = Nil <=> dest.is = "value"
<1> USE VerdictKinds
<1>1. werr # NotYet /\ (dest.is = "value" <=> werr = Nil)
  BY DEF FlowInv, Writing
<1>2. IsErr(rerr) => werr # Nil
  BY DEF FlowInv, IsErr
<1> QED BY <1>1, <1>2 DEF Weigh, IsErr

(***************************************************************************)
(* Restoring a record by streaming implements restoring it atomically: the *)
(* value appears at the destination whole and verified, in one step, and   *)
(* success is reported exactly when it did, whatever the reservation, the  *)
(* temporary file and the three threads did on the way (applyStream,       *)
(* DirTarget.WriteStream, DiscardTarget.WriteStream).                      *)
(***************************************************************************)
THEOREM StreamRestoresAtomically == Spec => RestoresAtomically
<1> USE VerdictKinds
<1> DEFINE place == IF dest.is = "reserved" THEN "free" ELSE dest.is
           expected == IF record.defect = "hash" THEN <<<<0, 0>>>> ELSE Value
           outcome == CASE result = NotYet -> "running" [] result = Nil -> "ok" [] OTHER -> "failed"
<1>1. Init => Atomic!Init
  <2> SUFFICES ASSUME Init PROVE Atomic!Init
    OBVIOUS
  <2>1. dest.is \in {"free", "taken"} /\ dest.text = <<>>
    BY InitFlow DEF Init, FlowInv
  <2>2. result = NotYet
    BY DEF Init
  <2> QED BY <2>1, <2>2 DEF Atomic!Init
<1>2. ASSUME ReaderInv, VerdictInv, FlowInv, [Next]_vars
      PROVE  [Atomic!Next]_(Atomic!vars)
  <2>1. FlowInv' /\ VerdictInv'
    BY <1>2, NextFlow, NextVerdict
  <2>2. expected' = expected
    <3>1. record' = record
      BY <1>2 DEF Next, vars, SealWrite, SealClose, ReaderStep, TargetStep, TimerFires, Faults,
             BadObjectName, GetReader, GetReaderFails, OpenSegmentStream, ReadFirstChunk, ReadNextChunk,
             OpenChunk, WriteBroken, WriteDone, EndSegment, CheckHash, ReadError, Reserve, CreateTemp,
             Copy, CopyEnd, Rename, WriteReturned, Finish, TooLarge, ConnectionLost, Stall, Interrupt,
             CloseFails, TargetFails, source
    <3> QED BY <3>1, RecordStays
  <2>3. ASSUME place' = place, dest'.text = dest.text, outcome' = outcome
        PROVE  UNCHANGED Atomic!vars
    BY <2>2, <2>3 DEF Atomic!vars
  <2>4. CASE UNCHANGED <<dest, result>>
    BY <2>3, <2>4
  <2>5. ASSUME dest.is = "free" \/ dest.is = "reserved", dest'.is = "value", result = NotYet, result' = result
        PROVE  Atomic!Commit
    <3>1. dest'.text = Value' /\ record'.defect # "hash"
      BY <2>1, <2>5 DEF FlowInv
    <3> QED BY <2>2, <2>5, <3>1 DEF Atomic!Commit
  <2>6. ASSUME NEW e, GiveUpWrite(e), UNCHANGED result PROVE UNCHANGED Atomic!vars
    <3>1. place' = place /\ dest'.text = dest.text
      BY <1>2, <2>6 DEF GiveUpWrite, Empty, FlowInv
    <3> QED BY <2>3, <2>6, <3>1
  <2>7. CASE Reserve
    <3>1. CASE dest.is = "free"
      BY <1>2, <2>3, <2>7, <3>1 DEF Reserve, Empty, FlowInv
    <3> QED BY <2>6, <2>7, <3>1 DEF Reserve
  <2>8. CASE TargetFails
    BY <2>6, <2>8 DEF TargetFails
  <2>9. CASE CopyEnd
    <3>1. tpc = "copy" /\ result = NotYet /\ result' = result /\ (sink # "file" => dest.is # "taken") /\ dest.is # "value"
      BY <1>2, <2>9 DEF CopyEnd, FlowInv, Writing
    <3>2. dest.is = "free" \/ dest.is = "reserved" \/ sink = "file"
      BY <1>2, <3>1 DEF FlowInv
    <3> QED BY <2>4, <2>5, <2>6, <2>9, <3>1, <3>2 DEF CopyEnd, Atomic!Next
  <2>10. CASE Rename
    <3>1. result = NotYet /\ result' = result /\ dest.is = "reserved" /\ dest'.is = "value"
      BY <1>2, <2>10 DEF Rename, FlowInv
    <3> QED BY <2>5, <3>1 DEF Atomic!Next
  <2>11. CASE Finish
    <3>1. /\ result = NotYet /\ result' = Weigh(rerr, werr) /\ dest' = dest
          /\ tpc = "await" /\ rerr # NotYet
      BY <1>2, <2>11 DEF Finish, FlowInv
    <3>2. result' # NotYet /\ (result' = Nil <=> dest.is = "value")
      BY <1>2, <3>1, WeighedRight
    <3>3. CASE result' = Nil
      BY <2>2, <3>1, <3>2, <3>3 DEF Atomic!Next, Atomic!Succeed
    <3>4. CASE result' # Nil
      BY <2>2, <3>1, <3>2, <3>4 DEF Atomic!Next, Atomic!Fail
    <3> QED BY <3>3, <3>4
  <2>12. CASE CreateTemp \/ Copy \/ WriteReturned
    BY <2>4, <2>12 DEF CreateTemp, Copy, WriteReturned
  <2>13. CASE UNCHANGED vars \/ SealWrite \/ SealClose \/ TimerFires \/ Stall \/ Interrupt
    BY <2>4, <2>13 DEF vars, target, SealWrite, SealClose, TimerFires, Stall, Interrupt
  <2>14. CASE ReaderStep \/ TooLarge \/ ConnectionLost \/ CloseFails
    BY <2>4, <2>14 DEF target, ReaderStep, TooLarge, ConnectionLost, CloseFails,
             BadObjectName, GetReader, GetReaderFails, OpenSegmentStream, ReadFirstChunk, ReadNextChunk,
             OpenChunk, WriteBroken, WriteDone, EndSegment, CheckHash, ReadError
  <2> QED BY <1>2, <2>7, <2>8, <2>9, <2>10, <2>11, <2>12, <2>13, <2>14 DEF Next, TargetStep, Faults
<1> HIDE DEF place, expected, outcome
<1> QED BY <1>1, <1>2, FlowIsInvariant, PTL DEF Spec, RestoresAtomically, Atomic!Spec
-----------------------------------------------------------------------------
\* The reader fetches no more objects than the record has segments.
ServedInv == Len(objs) <= Len(record.lens)

\* Nothing has been fetched.
LEMMA InitServed == Init => ServedInv
<1> SUFFICES ASSUME Init PROVE ServedInv
  OBVIOUS
<1>1. objs = <<>> /\ Len(record.lens) \in Nat
  BY InitialRecord DEF Init, RecordOK
<1> QED BY <1>1 DEF ServedInv

\* One object is fetched for each segment.
LEMMA NextServed ==
    ASSUME ReaderInv, ServedInv, [Next]_vars
    PROVE  ServedInv'
<1>1. CASE GetReader
  <2>1. seg \in Segments /\ Len(objs) = seg - 1 /\ record' = record /\ objs \in Seq(Served) /\ RecordOK
    BY <1>1 DEF GetReader, ReaderInv, source
  <2>2. seg \in Nat \ {0} /\ Segments = 1 .. Len(record.lens) /\ Len(record.lens) \in Nat
    BY <2>1, SegTextType DEF RecordOK
  <2>3. PICK o : objs' = Append(objs, o)
    BY <1>1 DEF GetReader
  <2>4. Len(objs') = Len(objs) + 1
    BY <2>1, <2>3
  <2> QED BY <2>1, <2>2, <2>4 DEF ServedInv
<1>2. CASE ~GetReader
  <2>1. UNCHANGED <<record, objs>>
    BY <1>2 DEF Next, vars, SealWrite, SealClose, ReaderStep, TargetStep, TimerFires, Faults,
             BadObjectName, GetReaderFails, OpenSegmentStream, ReadFirstChunk, ReadNextChunk,
             OpenChunk, WriteBroken, WriteDone, EndSegment, CheckHash, ReadError, Reserve, CreateTemp,
             Copy, CopyEnd, Rename, WriteReturned, Finish, TooLarge, ConnectionLost, Stall, Interrupt,
             CloseFails, TargetFails, source, reader
  <2> QED BY <2>1 DEF ServedInv
<1> QED BY <1>1, <1>2

\* An honest store gives the buffered path nothing to refuse.
LEMMA HonestSegment ==
    ASSUME RecordOK, Honest, NEW s \in Segments, s \in DOMAIN objs
    PROVE  BufferedSegment(s) /\ objs[s].slots = Sealed(s)
<1>1. /\ objs[s] = Intact(s) /\ ChunkBound(record.declared[s]) /\ SizeOfAll(objs[s].slots) <= ObjectLimit
      /\ record.defect = "none"
  BY DEF Honest
<1>2. objs[s].head = "whole" /\ objs[s].slots = Sealed(s)
  BY <1>1 DEF Intact, Sealed
<1> DEFINE c == Sealed(s)
<1>3. /\ c \in Seq(Slot) /\ Len(c) = Chunks(record.lens[s]) /\ Len(c) \in Nat \ {0}
      /\ \A i \in 1 .. Len(c) : c[i] = Chunk(s, i - 1, i = Len(c), PieceOf(SegText(s), i))
      /\ TextOf(c) = SegText(s) /\ Len(SegText(s)) = record.lens[s]
  BY SealedType, SegTextType
<1>4. record.declared[s] = Len(c)
  BY <1>1, <1>3 DEF RecordOK, Segments
<1>5. Len(c) <= MaxChunkIndex + 1 /\ MaxChunkIndex \in Nat
  BY <1>1, <1>3, <1>4, RecordStreamAssumption, StreamAssumption DEF ChunkBound
<1> HIDE DEF c
<1>6. OpenStream(s, c)
  <2>1. c # <<>> /\ DOMAIN c = 1 .. Len(c)
    BY <1>3
  <2>2. ASSUME NEW i \in 1 .. Len(c) PROVE Opens(c[i], s, i - 1, i = Len(c))
    <3> DEFINE l == i = Len(c)  t == PieceOf(SegText(s), i)
    <3>1. c[i] = Chunk(s, i - 1, l, t)
      BY <1>3
    <3> HIDE DEF l, t
    <3>2. Opens(c[i], s, i - 1, l)
      BY <3>1 DEF Opens, Chunk
    <3> QED BY <3>2 DEF l
  <2>3. Len(c) - 1 <= MaxChunkIndex
    BY <1>3, <1>5
  <2> QED BY <2>1, <2>2, <2>3 DEF OpenStream
<1>7. Chunks(Len(TextOf(c))) = record.declared[s] /\ Len(c) <= record.declared[s]
  BY <1>3, <1>4
<1>8. BufferedSegment(s)
  BY <1>1, <1>2, <1>6, <1>7 DEF BufferedSegment, c
<1> QED BY <1>2, <1>8

\* An honest store is accepted by the buffered path.
LEMMA HonestAccepted ==
    ASSUME ReaderInv, ServedInv, Honest
    PROVE  RestoreRecord(FALSE) = Nil
<1>1. /\ RecordOK /\ Len(record.lens) \in Nat /\ Segments = 1 .. Len(record.lens)
      /\ DOMAIN objs = 1 .. Len(objs) /\ Len(objs) \in Nat
  BY DEF ReaderInv, RecordOK, Segments
<1>2. \A s \in DOMAIN objs : s \in Segments
  BY <1>1 DEF ServedInv
<1>3. \A s \in DOMAIN objs : BufferedSegment(s) /\ objs[s].slots = Sealed(s)
  BY <1>1, <1>2, HonestSegment
<1>4. Len(objs) = Len(record.lens) =>
        HashAgrees(TextOf(FlattenSeq([s \in DOMAIN objs |-> objs[s].slots])))
  <2> SUFFICES ASSUME Len(objs) = Len(record.lens)
               PROVE  HashAgrees(TextOf(FlattenSeq([s \in DOMAIN objs |-> objs[s].slots])))
    OBVIOUS
  <2>1. [s \in DOMAIN objs |-> objs[s].slots] = [s \in 1 .. Len(record.lens) |-> Sealed(s)]
    BY <1>1, <1>3
  <2>2. Len(record.lens) \in 0 .. Len(record.lens)
    BY <1>1
  <2>3. TextOf(FlattenSeq([s \in 1 .. Len(record.lens) |-> Sealed(s)])) = Value
    BY <1>1, <2>2, TextOfSegments, BeforeStep
  <2> QED BY <2>1, <2>3 DEF HashAgrees, Honest
<1> QED BY <1>3, <1>4 DEF RestoreRecord, Reassembled, Honest

(***************************************************************************)
(* The record's failure names its cause: applyStream reports a hash        *)
(* mismatch, an unreachable segment or an error without a code only when   *)
(* the content was at fault or the transfer was broken from outside;       *)
(* unverified also when the timer ran out while the reader waited for the  *)
(* target; and the target's error only when the target failed, although    *)
(* either side's failure makes the other one fail too (applyStream,        *)
(* errStreamTeardown, idleWatchdogBody).                                   *)
(***************************************************************************)
THEOREM BlameNeverMisplaced == Spec => []BlameIsRight
<1>1. Init => ServedInv
  BY InitServed
<1>2. ReaderInv /\ ServedInv /\ [Next]_vars => ServedInv'
  BY NextServed
<1>3. ReaderInv /\ VerdictInv /\ FlowInv /\ ServedInv => BlameIsRight
  <2> SUFFICES ASSUME ReaderInv, VerdictInv, FlowInv, ServedInv PROVE BlameIsRight
    OBVIOUS
  <2> USE VerdictKinds
  <2> DEFINE Codes == {"unverified", "plaintext", "unreachable", "uncoded"}
  <2>1. /\ NotYet.code \notin Codes \cup {"write"} /\ Nil.code \notin Codes \cup {"write"}
        /\ Err("write").code = "write"
    BY DEF NotYet, Nil, Err
  <2>2. rerr \in Verdicts /\ rerr.code # "write"
    BY DEF VerdictInv, Verdicts, NotYet, Nil, Teardown, Err
  <2>3. ASSUME result.code \in Codes PROVE result = rerr /\ (~Honest \/ Disturbed)
    <3>1. result = Weigh(rerr, werr) /\ rerr # NotYet
      BY <2>1, <2>3 DEF FlowInv
    <3>2. IsErr(rerr) /\ ~rerr.teardown
      BY <2>1, <2>3, <3>1 DEF FlowInv, Weigh, IsErr
    <3>3. ~Disturbed => rerr = RestoreRecord(FALSE)
      BY <3>1, <3>2 DEF VerdictInv, Judged
    <3> QED BY <3>1, <3>2, <3>3, HonestAccepted DEF IsErr, Weigh
  <2>4. ASSUME result.code = "write" PROVE fault.target \/ dest.is = "taken"
    <3>1. result = Weigh(rerr, werr)
      BY <2>1, <2>4 DEF FlowInv
    <3>2. result = werr
      BY <2>2, <2>4, <3>1 DEF Weigh
    <3> QED BY <2>1, <2>2, <2>4, <3>2 DEF FlowInv
  <2>5. ASSUME result.code \in {"plaintext", "unreachable", "uncoded"}
        PROVE  ~Honest \/ fault.transport
    <3>1. result = rerr
      BY <2>3, <2>5
    <3> QED BY <2>5, <3>1 DEF VerdictInv, HasCause, Honest
  <2> QED BY <2>3, <2>4, <2>5 DEF BlameIsRight
<1> QED BY <1>1, <1>2, <1>3, FlowIsInvariant, PTL DEF Spec
-----------------------------------------------------------------------------
\* The value sealed through the writer is a text.
LEMMA FirstType ==
    ASSUME RecordOK
    PROVE  First \in Text /\ Len(First) \in Nat
<1>1. CASE record.lens = <<>>
  BY <1>1, EmptyText DEF First, Text
<1>2. CASE record.lens # <<>>
  <2>1. 1 \in Segments
    BY <1>2 DEF RecordOK, Segments
  <2>2. SegText(1) \in Text
    BY <2>1, SegTextType
  <2> QED BY <1>2, <2>2 DEF First, Text
<1> QED BY <1>1, <1>2

\* Pieces of a text: the rest of it cut again, and two neighbours joined.
LEMMA Neighbours ==
    ASSUME NEW t \in Text, NEW a \in Nat, NEW p \in Nat, NEW k \in Nat, a <= p, p + k <= Len(t)
    PROVE  /\ SubSeq(SubSeq(t, p + 1, Len(t)), 1, k) = SubSeq(t, p + 1, p + k)
           /\ SubSeq(SubSeq(t, p + 1, Len(t)), k + 1, Len(SubSeq(t, p + 1, Len(t)))) =
                 SubSeq(t, p + k + 1, Len(t))
           /\ SubSeq(t, a + 1, p) \o SubSeq(t, p + 1, p + k) = SubSeq(t, a + 1, p + k)
           /\ Len(SubSeq(t, p + 1, Len(t))) = Len(t) - p
           /\ Len(SubSeq(t, p + 1, p + k)) = k /\ SubSeq(t, p + 1, p + k) \in Text
           /\ Len(SubSeq(t, p + k + 1, Len(t))) = Len(t) - (p + k)
           /\ SubSeq(t, p + k + 1, Len(t)) \in Text
           /\ Len(SubSeq(t, a + 1, p + k)) = (p + k) - a /\ SubSeq(t, a + 1, p + k) \in Text
<1> DEFINE rest == SubSeq(t, p + 1, Len(t))
<1>0. Len(t) \in Nat /\ p + k \in Nat
  BY DEF Text
<1>1. rest \in Text /\ Len(rest) = Len(t) - p
  BY <1>0 DEF Text
<1>2. SubSeq(rest, 1, k) = SubSeq(t, p + 1, p + k)
  BY <1>0 DEF Text
<1>3. SubSeq(rest, k + 1, Len(rest)) = SubSeq(t, p + k + 1, Len(t))
  BY <1>0 DEF Text
<1>4. SubSeq(t, a + 1, p) \o SubSeq(t, p + 1, p + k) = SubSeq(t, a + 1, p + k)
  BY <1>0 DEF Text
<1>5. /\ Len(SubSeq(t, p + 1, p + k)) = k /\ SubSeq(t, p + 1, p + k) \in Text
      /\ Len(SubSeq(t, p + k + 1, Len(t))) = Len(t) - (p + k)
      /\ SubSeq(t, p + k + 1, Len(t)) \in Text
      /\ Len(SubSeq(t, a + 1, p + k)) = (p + k) - a /\ SubSeq(t, a + 1, p + k) \in Text
  BY <1>0 DEF Text
<1> QED BY <1>1, <1>2, <1>3, <1>4, <1>5

\* One more full chunk sealed.
LEMMA WrittenStep ==
    ASSUME RecordOK, NEW n \in Nat
    PROVE  Written(n + 1) = Append(Written(n),
               Chunk(1, n, FALSE, SubSeq(First, ChunkSize * n + 1, ChunkSize * n + ChunkSize)))
<1> USE StreamAssumption
<1> DEFINE item(i) == Chunk(1, i - 1, FALSE, SubSeq(First, ChunkSize * (i - 1) + 1, ChunkSize * i))
<1>1. item(n + 1) = Chunk(1, n, FALSE, SubSeq(First, ChunkSize * n + 1, ChunkSize * n + ChunkSize))
  <2>1. (n + 1) - 1 = n /\ ChunkSize * (n + 1) = ChunkSize * n + ChunkSize
    OBVIOUS
  <2> QED BY <2>1
<1>2. \A m \in Nat : Written(m) = [i \in 1 .. m |-> item(i)]
  BY DEF Written
<1> HIDE DEF item
<1>3. Written(n) = [i \in 1 .. n |-> item(i)] /\ Written(n + 1) = [i \in 1 .. n + 1 |-> item(i)]
  BY <1>2
<1>4. Written(n + 1) = Append(Written(n), item(n + 1))
  BY <1>3
<1> QED BY <1>1, <1>4

\* A value longer than the counter reaches cannot be sealed.
LEMMA TooLong ==
    ASSUME NEW L \in Nat, NEW n \in Nat, L > ChunkSize * n + ChunkSize
    PROVE  Chunks(L) - 1 > n
<1> USE StreamAssumption
<1> DEFINE m == Chunks(L)
<1>1. PICK b \in 0 .. ChunkSize : L = ChunkSize * (m - 1) + b /\ m \in Nat \ {0}
  BY ChunksCut
<1> HIDE DEF m
<1>2. ASSUME m - 1 <= n PROVE FALSE
  <2>1. ChunkSize * (m - 1) <= ChunkSize * n
    BY <1>1, <1>2
  <2> QED BY <1>1, <2>1
<1>3. m - 1 > n
  BY <1>1, <1>2
<1> QED BY <1>3 DEF m

\* Write: a full buffer is sealed as a chunk that is not the last, and only when
\* more bytes follow.
LEMMA WriterSealWrite ==
    ASSUME RecordOK, WriterInv, SealWrite
    PROVE  WriterInv'
<1> USE StreamAssumption
<1> DEFINE st == w.stream  n == Len(st.out)  b == Len(st.buf)  t == First  L == Len(t)
           p == ChunkSize * n + b
<1>1. /\ rpc = "seal" /\ rpc' = "seal" /\ st.state = "open" /\ w.left # <<>> /\ record' = record
  BY DEF SealWrite, source
<1>2. PICK k \in 1 .. ChunkSize :
        LET room == IF b = ChunkSize THEN ChunkSize ELSE ChunkSize - b
        IN  /\ k <= room /\ k <= Len(w.left)
            /\ w' = [stream |-> WritePiece(st, 1, SubSeq(w.left, 1, k)),
                     left |-> SubSeq(w.left, k + 1, Len(w.left))]
  BY DEF SealWrite
<1>3. First' = First /\ \A m : Written(m)' = Written(m)
  BY <1>1, RecordStays DEF First, Written
<1>4. /\ st \in [buf : Text, out : Seq(Slot), counter : Nat, state : {"open", "closed", "failed"}]
      /\ w.left \in Text /\ st.out \in Seq(Slot) /\ st.buf \in Text
      /\ t \in Text /\ L \in Nat /\ n \in Nat /\ b \in Nat
  BY FirstType DEF WriterInv, Text
<1>5. /\ st.out = Written(n) /\ st.counter = n /\ n <= MaxChunkIndex /\ b <= ChunkSize
      /\ p + Len(w.left) = L /\ st.buf = SubSeq(t, ChunkSize * n + 1, p)
      /\ w.left = SubSeq(t, p + 1, L)
  BY <1>1 DEF WriterInv
<1> DEFINE a == ChunkSize * n  piece == SubSeq(w.left, 1, k)  rest == SubSeq(w.left, k + 1, Len(w.left))
<1>names. n = Len(st.out) /\ b = Len(st.buf) /\ L = Len(t) /\ t = First
  OBVIOUS
<1>room. k <= (IF b = ChunkSize THEN ChunkSize ELSE ChunkSize - b) /\ k <= Len(w.left)
  BY <1>2
<1>9. w' = [stream |-> WritePiece(st, 1, piece), left |-> rest]
  BY <1>2
<1> HIDE DEF n, b, L, t, p
<1>6. a \in Nat /\ p \in Nat /\ p = a + b /\ a <= p
  <2>1. a \in Nat
    BY <1>4
  <2>2. p = a + b
    BY DEF p
  <2> HIDE DEF a
  <2> QED BY <1>4, <2>1, <2>2
<1>7. Len(w.left) = L - p /\ p + k <= L /\ k \in Nat \ {0}
  <2> HIDE DEF a
  <2>1. Len(w.left) \in Nat
    BY <1>4 DEF Text
  <2> QED BY <1>room, <1>4, <1>5, <1>6, <2>1
<1>8. /\ piece = SubSeq(t, p + 1, p + k) /\ Len(piece) = k /\ piece \in Text
      /\ rest = SubSeq(t, p + k + 1, L) /\ Len(rest) = L - (p + k) /\ rest \in Text
      /\ st.buf \o piece = SubSeq(t, a + 1, p + k)
      /\ Len(st.buf \o piece) = b + k /\ st.buf \o piece \in Text
  <2> HIDE DEF a
  <2> DEFINE l == SubSeq(t, p + 1, Len(t))
  <2>0. t \in Text /\ a \in Nat /\ p \in Nat /\ k \in Nat /\ a <= p /\ p + k <= Len(t)
    BY <1>names, <1>4, <1>5, <1>6, <1>7
  <2>l. w.left = l
    BY <1>names, <1>5
  <2>1. /\ SubSeq(l, 1, k) = SubSeq(t, p + 1, p + k)
        /\ SubSeq(l, k + 1, Len(l)) = SubSeq(t, p + k + 1, Len(t))
        /\ SubSeq(t, a + 1, p) \o SubSeq(t, p + 1, p + k) = SubSeq(t, a + 1, p + k)
        /\ Len(SubSeq(t, p + 1, p + k)) = k /\ SubSeq(t, p + 1, p + k) \in Text
        /\ Len(SubSeq(t, p + k + 1, Len(t))) = Len(t) - (p + k)
        /\ SubSeq(t, p + k + 1, Len(t)) \in Text
        /\ Len(SubSeq(t, a + 1, p + k)) = (p + k) - a /\ SubSeq(t, a + 1, p + k) \in Text
    <3>1. /\ SubSeq(l, 1, k) = SubSeq(t, p + 1, p + k)
          /\ SubSeq(l, k + 1, Len(l)) = SubSeq(t, p + k + 1, Len(t))
      BY <2>0, Neighbours
    <3>2. SubSeq(t, a + 1, p) \o SubSeq(t, p + 1, p + k) = SubSeq(t, a + 1, p + k)
      BY <2>0, Neighbours
    <3>3. Len(SubSeq(t, p + 1, p + k)) = k /\ SubSeq(t, p + 1, p + k) \in Text
      BY <2>0, Neighbours
    <3>4. /\ Len(SubSeq(t, p + k + 1, Len(t))) = Len(t) - (p + k)
          /\ SubSeq(t, p + k + 1, Len(t)) \in Text
      <4> DEFINE q == p + k
      <4>1. q \in Nat /\ q <= Len(t) /\ t \in Text
        BY <2>0
      <4> HIDE DEF q
      <4>2. Len(SubSeq(t, q + 1, Len(t))) = Len(t) - q /\ SubSeq(t, q + 1, Len(t)) \in Text
        BY <4>1 DEF Text
      <4> QED BY <4>2 DEF q
    <3>5. Len(SubSeq(t, a + 1, p + k)) = (p + k) - a /\ SubSeq(t, a + 1, p + k) \in Text
      <4> DEFINE q == p + k
      <4>1. q \in Nat /\ q <= Len(t) /\ t \in Text /\ a \in Nat /\ a <= q
        BY <2>0
      <4> HIDE DEF q
      <4>2. Len(SubSeq(t, a + 1, q)) = q - a /\ SubSeq(t, a + 1, q) \in Text
        BY <4>1 DEF Text
      <4> QED BY <4>2 DEF q
    <3> QED BY <3>1, <3>2, <3>3, <3>4, <3>5
  <2> HIDE DEF l
  <2>2. st.buf = SubSeq(t, a + 1, p)
    BY <1>5 DEF a
  <2>3. (p + k) - a = b + k
    BY <1>4, <1>6, <1>7
  <2> QED BY <1>names, <2>l, <2>1, <2>2, <2>3
<1>len. p + k + Len(rest) = L /\ L > p
  <2>1. Len(rest) = L - (p + k)
    BY <1>8
  <2> HIDE DEF rest, a
  <2> QED BY <1>4, <1>6, <1>7, <2>1
<1>10. CASE b # ChunkSize
  <2>1. WritePiece(st, 1, piece) = [st EXCEPT !.buf = st.buf \o piece]
    BY <1>names, <1>1, <1>10 DEF WritePiece
  <2>2. b + k <= ChunkSize
    BY <1>room, <1>4, <1>5, <1>7, <1>10
  <2> DEFINE buf2 == st.buf \o piece
  <2>3. /\ w'.left = rest /\ w'.stream = [st EXCEPT !.buf = buf2]
        /\ buf2 \in Text /\ Len(buf2) = b + k /\ buf2 = SubSeq(t, a + 1, p + k)
    BY <1>8, <1>9, <2>1
  <2> HIDE DEF buf2, rest, piece
  <2>4. /\ w'.stream.buf = buf2 /\ w'.stream.out = st.out /\ w'.stream.counter = n
        /\ w'.stream.state = "open"
    BY <1>1, <1>4, <1>5, <2>3
  <2>5. w' \in [stream : [buf : Text, out : Seq(Slot), counter : Nat,
                          state : {"open", "closed", "failed"}], left : Text]
    <3>1. w'.stream \in [buf : Text, out : Seq(Slot), counter : Nat, state : {"open", "closed", "failed"}]
      BY <1>4, <2>3
    <3>2. w' = [stream |-> w'.stream, left |-> w'.left] /\ w'.left \in Text
      BY <1>8, <1>9, <2>3
    <3> QED BY <3>1, <3>2
  <2>6. /\ ChunkSize * n + (b + k) = p + k /\ p + k + Len(rest) = L
        /\ b + k # 0
    <3>1. a = ChunkSize * n
      OBVIOUS
    <3> HIDE DEF a
    <3> QED BY <1>len, <1>4, <1>6, <1>7, <3>1
  <2>7. /\ Len(w'.stream.out) = n /\ Len(w'.stream.buf) = b + k
        /\ w'.stream.buf = SubSeq(t, ChunkSize * n + 1, ChunkSize * n + (b + k))
        /\ w'.left = SubSeq(t, ChunkSize * n + (b + k) + 1, L)
    BY <1>names, <1>8, <2>3, <2>4, <2>6
  <2>8. ChunkSize * n + (b + k) + Len(w'.left) = L /\ b + k \in Nat
    <3>1. Len(w'.left) = Len(rest)
      BY <2>3
    <3>2. ChunkSize * n + (b + k) + Len(w'.left) = L
      BY <2>6, <3>1
    <3>3. b + k \in Nat
      BY <1>4, <1>7
    <3> QED BY <3>2, <3>3
  <2> HIDE DEF a, st
  <2> QED BY <1>names, <1>1, <1>3, <1>5, <2>2, <2>4, <2>5, <2>6, <2>7, <2>8 DEF WriterInv, st
<1>11. CASE b = ChunkSize
  <2> DEFINE c == Chunk(1, n, FALSE, st.buf)  out2 == Append(st.out, c)
  <2>0. p = ChunkSize * n + ChunkSize /\ p = ChunkSize * (n + 1)
    <3>1. p = ChunkSize * n + ChunkSize
      BY <1>6, <1>11
    <3>2. ChunkSize * (n + 1) = ChunkSize * n + ChunkSize
      BY <1>4
    <3> QED BY <3>1, <3>2
  <2>1. out2 = Written(n + 1) /\ c \in Slot /\ out2 \in Seq(Slot) /\ Len(out2) = n + 1
    <3>1. c \in Slot
      BY <1>4 DEF Chunk, Slot
    <3>2. Written(n + 1) = Append(Written(n), Chunk(1, n, FALSE, SubSeq(t, ChunkSize * n + 1, p)))
      BY <1>names, <1>4, <2>0, WrittenStep
    <3> HIDE DEF c
    <3>3. out2 \in Seq(Slot) /\ Len(out2) = n + 1
      BY <1>names, <1>4, <3>1
    <3> QED BY <1>5, <3>1, <3>2, <3>3 DEF c
  <2> HIDE DEF c
  <2>2. FlushChunk(st, 1, FALSE) =
          [buf |-> <<>>, out |-> out2,
           counter |-> IF AtLastIndex(n) THEN n ELSE Advanced(n),
           state |-> IF AtLastIndex(n) THEN "failed" ELSE "open"]
    BY <1>1, <1>5 DEF FlushChunk, c
  <2> DEFINE ready == FlushChunk(st, 1, FALSE)
  <2>9. WritePiece(st, 1, piece) = IF ready.state = "failed" THEN ready ELSE [ready EXCEPT !.buf = @ \o piece]
    BY <1>names, <1>11 DEF WritePiece
  <2> HIDE DEF out2, ready
  <2>10. ready = [buf |-> <<>>, out |-> out2,
                  counter |-> IF AtLastIndex(n) THEN n ELSE Advanced(n),
                  state |-> IF AtLastIndex(n) THEN "failed" ELSE "open"]
    BY <2>2 DEF ready
  <2>3. CASE AtLastIndex(n)
    <3>1. WritePiece(st, 1, piece) = [buf |-> <<>>, out |-> out2, counter |-> n, state |-> "failed"]
      BY <2>3, <2>9, <2>10
    <3> HIDE DEF piece, rest
    <3>2. w' = [stream |-> [buf |-> <<>>, out |-> out2, counter |-> n, state |-> "failed"], left |-> rest]
      BY <1>9, <3>1
    <3>3. ~CanSeal(First)
      <4>1. L > ChunkSize * n + ChunkSize /\ MaxChunkIndex <= n
        BY <1>len, <1>4, <2>0, <2>3 DEF AtLastIndex
      <4>2. Chunks(L) - 1 > n
        <5> HIDE DEF a
        <5> QED BY <1>4, <4>1, TooLong
      <4>3. Chunks(L) \in Nat
        <5> HIDE DEF a
        <5> QED BY <1>4, ChunksCut
      <4> QED BY <1>names, <1>4, <4>1, <4>2, <4>3 DEF CanSeal
    <3>4. CanSeal(First)' = CanSeal(First)
      BY <1>3 DEF CanSeal
    <3>5. w' \in [stream : [buf : Text, out : Seq(Slot), counter : Nat,
                            state : {"open", "closed", "failed"}], left : Text]
      BY <1>4, <1>8, <2>1, <3>2, EmptyText
    <3>6. w'.stream.state = "failed" /\ w'.stream.out = out2
      BY <3>2
    <3> QED BY <1>1, <1>3, <2>1, <3>3, <3>4, <3>5, <3>6 DEF WriterInv
  <2>4. CASE ~AtLastIndex(n)
    <3>1. n + 1 <= MaxChunkIndex /\ Advanced(n) = n + 1
      <4>1. n < MaxChunkIndex
        BY <1>4, <2>4 DEF AtLastIndex
      <4>2. n + 1 <= MaxChunkIndex /\ n + 1 \in 0 .. (MaxChunkIndex + 1) - 1 /\ MaxChunkIndex + 1 \in Nat \ {0}
        BY <1>4, <4>1
      <4> DEFINE M == MaxChunkIndex + 1
      <4>3. M \in Nat \ {0} /\ n + 1 \in 0 .. M - 1
        BY <4>2
      <4> HIDE DEF M
      <4>4. (n + 1) % M = n + 1
        BY <4>3
      <4> QED BY <4>2, <4>4 DEF Advanced, M
    <3>2. WritePiece(st, 1, piece) = [buf |-> <<>> \o piece, out |-> out2, counter |-> n + 1, state |-> "open"]
      BY <2>4, <2>9, <2>10, <3>1
    <3>3. <<>> \o piece = piece
      BY <1>8, ConcatEmpty
    <3> HIDE DEF piece, rest
    <3>4. w' = [stream |-> [buf |-> piece, out |-> out2, counter |-> n + 1, state |-> "open"], left |-> rest]
      BY <1>9, <3>2, <3>3
    <3>5. w' \in [stream : [buf : Text, out : Seq(Slot), counter : Nat,
                            state : {"open", "closed", "failed"}], left : Text]
      BY <1>4, <1>8, <2>1, <3>4
    <3>6. /\ w'.stream.state = "open" /\ w'.stream.out = out2 /\ w'.stream.buf = piece
          /\ w'.stream.counter = n + 1 /\ w'.left = rest
      BY <3>4
    <3>7. /\ ChunkSize * (n + 1) + k + Len(rest) = L /\ k <= ChunkSize /\ k # 0
      BY <1>len, <1>7, <2>0
    <3>8. /\ Len(w'.stream.out) = n + 1 /\ Len(w'.stream.buf) = k
          /\ w'.stream.buf = SubSeq(t, ChunkSize * (n + 1) + 1, ChunkSize * (n + 1) + k)
          /\ w'.left = SubSeq(t, ChunkSize * (n + 1) + k + 1, L)
      BY <1>8, <2>0, <2>1, <3>6
    <3>9. w'.stream.out = Written(n + 1) /\ n + 1 \in Nat
      BY <1>4, <2>1, <3>6
    <3> HIDE DEF a, st
    <3> QED BY <1>names, <1>1, <1>3, <3>1, <3>5, <3>6, <3>7, <3>8, <3>9 DEF WriterInv
  <2> QED BY <2>3, <2>4
<1> QED BY <1>10, <1>11

\* Close seals what is in the buffer as the last chunk.
LEMMA WriterSealClose ==
    ASSUME RecordOK, WriterInv, SealClose
    PROVE  WriterInv'
<1> USE StreamAssumption
<1> DEFINE st == w.stream  n == Len(st.out)  b == Len(st.buf)  t == First  L == Len(t)
           c == Chunk(1, n, TRUE, st.buf)  out2 == Append(st.out, c)  sealed == SealStream(1, t)
<1>1. /\ rpc' = "get" /\ st.state = "open" /\ w.left = <<>> /\ record' = record
      /\ w' = [w EXCEPT !.stream = CloseWriter(st, 1)]
  BY DEF SealClose, source
<1>2. First' = First
  BY <1>1, RecordStays DEF First
<1>3. /\ st \in [buf : Text, out : Seq(Slot), counter : Nat, state : {"open", "closed", "failed"}]
      /\ w.left \in Text /\ st.out \in Seq(Slot) /\ st.buf \in Text
      /\ t \in Text /\ L \in Nat /\ n \in Nat /\ b \in Nat
  BY FirstType DEF WriterInv, Text
<1>4. /\ st.out = Written(n) /\ st.counter = n /\ b <= ChunkSize /\ (b = 0 => n = 0)
      /\ ChunkSize * n + b + Len(w.left) = L /\ st.buf = SubSeq(t, ChunkSize * n + 1, ChunkSize * n + b)
  BY <1>1 DEF WriterInv
<1>5. L = ChunkSize * n + b
  BY <1>1, <1>3, <1>4
<1>6. CloseWriter(st, 1) = [buf |-> <<>>, out |-> out2, counter |-> n, state |-> "closed"]
  BY <1>4 DEF CloseWriter, FlushChunk
<1>7. c \in Slot
  BY <1>3 DEF Chunk, Slot
<1>8. out2 \in Seq(Slot) /\ Len(out2) = n + 1
  <2> HIDE DEF c
  <2> QED BY <1>3, <1>7
<1>9. Chunks(L) = n + 1
  <2> HIDE DEF n, b, L
  <2> QED BY <1>3, <1>4, <1>5, ChunksOf
<1>10. /\ sealed \in Seq(Slot) /\ Len(sealed) = n + 1
       /\ \A i \in 1 .. n + 1 : sealed[i] = Chunk(1, i - 1, i = n + 1, PieceOf(t, i))
  <2>1. 1 \in Nat
    OBVIOUS
  <2> HIDE DEF t
  <2>2. /\ sealed \in Seq(Slot) /\ Len(sealed) = Chunks(Len(t))
        /\ \A i \in 1 .. Chunks(Len(t)) : sealed[i] = Chunk(1, i - 1, i = Chunks(Len(t)), PieceOf(t, i))
    BY <1>3, <2>1, SealedChunk
  <2> HIDE DEF sealed
  <2> QED BY <1>9, <2>2
<1>11. ASSUME NEW i \in 1 .. n + 1 PROVE out2[i] = sealed[i]
  <2>1. CASE i = n + 1
    <3>1. out2[i] = c
      <4> HIDE DEF c
      <4> QED BY <1>3, <2>1
    <3>2. PieceOf(t, i) = st.buf
      <4>1. (n + 1) - 1 = n
        BY <1>3
      <4> QED BY <1>4, <1>5, <1>9, <2>1, <4>1 DEF PieceOf
    <3>3. sealed[i] = Chunk(1, n, TRUE, PieceOf(t, i))
      <4> DEFINE l == i = n + 1
      <4>1. l = TRUE /\ i - 1 = n
        BY <1>3, <2>1
      <4>2. sealed[i] = Chunk(1, i - 1, l, PieceOf(t, i))
        BY <1>10
      <4> HIDE DEF l, sealed
      <4> QED BY <4>1, <4>2
    <3> QED BY <3>1, <3>2, <3>3
  <2>2. CASE i # n + 1
    <3>1. i \in 1 .. n /\ out2[i] = st.out[i]
      <4> HIDE DEF c
      <4> QED BY <1>3, <2>2
    <3>2. st.out[i] = Chunk(1, i - 1, FALSE, SubSeq(t, ChunkSize * (i - 1) + 1, ChunkSize * i))
      BY <1>4, <3>1 DEF Written
    <3>3. PieceOf(t, i) = SubSeq(t, ChunkSize * (i - 1) + 1, ChunkSize * i)
      BY <1>9, <2>2 DEF PieceOf
    <3>4. sealed[i] = Chunk(1, i - 1, FALSE, PieceOf(t, i))
      <4> DEFINE l == i = n + 1
      <4>1. l = FALSE
        BY <2>2
      <4>2. sealed[i] = Chunk(1, i - 1, l, PieceOf(t, i))
        BY <1>10
      <4> HIDE DEF l, sealed
      <4> QED BY <4>1, <4>2
    <3> QED BY <3>1, <3>2, <3>3, <3>4
  <2> QED BY <2>1, <2>2
<1> HIDE DEF sealed, out2
<1>12. out2 = sealed
  BY <1>8, <1>10, <1>11
<1>13. /\ w'.stream = [buf |-> <<>>, out |-> out2, counter |-> n, state |-> "closed"] /\ w'.left = w.left
       /\ w' \in [stream : [buf : Text, out : Seq(Slot), counter : Nat,
                            state : {"open", "closed", "failed"}], left : Text]
  <2> DEFINE s2 == CloseWriter(st, 1)
  <2>1. s2 \in [buf : Text, out : Seq(Slot), counter : Nat, state : {"open", "closed", "failed"}]
    BY <1>3, <1>6, <1>8, EmptyText
  <2>2. w' = [w EXCEPT !.stream = s2]
    BY <1>1
  <2> HIDE DEF s2
  <2>3. w' \in [stream : [buf : Text, out : Seq(Slot), counter : Nat,
                          state : {"open", "closed", "failed"}], left : Text]
        /\ w'.stream = s2 /\ w'.left = w.left
    BY <2>1, <2>2 DEF WriterInv
  <2> QED BY <1>6, <2>3 DEF s2
<1>14. SealStream(1, First)' = SealStream(1, First)
  BY <1>2 DEF SealStream
<1>15. w'.stream.state = "closed" /\ w'.stream.out = SealStream(1, First)'
  BY <1>12, <1>13, <1>14 DEF sealed
<1> QED BY <1>1, <1>13, <1>15 DEF WriterInv

\* A new writer has sealed nothing.
LEMMA InitWriter == Init => WriterInv
<1> SUFFICES ASSUME Init PROVE WriterInv
  OBVIOUS
<1>1. RecordOK /\ First \in Text /\ Len(First) \in Nat
  BY InitialRecord, FirstType
<1>2. /\ w = [stream |-> [buf |-> <<>>, out |-> <<>>, counter |-> 0, state |-> "open"], left |-> First]
      /\ rpc = "seal"
  BY DEF Init, NewWriter, First
<1>3. Written(0) = <<>>
  BY DEF Written
<1>4. SubSeq(First, 1, 0) = <<>> /\ SubSeq(First, 1, Len(First)) = First
  <2> DEFINE t == First
  <2>1. t \in Text /\ 0 \in Nat /\ Len(t) \in Nat /\ 0 <= 0 /\ 0 <= Len(t)
    BY <1>1
  <2> HIDE DEF t
  <2>2. SubSeq(t, 1, 0) = <<>> /\ SubSeq(t, 1, Len(t)) = t
    BY <2>1, JoinPieces
  <2> QED BY <2>2 DEF t
<1>5. w \in [stream : [buf : Text, out : Seq(Slot), counter : Nat,
                       state : {"open", "closed", "failed"}], left : Text]
  <2>1. <<>> \in Text /\ <<>> \in Seq(Slot) /\ 0 \in Nat
    BY EmptyText
  <2> QED BY <1>1, <1>2, <2>1
<1>6. /\ w.stream.out = <<>> /\ w.stream.buf = <<>> /\ w.stream.counter = 0 /\ w.stream.state = "open"
      /\ w.left = First
  BY <1>2
<1>7. Len(w.stream.out) = 0 /\ Len(w.stream.buf) = 0 /\ ChunkSize * 0 = 0 /\ MaxChunkIndex \in Nat /\ ChunkSize \in Nat
  BY <1>6, StreamAssumption
<1>8. /\ ChunkSize * 0 + 0 + Len(w.left) = Len(First) /\ ChunkSize * 0 + 1 = 1
      /\ ChunkSize * 0 + 0 = 0 /\ ChunkSize * 0 + 0 + 1 = 1 /\ 0 <= MaxChunkIndex /\ 0 <= ChunkSize
  BY <1>1, <1>6, <1>7
<1> QED BY <1>2, <1>3, <1>4, <1>5, <1>6, <1>7, <1>8 DEF WriterInv

\* Every step keeps what is known of the writer.
LEMMA NextWriter ==
    ASSUME RecordOK, WriterInv, [Next]_vars
    PROVE  WriterInv'
<1>1. CASE SealWrite \/ SealClose
  BY <1>1, WriterSealWrite, WriterSealClose
<1>2. CASE ~SealWrite /\ ~SealClose
  <2>1. UNCHANGED <<record, w>> /\ (rpc = "seal" => rpc' = "seal")
    BY <1>2 DEF Next, vars, ReaderStep, TargetStep, TimerFires, Faults,
             BadObjectName, GetReader, GetReaderFails, OpenSegmentStream, ReadFirstChunk, ReadNextChunk,
             OpenChunk, WriteBroken, WriteDone, EndSegment, CheckHash, ReadError, Reserve, CreateTemp,
             Copy, CopyEnd, Rename, WriteReturned, Finish, TooLarge, ConnectionLost, Stall, Interrupt,
             CloseFails, TargetFails, source, Reading
  <2>2. First' = First /\ \A m : Written(m)' = Written(m)
    BY <2>1, RecordStays DEF First, Written
  <2>3. CanSeal(First)' = CanSeal(First) /\ SealStream(1, First)' = SealStream(1, First)
    BY <2>2 DEF CanSeal, SealStream
  <2> QED BY <2>1, <2>2, <2>3 DEF WriterInv
<1> QED BY <1>1, <1>2

(***************************************************************************)
(* The streaming writer seals exactly what SealStream seals, however the   *)
(* value is cut into writes; it fails only on a value the chunk counter    *)
(* cannot number; and no two chunks are sealed under one nonce             *)
(* (crypto/stream.go streamWriter Write, Close, advanceChunk).             *)
(***************************************************************************)
THEOREM WriterSealsAlike == Spec => []WriterAgrees
<1>1. Init => WriterInv
  BY InitWriter
<1>2. ReaderInv /\ WriterInv /\ [Next]_vars => WriterInv'
  BY NextWriter DEF ReaderInv
<1>3. ReaderInv /\ WriterInv => WriterAgrees
  <2> SUFFICES ASSUME ReaderInv, WriterInv PROVE WriterAgrees
    OBVIOUS
  <2> DEFINE out == w.stream.out  n == Len(out)
  <2>0. RecordOK /\ out \in Seq(Slot) /\ n \in Nat /\ DOMAIN out = 1 .. n
        /\ w.stream.state \in {"open", "closed", "failed"}
    BY DEF WriterInv, ReaderInv
  <2>1. w.stream.state = "closed" => out = SealStream(1, First)
    BY DEF WriterInv
  <2>2. w.stream.state = "failed" => ~CanSeal(SegText(1))
    <3> SUFFICES ASSUME ~CanSeal(First) PROVE First = SegText(1)
      BY DEF WriterInv
    <3>1. CanSeal(<<>>)
      <4>1. Chunks(0) = 1
        BY StreamAssumption DEF Chunks
      <4>2. Len(<<>>) = 0 /\ 1 - 1 <= MaxChunkIndex
        BY StreamAssumption
      <4> QED BY <4>1, <4>2 DEF CanSeal
    <3> QED BY <3>1 DEF First
  <2>3. ASSUME NEW i \in 1 .. n PROVE out[i].counter = i - 1
    <3>1. CASE w.stream.state = "closed"
      <4> DEFINE t == First  m == Chunks(Len(t))
      <4>1. t \in Text /\ 1 \in Nat
        BY <2>0, FirstType
      <4> HIDE DEF t
      <4>2. /\ Len(SealStream(1, t)) = m
            /\ \A q \in 1 .. m : SealStream(1, t)[q] = Chunk(1, q - 1, q = m, PieceOf(t, q))
        BY <4>1, SealedChunk
      <4>3. out = SealStream(1, t)
        BY <2>1, <3>1 DEF t
      <4>4. n = m
        BY <4>2, <4>3
      <4> HIDE DEF m, n
      <4>5. out[i] = Chunk(1, i - 1, i = m, PieceOf(t, i))
        BY <4>2, <4>3, <4>4
      <4> QED BY <4>5 DEF Chunk
    <3>2. CASE w.stream.state # "closed"
      <4>1. out = Written(n)
        BY <2>0, <3>2 DEF WriterInv
      <4> HIDE DEF out, n
      <4> QED BY <4>1 DEF Written, Chunk
    <3> QED BY <3>1, <3>2
  <2>4. \A i, j \in DOMAIN out : out[i].counter = out[j].counter => i = j
    <3> SUFFICES ASSUME NEW i \in 1 .. n, NEW j \in 1 .. n, out[i].counter = out[j].counter
                 PROVE  i = j
      BY <2>0
    <3>1. i - 1 = j - 1
      BY <2>3
    <3> QED BY <2>0, <3>1
  <2> QED BY <2>1, <2>2, <2>4 DEF WriterAgrees, First
<1> QED BY <1>1, <1>2, <1>3, ReaderIsInvariant, PTL DEF Spec
=============================================================================
