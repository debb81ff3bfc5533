------------------------------- MODULE Stream -------------------------------
(***************************************************************************)
(* The chunk stream (internal/crypto/stream.go): a value is cut into       *)
(* chunks of ChunkSize bytes, each sealed under the stream's key and a     *)
(* nonce made of the chunk's index and the last-chunk flag.                *)
(*                                                                         *)
(* A payload is the sequence of slots that a reader taking ChunkSize +     *)
(* TagSize bytes at a time gets: every slot but the last is of full size.  *)
(* A slot is a sealed chunk, other bytes ("junk"), or a tail too short to  *)
(* hold a tag ("stub").  A chunk opens only under the key and nonce it was *)
(* sealed with, which is what AES-256-GCM provides.                        *)
(***************************************************************************)
EXTENDS Naturals, Sequences, SequencesExt

CONSTANTS
    ChunkSize,       \* spec.ChunkSize
    TagSize,         \* spec.TagSize
    MaxChunkIndex    \* streamMaxChunkIndex

ASSUME StreamAssumption ==
    /\ ChunkSize \in Nat \ {0}
    /\ TagSize \in Nat \ {0, 1}
    /\ MaxChunkIndex \in Nat

Chunk(key, counter, last, text) ==
    [kind |-> "sealed", key |-> key, counter |-> counter, last |-> last, text |-> text]

Junk(n) == [kind |-> "junk", key |-> 0, counter |-> 0, last |-> FALSE,
            text |-> [i \in 1 .. n |-> <<0, i>>]]

Stub == [kind |-> "stub", key |-> 0, counter |-> 0, last |-> FALSE, text |-> <<>>]

SizeOf(slot) == IF slot.kind = "stub" THEN 1 ELSE Len(slot.text) + TagSize

FullSlot(slot) == SizeOf(slot) = ChunkSize + TagSize

SizeOfAll(slots) == FoldLeft(LAMBDA n, s : n + SizeOf(s), 0, slots)

TextOf(slots) == FlattenSeq([i \in DOMAIN slots |-> slots[i].text])

\* aead.Open of a slot under the nonce of the given index and flag.
\* Mutant of Opens: the nonce does not carry the last-chunk flag.
OpensAnyFlag(slot, key, counter, last) ==
    slot.kind = "sealed" /\ slot.key = key /\ slot.counter = counter

Opens(slot, key, counter, last) ==
    slot.kind = "sealed" /\ slot.key = key /\ slot.counter = counter /\ slot.last = last

AtLastIndex(counter) == counter >= MaxChunkIndex

\* The counter after one chunk, where advanceChunk returns one.
Advanced(counter) == (counter + 1) % (MaxChunkIndex + 1)

\* How many chunks a plaintext of n bytes takes; an empty one takes one.
Chunks(n) == n \div ChunkSize + (IF n % ChunkSize # 0 \/ n = 0 THEN 1 ELSE 0)

(***************************************************************************)
(* SealStream and OpenStream, over the whole value and the whole payload.  *)
(***************************************************************************)
CanSeal(text) == Chunks(Len(text)) - 1 <= MaxChunkIndex

SealStream(key, text) ==
    LET m == Chunks(Len(text))
    IN  [i \in 1 .. m |-> Chunk(key, i - 1, i = m,
            SubSeq(text, (i - 1) * ChunkSize + 1, IF i = m THEN Len(text) ELSE i * ChunkSize))]

OpenStream(key, slots) ==
    /\ slots # <<>>
    /\ \A i \in DOMAIN slots : Opens(slots[i], key, i - 1, i = Len(slots))
    /\ Len(slots) - 1 <= MaxChunkIndex

(***************************************************************************)
(* The streaming writer that SealStreamTo returns.  The bytes of a Write   *)
(* are taken up to a chunk at a time, so one turn of its loop takes a      *)
(* piece that fits in the buffer; a full buffer is sealed only when more   *)
(* bytes follow, so that Close always has the last chunk to seal.          *)
(***************************************************************************)
NewWriter == [buf |-> <<>>, out |-> <<>>, counter |-> 0, state |-> "open"]

FlushChunk(w, key, last) ==
    [buf |-> <<>>,
     out |-> Append(w.out, Chunk(key, w.counter, last, w.buf)),
     counter |-> IF last \/ AtLastIndex(w.counter) THEN w.counter ELSE Advanced(w.counter),
     state |-> CASE last -> "closed"
                 [] ~last /\ AtLastIndex(w.counter) -> "failed"
                 [] OTHER -> w.state]

\* Mutant of WritePiece: a buffer is sealed as soon as it is full.
WritePieceEager(w, key, piece) ==
    LET full == [w EXCEPT !.buf = @ \o piece]
    IN  IF Len(full.buf) = ChunkSize THEN FlushChunk(full, key, FALSE) ELSE full

WritePiece(w, key, piece) ==
    LET ready == IF Len(w.buf) = ChunkSize THEN FlushChunk(w, key, FALSE) ELSE w
    IN  IF ready.state = "failed" THEN ready ELSE [ready EXCEPT !.buf = @ \o piece]

CloseWriter(w, key) == FlushChunk(w, key, TRUE)
=============================================================================
