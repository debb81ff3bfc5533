---------------------------- MODULE RecordStream ----------------------------
(***************************************************************************)
(* One large record on its way from the store to the target                *)
(* (internal/restore applyStream, internal/format RestoreRecordTo,         *)
(* internal/crypto OpenStreamTo, internal/source GetReader and its idle    *)
(* watchdog, WriteStream of the directory and discard targets).            *)
(*                                                                         *)
(* Three threads of control meet here.  The reader goroutine fetches each  *)
(* segment, opens it chunk by chunk one chunk behind what it has read, and *)
(* writes the plaintext into an unbuffered pipe; it learns only after the  *)
(* last byte whether the hash agrees.  The target copies from the pipe     *)
(* into a temporary file, and may give up at any time.  The watchdog's     *)
(* timer cancels the request when it runs out, whoever is being waited     *)
(* for.  Before all that the value was sealed, which the model does        *)
(* through the streaming writer.                                           *)
(***************************************************************************)
EXTENDS Stream

CONSTANTS
    Lengths,           \* the records: sequences of segment lengths
    MaxSegmentChunks,  \* maxSegmentChunks
    ObjectLimit,       \* the store's per-object ceiling, less header and nonce
    Routes,            \* pairs of a kind of store and a kind of target
    MaxSlots           \* bound: full slots of an altered object

ASSUME RecordStreamAssumption ==
    /\ Lengths \subseteq Seq(Nat)
    /\ MaxSegmentChunks \in Nat \ {0} /\ MaxSegmentChunks <= MaxChunkIndex + 1
    /\ ObjectLimit \in Nat /\ MaxSlots \in Nat
    /\ Routes \subseteq {"http", "dir"} \X {"file", "discard"}

VARIABLES
    record,   \* [lens, declared, defect]: the signed record
    store,    \* which kind of store serves it
    sink,     \* which kind of target takes it
    w,        \* the writer sealing the first segment, and the bytes left to it
    rpc,      \* where the reader goroutine stands
    seg,      \* the segment it is at
    objs,     \* the objects the store has served, one per segment read
    at,       \* slots taken of the current one
    cur,      \* the slot to open next
    more,     \* another slot was read after it
    counter,  \* the chunk counter
    sum,      \* the plaintext hashed so far, all segments
    got,      \* plaintext bytes of this segment (countingWriter)
    body,     \* [flows, interrupted, timedOut, armed]: the response body
    offer,    \* [on, text]: what the reader is blocked writing to the pipe
    pipe,     \* [w, r]: the write end closed, the read end closed
    rerr,     \* what RestoreRecordTo returned
    tpc,      \* where WriteStream stands
    dest,     \* [is, text]: what is at the destination path
    temp,     \* [is, text]: the temporary file
    werr,     \* what WriteStream returned
    result,   \* what applyStream returned
    fault     \* [transport, waited, target]: history, see Disturbed and BlameIsRight

source == <<record, store, sink>>
reader == <<seg, objs, at, cur, more, counter, sum, got>>
target == <<tpc, dest, temp, werr>>
vars == <<source, w, rpc, reader, body, offer, pipe, rerr, target, result, fault>>

Segments == DOMAIN record.lens
SegText(s) == [i \in 1 .. record.lens[s] |-> <<s, i>>]
Value == FlattenSeq([s \in Segments |-> SegText(s)])

(***************************************************************************)
(* Return values: an exit code's name, and whether the error wraps the     *)
(* errStreamTeardown sentinel.                                             *)
(***************************************************************************)
NotYet == [code |-> "none", teardown |-> FALSE]
Nil == [code |-> "ok", teardown |-> FALSE]
Err(code) == [code |-> code, teardown |-> FALSE]
Teardown == [code |-> "unverified", teardown |-> TRUE]
IsErr(e) == e \notin {NotYet, Nil}

(***************************************************************************)
(* What a store may serve for a segment: any payload put together from the *)
(* chunks of the record's segments and other bytes, or an object whose     *)
(* header or nonce is broken.  A record that is refused whatever is served *)
(* is served intact.                                                       *)
(***************************************************************************)
Genuine == UNION {ToSet(SealStream(s, SegText(s))) : s \in Segments}
FullSlots == {c \in Genuine : FullSlot(c)} \cup {Junk(ChunkSize)}
TailSlots == {c \in Genuine : ~FullSlot(c)} \cup {Junk(0), Stub}

Payloads ==
    LET heads == UNION {[1 .. k -> FullSlots] : k \in 0 .. MaxSlots}
    IN  heads \cup {Append(h, t) : h \in heads, t \in TailSlots}

Intact(s) == [head |-> "whole", slots |-> SealStream(s, SegText(s))]
Objects == {[head |-> "whole", slots |-> p] : p \in Payloads}
               \cup {[head |-> "broken", slots |-> <<>>]}

Obj == objs[Len(objs)]

(***************************************************************************)
(* The signed record: as the engine writes it, or with one defect, an      *)
(* object name that is not a segment's, a salt that yields no key, a wrong *)
(* hash, or a wrong chunk range in its first segment.                      *)
(***************************************************************************)
Records(lens) ==
    LET right == [s \in DOMAIN lens |-> Chunks(lens[s])]
    IN  [lens : {lens}, declared : {right}, defect : {"none", "name", "key", "hash"}]
            \cup {[lens |-> lens, declared |-> [right EXCEPT ![1] = n], defect |-> "range"] :
                     n \in {m \in 0 .. MaxSegmentChunks + 1 : lens # <<>> /\ m # right[1]}}

Init ==
    /\ record \in UNION {Records(lens) : lens \in Lengths}
    /\ \E route \in Routes : store = route[1] /\ sink = route[2]
    /\ w = [stream |-> NewWriter,
            left |-> IF record.lens = <<>> THEN <<>> ELSE SegText(1)]
    /\ rpc = "seal" /\ seg = 1 /\ objs = <<>> /\ at = 0 /\ cur = Stub /\ more = FALSE
    /\ counter = 0 /\ sum = <<>> /\ got = 0
    /\ body = [flows |-> TRUE, interrupted |-> FALSE, timedOut |-> FALSE, armed |-> FALSE]
    /\ offer = [on |-> FALSE, text |-> <<>>]
    /\ pipe = [w |-> NotYet, r |-> FALSE]
    /\ rerr = NotYet /\ tpc = "idle" /\ werr = NotYet /\ result = NotYet
    /\ dest \in {[is |-> i, text |-> <<>>] :
                   i \in IF sink = "file" THEN {"free", "taken"} ELSE {"free"}}
    /\ temp = [is |-> "none", text |-> <<>>]
    /\ fault = [transport |-> FALSE, waited |-> FALSE, target |-> FALSE]

(***************************************************************************)
(* Sealing the first segment: Write in pieces of any size, then Close.     *)
(***************************************************************************)
SealWrite ==
    /\ rpc = "seal" /\ w.stream.state = "open" /\ w.left # <<>>
    /\ \E n \in 1 .. ChunkSize :
          LET room == IF Len(w.stream.buf) = ChunkSize THEN ChunkSize
                      ELSE ChunkSize - Len(w.stream.buf)
          IN  /\ n <= room /\ n <= Len(w.left)
              /\ w' = [stream |-> WritePiece(w.stream, 1, SubSeq(w.left, 1, n)),
                       left |-> SubSeq(w.left, n + 1, Len(w.left))]
    /\ UNCHANGED <<source, rpc, reader, body, offer, pipe, rerr, target, result, fault>>

SealClose ==
    /\ rpc = "seal" /\ w.stream.state = "open" /\ w.left = <<>>
    /\ w' = [w EXCEPT !.stream = CloseWriter(@, 1)]
    /\ rpc' = "get" /\ tpc' = IF sink = "file" THEN "reserve" ELSE "copy"
    /\ UNCHANGED <<source, reader, body, offer, pipe, rerr, dest, temp, werr, result, fault>>

-----------------------------------------------------------------------------
(***************************************************************************)
(* The reader goroutine: RestoreRecordTo, then CloseWithError on the write *)
(* end of the pipe.                                                        *)
(***************************************************************************)
Return(e) ==
    /\ rerr' = e /\ pipe' = [pipe EXCEPT !.w = e] /\ rpc' = "done"
    /\ offer' = [on |-> FALSE, text |-> <<>>]
    /\ body' = [body EXCEPT !.armed = FALSE]

BadObjectName ==
    /\ rpc = "get" /\ seg \in Segments /\ record.defect = "name"
    /\ Return(Err("uncoded"))
    /\ UNCHANGED <<source, w, reader, target, result, fault>>

\* GetReader answers, and the watchdog's timer starts.
GetReader ==
    /\ rpc = "get" /\ seg \in Segments /\ record.defect # "name"
    /\ \E o \in Objects \cup {Intact(seg)} :
          /\ record.defect \in {"key", "hash"} => o = Intact(seg)
          /\ objs' = Append(objs, o)
    /\ store = "http" => ~body.interrupted
    /\ body' = [body EXCEPT !.armed = store = "http", !.timedOut = FALSE]
    /\ rpc' = "head" /\ at' = 0 /\ counter' = 0 /\ got' = 0
    /\ UNCHANGED <<source, w, seg, cur, more, sum, offer, pipe, rerr, target, result, fault>>

\* GetReader fails: no answer or a refusal (http), or a local error.
GetReaderFails ==
    /\ rpc = "get" /\ seg \in Segments /\ record.defect # "name"
    /\ Return(Err(IF store = "http" THEN "unreachable" ELSE "unverified"))
    /\ fault' = [fault EXCEPT !.transport = TRUE]
    /\ UNCHANGED <<source, w, reader, target, result>>

\* A length announced above the ceiling is refused before a byte is read.
TooLarge ==
    /\ rpc = "head" /\ SizeOfAll(Obj.slots) > ObjectLimit
    /\ Return(Err("unverified"))
    /\ UNCHANGED <<source, w, reader, target, result, fault>>

(***************************************************************************)
(* One read of the body.  Bytes taken count against the ceiling, and an    *)
(* error that comes with enough bytes to fill the buffer is dropped: the   *)
(* next read reports it.  Once the timer has run out the request is        *)
(* cancelled; bytes already received may still be handed over, but the end *)
(* of the object is then reported as a stall.  A read of a body that       *)
(* delivers nothing returns only when it is cancelled.                     *)
(***************************************************************************)
Taken(n) == SizeOfAll(SubSeq(Obj.slots, 1, n))

SlotArrives ==
    /\ at < Len(Obj.slots) /\ body.flows
    /\ Taken(at) <= ObjectLimit
    /\ ~FullSlot(Obj.slots[at + 1]) => Taken(at + 1) <= ObjectLimit /\ ~body.timedOut

EndArrives == /\ at = Len(Obj.slots) /\ body.flows
              /\ Taken(at) <= ObjectLimit /\ ~body.timedOut

ReadFails ==
    \/ store = "http" /\ (body.interrupted \/ body.timedOut)
    \/ at < Len(Obj.slots) /\ Taken(at + 1) > ObjectLimit
    \/ Taken(at) > ObjectLimit

Reading == rpc \in {"head", "first", "next"}

ReadError ==
    /\ Reading /\ ReadFails
    /\ Return(Err("unverified"))
    /\ UNCHANGED <<source, w, reader, target, result, fault>>

\* The connection breaks or the disk fails.
ConnectionLost ==
    /\ Reading
    /\ Return(Err("unverified"))
    /\ fault' = [fault EXCEPT !.transport = TRUE]
    /\ UNCHANGED <<source, w, reader, target, result>>

\* The store stops sending without closing the connection.
Stall ==
    /\ Reading /\ store = "http" /\ body.flows
    /\ body' = [body EXCEPT !.flows = FALSE]
    /\ fault' = [fault EXCEPT !.transport = TRUE]
    /\ UNCHANGED <<source, w, rpc, reader, offer, pipe, rerr, target, result>>

\* The idle timer runs out: during a read that brings nothing, or between two reads,
\* while the reader waits for the target to empty the pipe.  Only the first is the
\* store's doing.
TimerFires ==
    /\ body.armed /\ ~body.timedOut
    /\ body' = [body EXCEPT !.timedOut = TRUE]
    /\ fault' = [fault EXCEPT !.transport = @ \/ Reading, !.waited = @ \/ ~Reading]
    /\ UNCHANGED <<source, w, rpc, reader, offer, pipe, rerr, target, result>>

\* The operator interrupts: the reader's context is cancelled.
Interrupt ==
    /\ rpc \notin {"seal", "done"} /\ ~body.interrupted
    /\ body' = [body EXCEPT !.interrupted = TRUE]
    /\ fault' = [fault EXCEPT !.transport = TRUE]
    /\ UNCHANGED <<source, w, rpc, reader, offer, pipe, rerr, target, result>>

(***************************************************************************)
(* openSegmentStream: the chunk range, the file key, the container header  *)
(* and the payload nonce.                                                  *)
(***************************************************************************)
ChunkBound(declared) == declared >= 1 /\ declared <= MaxSegmentChunks

OpenSegmentStream ==
    /\ rpc = "head"
    /\ IF ~ChunkBound(record.declared[seg]) \/ record.defect = "key"
       THEN Return(Err("unverified"))
       ELSE /\ body.flows
            /\ IF Obj.head = "broken" THEN Return(Err("unverified"))
               ELSE rpc' = "first" /\ UNCHANGED <<body, offer, pipe, rerr>>
    /\ UNCHANGED <<source, w, reader, target, result, fault>>

ReadFirstChunk ==
    /\ rpc = "first"
    /\ \/ /\ SlotArrives /\ Obj.slots[at + 1].kind # "stub"
          /\ cur' = Obj.slots[at + 1] /\ at' = at + 1 /\ rpc' = "next"
          /\ UNCHANGED <<body, offer, pipe, rerr>>
       \/ /\ EndArrives \/ (SlotArrives /\ Obj.slots[at + 1].kind = "stub")
          /\ Return(Err("unverified"))
          /\ UNCHANGED <<cur, at>>
    /\ UNCHANGED <<source, w, seg, objs, more, counter, sum, got, target, result, fault>>

\* The look-ahead: whether cur is the last chunk is whether anything follows it.
ReadNextChunk ==
    /\ rpc = "next"
    /\ \/ SlotArrives /\ more' = TRUE /\ at' = at + 1
       \/ EndArrives /\ more' = FALSE /\ UNCHANGED at
    /\ rpc' = "open"
    /\ UNCHANGED <<source, w, seg, objs, cur, counter, sum, got, body, offer, pipe, rerr,
                   target, result, fault>>

\* The bound, then the tag; the plaintext is then offered to the pipe.
OpenChunk ==
    /\ rpc = "open"
    /\ IF counter < record.declared[seg] /\ Opens(cur, seg, counter, ~more)
       THEN /\ offer' = [on |-> TRUE, text |-> cur.text]
            /\ rpc' = "write" /\ UNCHANGED <<body, pipe, rerr>>
       ELSE Return(Err("unverified"))
    /\ UNCHANGED <<source, w, reader, target, result, fault>>

\* The pipe's reader has gone: the write returns the sentinel it closed with.
WriteBroken ==
    /\ rpc = "write" /\ offer.on /\ pipe.r
    /\ Return(Teardown)
    /\ UNCHANGED <<source, w, reader, target, result, fault>>

\* The whole chunk was taken; it is hashed, and the next slot becomes current.
WriteDone ==
    /\ rpc = "write" /\ ~offer.on
    /\ sum' = sum \o cur.text /\ got' = got + Len(cur.text)
    /\ IF ~more THEN rpc' = "end" /\ UNCHANGED <<cur, counter, body, offer, pipe, rerr>>
       ELSE IF AtLastIndex(counter) \/ Obj.slots[at].kind = "stub"
       THEN Return(Err("unverified")) /\ UNCHANGED <<cur, counter>>
       ELSE /\ counter' = Advanced(counter) /\ cur' = Obj.slots[at] /\ rpc' = "next"
            /\ UNCHANGED <<body, offer, pipe, rerr>>
    /\ UNCHANGED <<source, w, seg, objs, at, more, target, result, fault>>

\* Mutant of EndsAtBound: a segment may end before its declared chunk count.
EndsBelowBound(n, declared) == Chunks(n) <= declared

EndsAtBound(n, declared) == Chunks(n) = declared

\* The stream ended: it must have had the declared number of chunks.
EndSegment ==
    /\ rpc = "end"
    /\ IF EndsAtBound(got, record.declared[seg])
       THEN /\ seg' = seg + 1 /\ rpc' = "get" /\ body' = [body EXCEPT !.armed = FALSE]
            /\ UNCHANGED <<offer, pipe, rerr>>
       ELSE Return(Err("unverified")) /\ UNCHANGED seg
    /\ UNCHANGED <<source, w, objs, at, cur, more, counter, sum, got, target, result, fault>>

\* Closing the body reports an error of its own.
CloseFails ==
    /\ rpc = "end" /\ EndsAtBound(got, record.declared[seg])
    /\ Return(Err("uncoded"))
    /\ fault' = [fault EXCEPT !.transport = TRUE]
    /\ UNCHANGED <<source, w, reader, target, result>>

HashAgrees(text) == record.defect # "hash" /\ text = Value

CheckHash ==
    /\ rpc = "get" /\ seg \notin Segments
    /\ Return(IF HashAgrees(sum) THEN Nil ELSE Err("plaintext"))
    /\ UNCHANGED <<source, w, reader, target, result, fault>>

-----------------------------------------------------------------------------
(***************************************************************************)
(* The target: DirTarget.WriteStream reserves the path with an exclusive   *)
(* create, copies into a temporary file and renames it over the reserved   *)
(* path; DiscardTarget.WriteStream folds the digest after a clean copy.    *)
(***************************************************************************)
Empty(is) == [is |-> is, text |-> <<>>]

GiveUpWrite(e) ==
    /\ tpc' = "returned" /\ werr' = e /\ temp' = Empty("none")
    /\ dest' = IF dest.is = "reserved" THEN Empty("free") ELSE dest

Reserve ==
    /\ tpc = "reserve"
    /\ IF dest.is = "free"
       THEN dest' = Empty("reserved") /\ tpc' = "temp" /\ UNCHANGED <<temp, werr>>
       ELSE GiveUpWrite(Err("write"))
    /\ UNCHANGED <<source, w, rpc, reader, body, offer, pipe, rerr, result, fault>>

CreateTemp ==
    /\ tpc = "temp"
    /\ temp' = Empty("file") /\ tpc' = "copy"
    /\ UNCHANGED <<source, w, rpc, reader, body, offer, pipe, rerr, dest, werr, result, fault>>

\* Any step of the target fails: no directory, no space, no rename.
TargetFails ==
    /\ \/ tpc \in {"reserve", "temp", "rename"}
       \/ tpc = "copy" /\ sink = "file"
    /\ GiveUpWrite(Err("write"))
    /\ fault' = [fault EXCEPT !.target = TRUE]
    /\ UNCHANGED <<source, w, rpc, reader, body, offer, pipe, rerr, result>>

\* io.Copy takes some of what is offered; the writer waits until all is taken.
Copy ==
    /\ tpc = "copy" /\ offer.on
    /\ \E n \in 0 .. Len(offer.text) :
          /\ n = 0 => offer.text = <<>>
          /\ temp' = [temp EXCEPT !.text = @ \o SubSeq(offer.text, 1, n)]
          /\ offer' = [on |-> n < Len(offer.text),
                       text |-> SubSeq(offer.text, n + 1, Len(offer.text))]
    /\ UNCHANGED <<source, w, rpc, reader, body, pipe, rerr, tpc, dest, werr, result, fault>>

\* Mutant of CopyEnds: the end of the pipe is clean whatever closed it.
CopyEndsClean(e) == TRUE

CopyEnds(e) == e = Nil

\* The write end was closed: with nil the copy is complete, otherwise it failed.
CopyEnd ==
    /\ tpc = "copy" /\ pipe.w # NotYet
    /\ IF ~CopyEnds(pipe.w) THEN GiveUpWrite(pipe.w)
       ELSE IF sink = "file" THEN tpc' = "rename" /\ UNCHANGED <<dest, temp, werr>>
       ELSE /\ dest' = [is |-> "value", text |-> temp.text]
            /\ tpc' = "returned" /\ werr' = Nil /\ UNCHANGED temp
    /\ UNCHANGED <<source, w, rpc, reader, body, offer, pipe, rerr, result, fault>>

Rename ==
    /\ tpc = "rename"
    /\ dest' = [is |-> "value", text |-> temp.text] /\ temp' = Empty("none")
    /\ tpc' = "returned" /\ werr' = Nil
    /\ UNCHANGED <<source, w, rpc, reader, body, offer, pipe, rerr, result, fault>>

-----------------------------------------------------------------------------
(***************************************************************************)
(* applyStream: when WriteStream has returned, the read end is closed with *)
(* the sentinel, the goroutine's result awaited, and the two results       *)
(* weighed.                                                                *)
(***************************************************************************)
\* Mutant of CloseReadEnd: the pipe is left open when the target gives up.
ReadEndLeftOpen == pipe' = pipe

CloseReadEnd == pipe' = [pipe EXCEPT !.r = TRUE]

WriteReturned ==
    /\ tpc = "returned" /\ CloseReadEnd /\ tpc' = "await"
    /\ UNCHANGED <<source, w, rpc, reader, body, offer, rerr, dest, temp, werr, result, fault>>

\* Mutant of Weigh: the induced teardown counts as the reader's verdict.
WeighSentinel(re, we) == IF IsErr(re) THEN re ELSE we

Weigh(re, we) == IF IsErr(re) /\ ~re.teardown THEN re ELSE we

Finish ==
    /\ tpc = "await" /\ rerr # NotYet
    /\ result' = Weigh(rerr, werr) /\ tpc' = "finished"
    /\ UNCHANGED <<source, w, rpc, reader, body, offer, pipe, rerr, dest, temp, werr, fault>>

-----------------------------------------------------------------------------
ReaderStep ==
    \/ BadObjectName \/ GetReader \/ GetReaderFails \/ OpenSegmentStream \/ ReadFirstChunk \/ ReadNextChunk
    \/ OpenChunk \/ WriteBroken \/ WriteDone \/ EndSegment \/ CheckHash \/ ReadError
TargetStep == Reserve \/ CreateTemp \/ Copy \/ CopyEnd \/ Rename \/ WriteReturned \/ Finish
Faults == TooLarge \/ ConnectionLost \/ Stall \/ Interrupt \/ CloseFails
              \/ TargetFails

Next == SealWrite \/ SealClose \/ ReaderStep \/ TargetStep \/ TimerFires \/ Faults

(***************************************************************************)
(* Fairness: the program's own steps are taken when they can be, and the   *)
(* timer of a read that never returns runs out.  Nothing obliges the store *)
(* to send a byte.                                                         *)
(***************************************************************************)
Fairness == /\ WF_vars(SealWrite \/ SealClose)
            /\ WF_vars(ReaderStep) /\ WF_vars(TargetStep) /\ WF_vars(TimerFires)

Spec == Init /\ [][Next]_vars /\ Fairness

-----------------------------------------------------------------------------
(***************************************************************************)
(* The streaming writer seals exactly what SealStream seals, however the   *)
(* value is cut into writes, and never seals two chunks under one nonce:   *)
(* the last chunk is sealed by Close alone, and the counter is not wrapped *)
(* (crypto/stream.go streamWriter, advanceChunk).                          *)
(***************************************************************************)
WriterAgrees ==
    LET out == w.stream.out
    IN  /\ w.stream.state = "closed" =>
              out = SealStream(1, IF record.lens = <<>> THEN <<>> ELSE SegText(1))
        /\ w.stream.state = "failed" => ~CanSeal(SegText(1))
        /\ \A i, j \in DOMAIN out :
              out[i].counter = out[j].counter /\ out[i].last = out[j].last => i = j

(***************************************************************************)
(* A segment the reader has finished with was served exactly as it was     *)
(* sealed: nothing cut off, added, repeated, reordered or taken from       *)
(* another segment, in particular at the edges (an empty segment, one of   *)
(* whole chunks only), although the reader looks only one chunk ahead and  *)
(* drops errors that come with a full buffer (OpenStreamTo, readChunk).    *)
(***************************************************************************)
OnlyWhatWasSealed ==
    \A s \in Segments : s < seg => objs[s] = Intact(s)

\* What RestoreRecord, which holds each object whole, returns for the same objects.
BufferedSegment(s) ==
    LET o == objs[s] d == record.declared[s]
    IN  /\ SizeOfAll(o.slots) <= ObjectLimit
        /\ ChunkBound(d) /\ record.defect # "key" /\ o.head = "whole"
        /\ OpenStream(s, o.slots) /\ Len(o.slots) <= d
        /\ Chunks(Len(TextOf(o.slots))) = d

\* What the objects served so far are put together to, and the ceiling on it, which
\* restoreRecord checks after each segment.  The buffer only grows, so the ceiling is
\* passed after some segment exactly when it is passed after the last one.
Reassembled == TextOf(FlattenSeq([s \in DOMAIN objs |-> objs[s].slots]))
MaxDecompressedBytes == MaxSegmentChunks * ChunkSize
OverCeiling == Len(Reassembled) > MaxDecompressedBytes

\* restoreRecord, over saying whether its ceiling is passed.
RestoreRecord(over) ==
    IF record.defect = "name" /\ record.lens # <<>> THEN Err("uncoded")
    ELSE IF (\E s \in DOMAIN objs : ~BufferedSegment(s)) \/ over THEN Err("unverified")
    ELSE IF Len(objs) = Len(record.lens) /\ ~HashAgrees(Reassembled) THEN Err("plaintext")
    ELSE Nil

Buffered == RestoreRecord(OverCeiling)

\* RestoreRecordTo has returned a verdict of its own: the target stayed, nothing broke
\* the transfer and the timer did not run out.
Disturbed == fault.transport \/ fault.waited
Judged == rerr # NotYet /\ ~rerr.teardown /\ ~Disturbed

(***************************************************************************)
(* The streamed path and the buffered one return the same verdict on the   *)
(* same objects, but for the reassembly ceiling, which only the buffered   *)
(* one has: on a record within it they agree, and on any other the         *)
(* streamed path returns what the buffered one would without it            *)
(* (format/restore.go RestoreRecordTo and restoreRecord).                  *)
(***************************************************************************)
BufferedAgrees ==
    Judged => /\ ~OverCeiling => rerr = Buffered
              /\ rerr = RestoreRecord(FALSE)

(***************************************************************************)
(* The record's failure names its cause (restore.go applyStream): a hash   *)
(* mismatch, an unreachable segment or an error without a code only when   *)
(* the content was at fault or the transfer was broken from outside (the   *)
(* store, the network, an interrupt); unverified also when the timer ran   *)
(* out over a slow target; the target's error only when the target failed. *)
(* An honest store within reach and a willing, prompt target succeed.      *)
(***************************************************************************)
Honest == /\ record.defect = "none"
          /\ \A s \in DOMAIN objs : /\ objs[s] = Intact(s)
                                    /\ ChunkBound(record.declared[s])
                                    /\ SizeOfAll(objs[s].slots) <= ObjectLimit

BlameIsRight ==
    /\ result.code \in {"plaintext", "unreachable", "uncoded"} => ~Honest \/ fault.transport
    /\ result.code = "unverified" => ~Honest \/ Disturbed
    /\ result.code = "write" => fault.target \/ dest.is = "taken"

(***************************************************************************)
(* Restoring by streaming implements restoring atomically, the reserved    *)
(* path and the temporary file notwithstanding.                            *)
(***************************************************************************)
Atomic == INSTANCE AtomicRecord WITH
    place <- IF dest.is = "reserved" THEN "free" ELSE dest.is,
    text <- dest.text,
    expected <- IF record.defect = "hash" THEN <<<<0, 0>>>> ELSE Value,
    outcome <- CASE result = NotYet -> "running" [] result = Nil -> "ok" [] OTHER -> "failed"

RestoresAtomically == Atomic!Spec

(***************************************************************************)
(* A streamed record always comes to an end: a body that delivers nothing  *)
(* is cut off by the watchdog, and a target that gives up early does not   *)
(* leave the reader blocked on the pipe nor applyStream waiting for it.    *)
(***************************************************************************)
StreamReturns == (rpc = "get") ~> (tpc = "finished")
=============================================================================
