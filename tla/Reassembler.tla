---------------------------- MODULE Reassembler -----------------------------
(***************************************************************************)
(* The reassembly buffer of a flow (src/src/recovery.rs, Reassembler) as   *)
(* operators on a record                                                   *)
(*   chunks              disjoint runs of bytes, kept after they were read *)
(*                       until an ACK that covers them was written         *)
(*   next_offset         the first offset not read yet                     *)
(*   acknowledged_offset the contiguous prefix of the last written ACK     *)
(*   final_offset        the flow's length once known                      *)
(*   bytes               buffered and unread                               *)
(***************************************************************************)
EXTENDS Chunks, Ranges, FiniteSetsExt

CONSTANTS MaxBytes,   \* reassembly_buffer_bytes
          MaxChunks   \* max_chunks

ASSUME ReassemblerAssumption == MaxBytes \in Nat \ {0} /\ MaxChunks \in Nat \ {0}

EmptyReassembler ==
    [chunks |-> {}, next_offset |-> 0, acknowledged_offset |-> 0,
     final_offset |-> NoOffset, bytes |-> 0]

ChunkAt(chunks, offset) == CHOOSE c \in chunks : offset \in OffsetsOf(c)
ByteAt(chunks, offset) ==
    LET c == ChunkAt(chunks, offset) IN c.bytes[offset - c.offset + 1]

\* Bug: compares only the first byte of the overlap.
AgreesFirst(chunks, c) ==
    c.offset \in Covered(chunks) /\ c.bytes # <<>> => ByteAt(chunks, c.offset) = c.bytes[1]

\* Every byte of c at an offset held in chunks is the one held there.
Agrees(chunks, c) ==
    \A o \in OffsetsOf(c) \cap Covered(chunks) : ByteAt(chunks, o) = c.bytes[o - c.offset + 1]

\* The part of c that has not been read.
Unread(rx, c) ==
    LET start == Larger(c.offset, rx.next_offset)
    IN  Chunk(start, SubSeq(c.bytes, start - c.offset + 1, Len(c.bytes)))

\* The maximal runs of c's offsets that no chunk covers, as chunks.
Gaps(chunks, c) ==
    LET free == OffsetsOf(c) \ Covered(chunks)
        bounds == {b \in free \X free :
                     /\ b[1] <= b[2] /\ b[1] .. b[2] \subseteq free
                     /\ b[1] - 1 \notin free /\ b[2] + 1 \notin free}
    IN  {Chunk(b[1], SubSeq(c.bytes, b[1] - c.offset + 1, b[2] - c.offset + 1)) : b \in bounds}

\* set_final_offset, and the same test for a record that carries FIN.
FinalOffsetOk(rx, final) ==
    /\ rx.final_offset \in {NoOffset, final}
    /\ final >= rx.next_offset
    /\ \A c \in rx.chunks : EndOf(c) <= final

\* The buffer has room for the gaps a record fills.
WithinCapacity(rx, gaps) ==
    /\ rx.bytes + Cardinality(Covered(gaps)) <= MaxBytes
    /\ Cardinality(rx.chunks) + Cardinality(gaps) <= MaxChunks

\* insert_record: the first check that fails, or "ok".
InsertResult(rx, c, fin) ==
    LET gaps == Gaps(rx.chunks, Unread(rx, c))
    IN  IF c.bytes = <<>> THEN "InvalidRange"
        ELSE IF rx.final_offset # NoOffset /\ EndOf(c) > rx.final_offset THEN "FinalOffset"
        ELSE IF fin /\ ~FinalOffsetOk(rx, EndOf(c)) THEN "FinalOffset"
        ELSE IF ~Agrees(rx.chunks, c) THEN "ContradictoryOverlap"
        ELSE IF EndOf(c) <= rx.next_offset \/ gaps = {} THEN "ok"
        ELSE IF ~WithinCapacity(rx, gaps) THEN "Capacity"
        ELSE "ok"

InsertRecord(rx, c, fin) ==
    LET gaps == IF EndOf(c) <= rx.next_offset THEN {} ELSE Gaps(rx.chunks, Unread(rx, c))
    IN  [rx EXCEPT !.chunks = @ \cup gaps,
                   !.bytes = @ + Cardinality(Covered(gaps)),
                   !.final_offset = IF fin THEN EndOf(c) ELSE @]

SetFinalOffset(rx, final) == [rx EXCEPT !.final_offset = final]

\* read: the contiguous unread bytes, at most `length` of them.
Readable(rx, length) ==
    {n \in 0 .. length : rx.next_offset .. (rx.next_offset + n - 1) \subseteq Covered(rx.chunks)}
ReadLength(rx, length) == Max(Readable(rx, length))
ReadBytes(rx, count) ==
    [i \in 1 .. count |-> ByteAt(rx.chunks, rx.next_offset + i - 1)]

\* A chunk goes when it has been read to its end and an ACK for it was written,
\* whichever comes last.
Read(rx, count) ==
    LET next == rx.next_offset + count
        done == {c \in rx.chunks : /\ rx.next_offset < EndOf(c) /\ EndOf(c) <= next
                                   /\ EndOf(c) <= rx.acknowledged_offset}
    IN  [rx EXCEPT !.chunks = @ \ done, !.next_offset = next, !.bytes = @ - count]

AcknowledgeConsumed(rx, contiguous) ==
    LET acknowledged == Larger(rx.acknowledged_offset, contiguous)
        before == Smaller(acknowledged, rx.next_offset)
    IN  [rx EXCEPT !.acknowledged_offset = acknowledged,
                   !.chunks = {c \in @ : EndOf(c) > before}]

IsFinished(rx) == rx.final_offset = rx.next_offset
=============================================================================
