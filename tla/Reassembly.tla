----------------------------- MODULE Reassembly -----------------------------
(***************************************************************************)
(* The two buffers a flow keeps of what it receives, on their own: the     *)
(* acknowledgement ranges and the reassembly buffer, which insert_bytes    *)
(* updates together.  Any sequence of records, final offsets, reads and    *)
(* acknowledgements, the records overlapping and contradicting one another *)
(* in every way below a bound.                                             *)
(***************************************************************************)
EXTENDS AckRanges, Reassembler

CONSTANT ByteValues     \* byte values of a run

VARIABLES buffer,           \* the Reassembler
          bytes_read,    \* history: the bytes read
          accepted      \* history: the bytes accepted, with their offsets

bufferVars == <<vars, buffer, bytes_read, accepted>>

BufferInit == Init /\ buffer = EmptyReassembler /\ bytes_read = <<>> /\ accepted = {}

SomeRecord ==
    {c \in {Chunk(o, b) : o \in 0 .. MaxOffset,
                          b \in UNION {[1 .. n -> ByteValues] : n \in 0 .. MaxOffset}} :
       EndOf(c) <= MaxOffset}

\* insert_bytes: the ranges are validated, the record inserted, then its range.
InsertSome(c, fin) ==
    /\ InsertResult(buffer, c, fin) = "ok"
    /\ buffer' = InsertRecord(buffer, c, fin)
    /\ InsertRange(c.offset, EndOf(c))
    /\ accepted' = accepted \cup {<<o, c.bytes[o - c.offset + 1]>> : o \in OffsetsOf(c)}
    /\ UNCHANGED bytes_read

EndAt(final) ==
    /\ FinalOffsetOk(buffer, final)
    /\ buffer' = SetFinalOffset(buffer, final)
    /\ UNCHANGED <<vars, bytes_read, accepted>>

ReadSome(length) ==
    LET count == ReadLength(buffer, length)
    IN  /\ buffer' = Read(buffer, count)
        /\ bytes_read' = bytes_read \o ReadBytes(buffer, count)
        /\ UNCHANGED <<vars, accepted>>

\* An ACK with the present or an older contiguous prefix was written.
AcknowledgeUpTo(contiguous) ==
    /\ contiguous <= acks.contiguous
    /\ buffer' = AcknowledgeConsumed(buffer, contiguous)
    /\ UNCHANGED <<vars, bytes_read, accepted>>

BufferNext ==
    \/ \E c \in SomeRecord, fin \in BOOLEAN : InsertSome(c, fin)
    \/ \E final \in 0 .. MaxOffset : EndAt(final)
    \/ \E length \in 1 .. MaxOffset : ReadSome(length)
    \/ \E contiguous \in 0 .. MaxOffset : AcknowledgeUpTo(contiguous)

BufferSpec == BufferInit /\ [][BufferNext]_bufferVars
-----------------------------------------------------------------------------
\* A contradictory copy never replaces a byte: what is held, and what was read,
\* is the value that was accepted first for its offset.  Until the sender was
\* told that an offset arrived, a second value for it is not even accepted.
FirstByteWins ==
    /\ \A i \in DOMAIN bytes_read : <<i - 1, bytes_read[i]>> \in accepted
    /\ \A c \in buffer.chunks, o \in 0 .. MaxOffset :
         o \in OffsetsOf(c) => <<o, ByteAt(buffer.chunks, o)>> \in accepted
    /\ \A p, q \in accepted : p[1] = q[1] /\ p[2] # q[2] => p[1] < buffer.acknowledged_offset
=============================================================================
