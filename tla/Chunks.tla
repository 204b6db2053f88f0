------------------------------- MODULE Chunks -------------------------------
(***************************************************************************)
(* Runs of flow bytes, as flow.rs, recovery.rs and the wire pass them      *)
(* around.  Where a run has an honest sender, a byte is the position at    *)
(* which the application wrote it, so that a byte at the wrong offset, out *)
(* of order or twice is visible.                                           *)
(***************************************************************************)
EXTENDS Integers, Sequences, FiniteSets

\* Option::None of an offset.
NoOffset == -1

\* A run of flow bytes with the offset of its first one.
Chunk(offset, bytes) == [offset |-> offset, bytes |-> bytes]
EndOf(c) == c.offset + Len(c.bytes)
OffsetsOf(c) == c.offset .. (EndOf(c) - 1)
Covered(chunks) == UNION {OffsetsOf(c) : c \in chunks}
=============================================================================
