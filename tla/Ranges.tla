------------------------------- MODULE Ranges -------------------------------
(***************************************************************************)
(* The acknowledgement ranges of a flow (src/src/recovery.rs, AckRanges)   *)
(* as operators on a value.                                                *)
(*                                                                         *)
(* An acknowledgement is a record [contiguous, ranges]: every offset below *)
(* `contiguous`, and every offset of a range, has been received.  The code *)
(* keeps `ranges` as a vector sorted by offset; its elements are disjoint, *)
(* so the set of them says the same.  A range is [start, end), as in Rust. *)
(***************************************************************************)
EXTENDS Integers, FiniteSets

RangeOf(start, end) == [start |-> start, end |-> end]

Larger(a, b) == IF a >= b THEN a ELSE b
Smaller(a, b) == IF a <= b THEN a ELSE b

\* The offsets a range, and an acknowledgement, stand for.
InRange(r) == r.start .. (r.end - 1)
Offsets(ack) == (0 .. (ack.contiguous - 1)) \cup UNION {InRange(r) : r \in ack.ranges}

\* Its ranges do not touch one another or the contiguous prefix, and none is empty.
SeparateAck(ack) ==
    /\ \A r \in ack.ranges : ack.contiguous < r.start /\ r.start < r.end
    /\ \A r, q \in ack.ranges : r = q \/ r.end < q.start \/ q.end < r.start

OffsetRange == [start : Nat, end : Nat]
Ack == [contiguous : Nat, ranges : SUBSET OffsetRange]

EmptyAck == [contiguous |-> 0, ranges |-> {}]

\* validate_range: a range of the wire is not empty.
ValidRange(start, end) == start < end

\* validate_insert: with all `max` ranges in use, only a range that touches
\* one of them (or is already contiguous) can be represented.
ValidateInsert(ack, max, start, end) ==
    \/ end <= ack.contiguous
    \/ Cardinality(ack.ranges) < max
    \/ \E r \in ack.ranges : /\ r.end >= Larger(start, ack.contiguous)
                             /\ r.start <= end

(***************************************************************************)
(* AckRanges::insert.  `merged` grows over every range it touches; the     *)
(* ranges are separated, so only the one that reaches over its start and   *)
(* the one that reaches over its end move its bounds.  The last loop moves *)
(* a first range that starts at `contiguous` into the contiguous prefix.   *)
(***************************************************************************)
MergedStart(ranges, start) ==
    IF \E r \in ranges : r.start < start /\ start <= r.end
    THEN (CHOOSE r \in ranges : r.start < start /\ start <= r.end).start
    ELSE start

\* Bug: a range that reaches over the end of the inserted one is cut off there.
MergedEndCut(ranges, end) == end

MergedEnd(ranges, end) ==
    IF \E r \in ranges : r.start <= end /\ end < r.end
    THEN (CHOOSE r \in ranges : r.start <= end /\ end < r.end).end
    ELSE end

Untouched(ranges, start, end) == {r \in ranges : r.end < start \/ end < r.start}

Insert(ack, start, end) ==
    IF end <= ack.contiguous
    THEN ack
    ELSE LET first == Larger(start, ack.contiguous)
             mergedStart == MergedStart(ack.ranges, first)
             mergedEnd == MergedEnd(ack.ranges, end)
             rest == Untouched(ack.ranges, first, end)
         IN  IF mergedStart <= ack.contiguous
             THEN [contiguous |-> mergedEnd, ranges |-> rest]
             ELSE [contiguous |-> ack.contiguous,
                   ranges |-> rest \cup {RangeOf(mergedStart, mergedEnd)}]

(***************************************************************************)
(* What decode_control accepts as an ACK frame: at most `max` ranges, each *)
(* non-empty and beginning at or after the end of the one before.          *)
(***************************************************************************)
DecodeAckOk(ack, max) ==
    /\ Cardinality(ack.ranges) <= max
    /\ \A r \in ack.ranges : ValidRange(r.start, r.end) /\ ack.contiguous <= r.start
    /\ \A r, q \in ack.ranges : r = q \/ r.end <= q.start \/ q.end <= r.start

(***************************************************************************)
(* AckRanges::from_wire refuses a decoded ACK of bytes that were not sent. *)
(* The ranges it inserts are at most `max`, so none of the insertions can  *)
(* run out of ranges.                                                      *)
(***************************************************************************)
FromWireOk(ack, sent) ==
    ack.contiguous <= sent /\ \A r \in ack.ranges : r.end <= sent
=============================================================================
