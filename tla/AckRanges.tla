----------------------------- MODULE AckRanges ------------------------------
(***************************************************************************)
(* The bookkeeping of what a flow has received (src/src/recovery.rs,       *)
(* AckRanges): any sequence of insertions, in any order, overlapping or    *)
(* not, of ranges below a bound.                                           *)
(***************************************************************************)
EXTENDS Ranges

CONSTANTS MaxRanges,  \* the negotiated max_ack_ranges
          MaxOffset   \* bound on the offsets a run inserts

ASSUME AckRangesAssumption == MaxRanges \in Nat \ {0} /\ MaxOffset \in Nat

VARIABLES acks,       \* the AckRanges value
          inserted    \* history: the offsets of every accepted range

vars == <<acks, inserted>>

TypeOK ==
    /\ acks \in Ack
    /\ inserted \subseteq Nat

Init == acks = EmptyAck /\ inserted = {}

InsertRange(start, end) ==
    /\ ValidRange(start, end)
    /\ ValidateInsert(acks, MaxRanges, start, end)
    /\ acks' = Insert(acks, start, end)
    /\ inserted' = inserted \cup (start .. (end - 1))

Next == \E start, end \in 0 .. MaxOffset : InsertRange(start, end)

Spec == Init /\ [][Next]_vars
-----------------------------------------------------------------------------
\* The ranges are disjoint, do not touch each other or the contiguous prefix,
\* and none is empty: what insert's single merge pass, and the order of the
\* vector, rely on.
Separated == SeparateAck(acks)

\* The acknowledgement says exactly what was received: an offset too many
\* makes the sender free a byte nobody holds, one too few is replayed forever.
Exact == Offsets(acks) = inserted

\* An ACK frame never carries more ranges than were negotiated, which the
\* peer's from_wire would answer by resetting the flow.
WithinMaxRanges == Cardinality(acks.ranges) <= MaxRanges

\* What was acknowledged stays acknowledged, whatever arrives later.
NeverForgets == [][Offsets(acks) \subseteq Offsets(acks') /\ acks.contiguous <= acks'.contiguous]_vars
=============================================================================
