----------------------------- MODULE FlowProofs -----------------------------
(***************************************************************************)
(* Proofs about a flow.  Of the ranges a flow has received, for every      *)
(* bound: that they are separate, exact and few.  Of one direction, for    *)
(* any buffers, limits, payload and read sizes, any loss, reordering and   *)
(* repetition of DATAGRAMs, any resets, drops and any pressure on memory:  *)
(* no byte is lost, a confirmed shutdown and a completed flush mean what   *)
(* they say, and the direction implements an ordered pipe.  The steps of   *)
(* the two halves are in FlowSendProofs and FlowStepProofs.                *)
(***************************************************************************)
EXTENDS AckRanges, FiniteSetTheorems, FlowStepProofs

-----------------------------------------------------------------------------
\* The inductive invariant: Exact needs the ranges separated, because the merge
\* of insert looks at one neighbour on each side; WithinMaxRanges needs them
\* finite to be counted.
IInv == /\ TypeOK
        /\ Separated
        /\ Exact
        /\ IsFiniteSet(acks.ranges)
        /\ WithinMaxRanges

\* Nothing received yet satisfies it.
LEMMA InitIInv == Init => IInv
<1> SUFFICES ASSUME Init PROVE IInv
  BY Zenon
<1>1. TypeOK /\ Separated
  BY Zenon DEF Init, EmptyAck, TypeOK, Ack, Separated, SeparateAck
<1>2. Exact
  BY DEF Init, EmptyAck, Exact, Offsets
<1>3. IsFiniteSet(acks.ranges) /\ Cardinality(acks.ranges) = 0
  BY FS_EmptySet, Zenon DEF Init, EmptyAck
<1>4. WithinMaxRanges
  BY <1>3, AckRangesAssumption, SMTT(30) DEF WithinMaxRanges
<1> QED BY <1>1, <1>2, <1>3, <1>4, Zenon DEF IInv

\* An insertion that validate_insert lets through needs no range beyond `max`.
LEMMA InsertBounded ==
    ASSUME NEW ack \in Ack, SeparateAck(ack), NEW start \in Nat, NEW end \in Nat, start < end,
           NEW max \in Nat, IsFiniteSet(ack.ranges), Cardinality(ack.ranges) <= max,
           ValidateInsert(ack, max, start, end)
    PROVE  /\ IsFiniteSet(Insert(ack, start, end).ranges)
           /\ Cardinality(Insert(ack, start, end).ranges) <= max
<1> DEFINE first == Larger(start, ack.contiguous)
           ms == MergedStart(ack.ranges, first)
           me == MergedEnd(ack.ranges, end)
           rest == Untouched(ack.ranges, first, end)
           m == RangeOf(ms, me)
<1>1. CASE end <= ack.contiguous
  BY <1>1, Zenon DEF Insert
<1>2. CASE ~(end <= ack.contiguous)
  <2>0. ack.contiguous \in Nat /\ ack.ranges \in SUBSET OffsetRange
    BY Zenon DEF Ack
  <2>1. first \in Nat
    BY <2>0, Zenon DEF Larger
  <2>2. rest \subseteq ack.ranges
    BY Zenon DEF Untouched
  <2>3. /\ IsFiniteSet(rest)
        /\ Cardinality(rest) <= Cardinality(ack.ranges)
        /\ Cardinality(ack.ranges) = Cardinality(rest) => ack.ranges = rest
    <3> HIDE DEF rest
    <3>1. rest \in SUBSET ack.ranges
      BY <2>2, Zenon
    <3> QED BY <3>1, FS_Subset, Zenon
  <2>4. Cardinality(rest) \in Nat /\ Cardinality(ack.ranges) \in Nat
    BY <2>3, FS_CardinalityType, Zenon
  <2>5. Cardinality(rest) < max
    <3>1. CASE Cardinality(ack.ranges) < max
      BY <2>3, <2>4, <3>1, SMTT(30)
    <3>2. CASE \E r \in ack.ranges : r.end >= first /\ r.start <= end
      <4>1. PICK r \in ack.ranges : r.end >= first /\ r.start <= end
        BY <3>2, Zenon
      <4>2. r \notin rest
        BY <2>0, <2>1, <4>1, SMTT(30) DEF Untouched, OffsetRange
      <4> QED BY <2>3, <2>4, <4>1, <4>2, SMTT(30)
    <3>3. Cardinality(ack.ranges) < max \/ \E r \in ack.ranges : r.end >= first /\ r.start <= end
      BY <1>2, Zenon DEF ValidateInsert
    <3> QED BY <3>1, <3>2, <3>3, Zenon
  <2>6. IsFiniteSet(rest \cup {m}) /\ Cardinality(rest \cup {m}) <= Cardinality(rest) + 1
    <3> HIDE DEF rest, m
    <3>1. /\ IsFiniteSet(rest \cup {m})
          /\ Cardinality(rest \cup {m}) = IF m \in rest THEN Cardinality(rest)
                                                      ELSE Cardinality(rest) + 1
      BY <2>3, FS_AddElement, Zenon
    <3> QED BY <2>4, <3>1, SMTT(30)
  <2>7. IsFiniteSet(rest \cup {m}) /\ Cardinality(rest \cup {m}) \in Nat
    BY <2>6, FS_CardinalityType, Zenon
  <2>8. Insert(ack, start, end).ranges \in {rest, rest \cup {m}}
    <3>1. \/ Insert(ack, start, end) = [contiguous |-> me, ranges |-> rest]
          \/ Insert(ack, start, end) = [contiguous |-> ack.contiguous, ranges |-> rest \cup {m}]
      BY <1>2, Zenon DEF Insert
    <3> HIDE DEF rest, m, me
    <3> QED BY <3>1
  <2> HIDE DEF rest, m
  <2>9. PICK n \in Nat, k \in Nat :
            n = Cardinality(rest) /\ k = Cardinality(rest \cup {m}) /\ n < max /\ k <= n + 1
    BY <2>4, <2>5, <2>6, <2>7, Zenon
  <2>10. n <= max /\ k <= max
    BY <2>9, SMTT(30)
  <2> QED BY <2>3, <2>6, <2>8, <2>9, <2>10, Zenon
<1> QED BY <1>1, <1>2, Zenon

\* Every accepted insertion preserves it.
LEMMA NextIInv == IInv /\ [Next]_vars => IInv'
<1> SUFFICES ASSUME IInv, [Next]_vars PROVE IInv'
  BY Zenon
<1>1. ASSUME NEW start \in 0 .. MaxOffset, NEW end \in 0 .. MaxOffset, InsertRange(start, end)
      PROVE  IInv'
  <2>1. start \in Nat /\ end \in Nat /\ start < end /\ MaxRanges \in Nat
    BY <1>1, AckRangesAssumption, SMTT(30) DEF InsertRange, ValidRange
  <2>2. acks \in Ack /\ SeparateAck(acks) /\ acks' = Insert(acks, start, end)
    BY <1>1, Zenon DEF IInv, TypeOK, Separated, InsertRange
  <2>3. acks' \in Ack /\ SeparateAck(acks')
    BY <2>1, <2>2, InsertSeparate, Zenon
  <2>4. Offsets(acks') = inserted'
    BY <1>1, <2>1, <2>2, InsertOffsets, SMTT(30) DEF IInv, Exact, InsertRange
  <2>5. IsFiniteSet(acks'.ranges) /\ Cardinality(acks'.ranges) <= MaxRanges
    BY <1>1, <2>1, <2>2, InsertBounded, Zenon DEF IInv, WithinMaxRanges, InsertRange
  <2>6. inserted' \subseteq Nat
    BY <1>1, <2>1, SMTT(30) DEF IInv, TypeOK, InsertRange
  <2> QED BY <2>3, <2>4, <2>5, <2>6, Zenon DEF IInv, TypeOK, Separated, Exact, WithinMaxRanges
<1>2. CASE UNCHANGED vars
  BY <1>2, Zenon DEF IInv, TypeOK, Separated, Exact, WithinMaxRanges, vars
<1> QED BY <1>1, <1>2, Zenon DEF Next

\* The acknowledgement of AckRanges is well formed after any insertions.
THEOREM TypeCorrect == Spec => []TypeOK
  BY InitIInv, NextIInv, PTL DEF Spec, IInv

\* Its ranges stay disjoint, non-empty and sorted apart from one another.
THEOREM AlwaysSeparated == Spec => []Separated
  BY InitIInv, NextIInv, PTL DEF Spec, IInv

\* It names exactly the offsets that were inserted.
THEOREM AlwaysExact == Spec => []Exact
  BY InitIInv, NextIInv, PTL DEF Spec, IInv

\* It never needs more ranges than the peers agreed on.
THEOREM AlwaysWithinMaxRanges == Spec => []WithinMaxRanges
  BY InitIInv, NextIInv, PTL DEF Spec, IInv

\* An offset once acknowledged is never taken back, nor does the prefix shrink.
THEOREM AlwaysRemembers == Spec => NeverForgets
<1> DEFINE Grows == Offsets(acks) \subseteq Offsets(acks') /\ acks.contiguous <= acks'.contiguous
<1>1. IInv /\ [Next]_vars => [Grows]_vars
  <2> SUFFICES ASSUME IInv, NEW start \in 0 .. MaxOffset, NEW end \in 0 .. MaxOffset,
                      InsertRange(start, end)
               PROVE  Grows
    BY Zenon DEF Next
  <2>1. start \in Nat /\ end \in Nat /\ start < end
    BY AckRangesAssumption, SMTT(30) DEF InsertRange, ValidRange
  <2>2. acks \in Ack /\ SeparateAck(acks) /\ acks' = Insert(acks, start, end)
    BY Zenon DEF IInv, TypeOK, Separated, InsertRange
  <2>3. Offsets(acks') = Offsets(acks) \cup (start .. (end - 1))
    BY <2>1, <2>2, InsertOffsets, Zenon
  <2>4. acks.contiguous <= acks'.contiguous
    <3>1. acks' \in Ack /\ SeparateAck(acks') /\ acks.contiguous \in Nat /\ acks'.contiguous \in Nat
      BY <2>1, <2>2, InsertSeparate, Zenon DEF Ack
    <3>2. ASSUME acks'.contiguous < acks.contiguous PROVE FALSE
      <4>1. acks'.contiguous \in Offsets(acks)
        BY <3>1, <3>2, SMTT(30) DEF Offsets
      <4>2. acks'.contiguous \in Offsets(acks')
        BY <2>3, <4>1, Zenon
      <4>3. \A r \in acks'.ranges : acks'.contiguous \notin InRange(r)
        BY <3>1, SMTT(30) DEF SeparateAck, InRange, Ack, OffsetRange
      <4> QED BY <3>1, <4>2, <4>3, SMTT(30) DEF Offsets
    <3> QED BY <3>1, <3>2, SMTT(30)
  <2> QED BY <2>3, <2>4, Zenon
<1> QED BY <1>1, InitIInv, NextIInv, PTL DEF Spec, NeverForgets

-----------------------------------------------------------------------------
\* A set of offsets has a smallest one: the next chunk that a replay takes.
LEMMA Smallest == ASSUME NEW T \in SUBSET Nat, T # {} PROVE \E x \in T : \A y \in T : x <= y
<1>1. PICK x \in T : \A y \in T : ~(<<y, x>> \in OpToRel(<, Nat))
    BY NatLessThanWellFounded, WFMin, Zenon
<1>2. \A y \in T : ~(y < x)
    BY <1>1, Zenon DEF OpToRel
<1>3. \A y \in T : x \in Nat /\ y \in Nat
    BY Zenon
<1>4. \A y \in T : x <= y
    BY <1>2, <1>3, SMTT(30)
<1> QED BY <1>4, Zenon
\* The natural numbers are well ordered.
LEMMA NatWellOrdered == WellOrdered
BY Smallest, Zenon DEF WellOrdered

-----------------------------------------------------------------------------
\* The inductive invariant holds in every behaviour of a flow, for every limit, buffer,
\* payload and read size.
THEOREM FlowHolds == LinkSpec => []FlowInv
<1>1. LinkInit => FlowInv
    BY FlowBegins, Zenon
<1>2. FlowInv /\ [LinkNext]_linkVars => FlowInv'
    BY FlowStep, NatWellOrdered, Zenon
<1> QED BY <1>1, <1>2, PTL DEF LinkSpec

\* No byte that write accepted is lost, however sends, ACKs, replays, DATAGRAM loss and the
\* reader interleave: it is buffered, retained, or with the receiver.
THEOREM NothingLost == LinkSpec => []NoByteLost
<1>1. FlowInv => NoByteLost
    BY Zenon DEF FlowInv, WriteInv, HoldInv, NoByteLost
<1> QED BY <1>1, FlowHolds, PTL

\* A shutdown that poll_shutdown reports as complete means that the receiver holds every
\* byte: FIN waits for the ACK of all of them, and the ACK was truthful.
THEOREM ShutdownMeansHeld == LinkSpec => []ShutdownConfirmed
<1>1. ASSUME FlowInv, shutdown_done, send_error = "none"
      PROVE  0 .. (written - 1) \subseteq Offsets(received)
  <2>1. fin_queued /\ shutdown_target # NoOffset
      BY <1>1, Zenon DEF FlowInv, HoldInv
  <2>2. 0 .. (next_send_offset - 1) \subseteq Offsets(received)
      BY <1>1, <2>1, Zenon DEF FlowInv, HoldInv
  <2>3. written = next_send_offset
      BY <1>1, <2>1, SMTT(30) DEF FlowInv, WriteInv
  <2> QED BY <2>2, <2>3, Zenon
<1>2. FlowInv => ShutdownConfirmed
    BY <1>1, Zenon DEF ShutdownConfirmed
<1> QED BY <1>2, FlowHolds, PTL

\* flushed_offset never passes a byte that was not sent: whatever the sender still holds
\* below it is in the replay buffer.
THEOREM FlushedWasSent == LinkSpec => []FlushMeansSent
<1>1. ASSUME FlowInv, NEW o \in SenderHolds, o < flushed_offset PROVE o \in Covered(replay)
  <2>1. PICK c \in Queue(outbound) \cup replay \cup {taken} : o \in OffsetsOf(c)
      BY <1>1, HoldsIs, Zenon DEF Covered
  <2>2. PICK floor \in 0 .. next_send_offset : Above(floor) /\ Below(floor)
      BY <1>1, Zenon DEF FlowInv, FlushInv
  <2>3. next_send_offset \in Nat /\ flushed_offset \in Nat /\ flushed_offset <= floor
      BY <1>1, <2>2, Zenon DEF FlowInv, WriteInv, FlushInv, Below
  <2>4. c \in Honest(next_send_offset)
      BY <1>1, <2>1, SMTT(30) DEF FlowInv, ChunkInv, Queue
  <2>5. c.offset \in Nat /\ EndOf(c) \in Nat
      BY <2>3, <2>4, HonestFacts, Zenon
  <2>6. ~(floor <= c.offset)
      BY <1>1, <2>1, <2>3, <2>5, SMTT(30) DEF OffsetsOf
  <2>7. c \notin Queue(outbound)
      BY <2>2, <2>6, Zenon DEF Above
  <2>8. c = taken => taken = NoChunk
      BY <1>1, <2>2, <2>6, Zenon DEF Above, FlowInv, HoldInv
  <2>9. OffsetsOf(NoChunk) = {}
      BY DEF OffsetsOf, EndOf, NoChunk, Chunk
  <2>10. c \in replay
      BY <2>1, <2>7, <2>8, <2>9, Zenon
  <2> QED BY <2>1, <2>10, Zenon DEF Covered
<1>2. FlowInv => FlushMeansSent
    BY <1>1, Zenon DEF FlushMeansSent
<1> QED BY <1>2, FlowHolds, PTL

\* One direction of a flow implements an ordered pipe: the reader gets what was written, in
\* order and once, and sees the end only after the last byte of a flow that was shut down.
THEOREM LinkIsPipe == LinkSpec => IsPipe
<1>1. LinkInit => Pipe!Init
    BY PipeBegins, Zenon
<1>2. FlowInv /\ FlowInv' /\ [LinkNext]_linkVars => [Pipe!Next]_(Pipe!pipeVars)
    BY FlowStep, NatWellOrdered, PipeStep, Zenon
<1> QED BY <1>1, <1>2, FlowHolds, PTL DEF LinkSpec, IsPipe, Pipe!Spec
=============================================================================
