--------------------------- MODULE FlowStepProofs ---------------------------
(***************************************************************************)
(* Proofs about one direction of a flow: what AckRanges::insert and the    *)
(* reassembler compute, that the steps of the receiving half keep the      *)
(* invariant, and that every step of the direction keeps it and is a step  *)
(* of the pipe.                                                            *)
(***************************************************************************)
EXTENDS FlowSendProofs

-----------------------------------------------------------------------------
\* The merge pass moves the start of the inserted range to the start of the range
\* that reaches over it, if there is one.
LEMMA MergedStartIs ==
    ASSUME NEW ranges \in SUBSET OffsetRange, NEW start \in Nat
    PROVE  LET s == MergedStart(ranges, start)
           IN  \/ \E r \in ranges : r.start < start /\ start <= r.end /\ s = r.start
               \/ /\ s = start
                  /\ \A r \in ranges : ~(r.start < start /\ start <= r.end)
  BY Zenon DEF MergedStart

\* The merge pass moves its end in the same way.
LEMMA MergedEndIs ==
    ASSUME NEW ranges \in SUBSET OffsetRange, NEW end \in Nat
    PROVE  LET e == MergedEnd(ranges, end)
           IN  \/ \E r \in ranges : r.start <= end /\ end < r.end /\ e = r.end
               \/ /\ e = end
                  /\ \A r \in ranges : ~(r.start <= end /\ end < r.end)
  BY Zenon DEF MergedEnd

\* The result of an insertion is an acknowledgement with separate ranges.
LEMMA InsertSeparate ==
    ASSUME NEW ack \in Ack, SeparateAck(ack), NEW start \in Nat, NEW end \in Nat, start < end
    PROVE  Insert(ack, start, end) \in Ack /\ SeparateAck(Insert(ack, start, end))
<1> DEFINE first == Larger(start, ack.contiguous)
           ms == MergedStart(ack.ranges, first)
           me == MergedEnd(ack.ranges, end)
           rest == Untouched(ack.ranges, first, end)
<1>1. CASE end <= ack.contiguous
  BY <1>1, Zenon DEF Insert
<1>2. CASE ~(end <= ack.contiguous)
  <2>0. ack.contiguous \in Nat /\ ack.ranges \in SUBSET OffsetRange
    BY Zenon DEF Ack
  <2>1. first \in Nat /\ ack.contiguous <= first /\ start <= first /\ first < end
    BY <1>2, <2>0 DEF Larger
  <2>2. \/ \E r \in ack.ranges : r.start < first /\ first <= r.end /\ ms = r.start
        \/ ms = first /\ \A r \in ack.ranges : ~(r.start < first /\ first <= r.end)
    BY <2>0, <2>1, MergedStartIs, Zenon
  <2>3. \/ \E r \in ack.ranges : r.start <= end /\ end < r.end /\ me = r.end
        \/ me = end /\ \A r \in ack.ranges : ~(r.start <= end /\ end < r.end)
    BY <2>0, MergedEndIs, Zenon
  <2>4. ms \in Nat /\ me \in Nat /\ ms <= first /\ end <= me
    BY <2>0, <2>1, <2>2, <2>3 DEF OffsetRange
  <2>5. \A r \in rest : r \in OffsetRange /\ r \in ack.ranges /\ (r.end < ms \/ me < r.start)
    <3> SUFFICES ASSUME NEW r \in rest PROVE r \in OffsetRange /\ r \in ack.ranges /\ (r.end < ms \/ me < r.start)
      BY Zenon
    <3>1. r \in ack.ranges /\ r \in OffsetRange /\ (r.end < first \/ end < r.start)
      BY <2>0, Zenon DEF Untouched
    <3>2. r.start \in Nat /\ r.end \in Nat /\ r.start < r.end /\ ack.contiguous < r.start
      BY <3>1, Zenon DEF OffsetRange, SeparateAck
    <3>3. CASE r.end < first
      BY <2>0, <2>1, <2>2, <3>1, <3>2, <3>3, SMTT(30) DEF SeparateAck, OffsetRange
    <3>4. CASE end < r.start
      BY <2>0, <2>1, <2>3, <3>1, <3>2, <3>4, SMTT(30) DEF SeparateAck, OffsetRange
    <3> QED BY <3>1, <3>3, <3>4, Zenon
  <2>6. CASE ms <= ack.contiguous
    <3>1. Insert(ack, start, end) = [contiguous |-> me, ranges |-> rest]
      BY <1>2, <2>6, Zenon DEF Insert
    <3>2. \A r \in rest : me < r.start
      <4> SUFFICES ASSUME NEW r \in rest PROVE me < r.start
        BY Zenon
      <4>1. ack.contiguous < r.start /\ r.start < r.end /\ r \in OffsetRange
        BY <2>5, Zenon DEF SeparateAck
      <4> QED BY <2>0, <2>4, <2>5, <2>6, <4>1, SMTT(30) DEF OffsetRange
    <3> HIDE DEF rest, me
    <3>3. [contiguous |-> me, ranges |-> rest] \in Ack
      BY <2>4, <2>5, Zenon DEF Ack
    <3>4. SeparateAck([contiguous |-> me, ranges |-> rest])
      BY <2>5, <3>2, Zenon DEF SeparateAck
    <3> QED BY <3>1, <3>3, <3>4, Zenon
  <2>7. CASE ~(ms <= ack.contiguous)
    <3> DEFINE m == RangeOf(ms, me)
    <3>1. Insert(ack, start, end) = [contiguous |-> ack.contiguous, ranges |-> rest \cup {m}]
      BY <1>2, <2>7, Zenon DEF Insert
    <3>2. m \in OffsetRange /\ m.start = ms /\ m.end = me
      BY <2>4, Zenon DEF RangeOf, OffsetRange
    <3> HIDE DEF rest, me, ms, m
    <3>3. [contiguous |-> ack.contiguous, ranges |-> rest \cup {m}] \in Ack
      BY <2>0, <2>5, <3>2, Zenon DEF Ack
    <3>4. ack.contiguous < m.start /\ m.start < m.end
      BY <2>0, <2>1, <2>4, <2>7, <3>2
    <3>5. SeparateAck([contiguous |-> ack.contiguous, ranges |-> rest \cup {m}])
      BY <2>5, <3>2, <3>4, Zenon DEF SeparateAck
    <3> QED BY <3>1, <3>3, <3>5, Zenon
  <2> QED BY <2>6, <2>7, Zenon
<1> QED BY <1>1, <1>2, Zenon

\* An insertion adds exactly the offsets of the inserted range.
LEMMA InsertOffsets ==
    ASSUME NEW ack \in Ack, SeparateAck(ack), NEW start \in Nat, NEW end \in Nat, start < end
    PROVE  Offsets(Insert(ack, start, end)) = Offsets(ack) \cup (start .. (end - 1))
<1> DEFINE first == Larger(start, ack.contiguous)
           ms == MergedStart(ack.ranges, first)
           me == MergedEnd(ack.ranges, end)
           rest == Untouched(ack.ranges, first, end)
<1>0. ack.contiguous \in Nat /\ ack.ranges \in SUBSET OffsetRange
  BY Zenon DEF Ack
<1>1. CASE end <= ack.contiguous
  BY <1>0, <1>1 DEF Insert, Offsets
<1>2. CASE ~(end <= ack.contiguous)
  <2>1. first \in Nat /\ ack.contiguous <= first /\ start <= first /\ first < end
        /\ (first = start \/ first = ack.contiguous)
    BY <1>0, <1>2 DEF Larger
  <2>2. \/ \E r \in ack.ranges : r.start < first /\ first <= r.end /\ ms = r.start
        \/ ms = first /\ \A r \in ack.ranges : ~(r.start < first /\ first <= r.end)
    BY <1>0, <2>1, MergedStartIs, Zenon
  <2>3. \/ \E r \in ack.ranges : r.start <= end /\ end < r.end /\ me = r.end
        \/ me = end /\ \A r \in ack.ranges : ~(r.start <= end /\ end < r.end)
    BY <1>0, MergedEndIs, Zenon
  <2>4. ms \in Nat /\ me \in Nat /\ ms <= first /\ end <= me
    BY <1>0, <2>1, <2>2, <2>3 DEF OffsetRange
  <2> DEFINE prefix == 0 .. (ack.contiguous - 1)
             kept == UNION {InRange(r) : r \in rest}
             merged == ms .. (me - 1)
             new == prefix \cup kept \cup merged
  <2>5. new = Offsets(ack) \cup (start .. (end - 1))
    <3>1. \A o \in merged : o \in Offsets(ack) \cup (start .. (end - 1))
      <4> SUFFICES ASSUME NEW o \in merged PROVE o \in Offsets(ack) \cup (start .. (end - 1))
        BY Zenon
      <4>1. o \in Nat /\ ms <= o /\ o < me
        BY <2>4
      <4>2. CASE o < first
        <5>1. PICK r \in ack.ranges : r.start < first /\ first <= r.end /\ ms = r.start
          BY <2>2, <4>1, <4>2, <2>1, SMTT(30)
        <5>2. r \in OffsetRange /\ o \in InRange(r)
          BY <1>0, <2>1, <4>1, <4>2, <5>1, SMTT(30) DEF InRange, OffsetRange
        <5> QED BY <5>2, Zenon DEF Offsets
      <4>3. CASE first <= o /\ o < end
        BY <2>1, <4>1, <4>3, SMTT(30)
      <4>4. CASE end <= o
        <5>1. PICK r \in ack.ranges : r.start <= end /\ end < r.end /\ me = r.end
          BY <2>3, <4>1, <4>4
        <5>2. r \in OffsetRange /\ o \in InRange(r)
          BY <1>0, <4>1, <4>4, <5>1 DEF InRange, OffsetRange
        <5> QED BY <5>2, Zenon DEF Offsets
      <4> QED BY <2>1, <4>1, <4>2, <4>3, <4>4, SMTT(30)
    <3>2. kept \subseteq Offsets(ack)
      BY Zenon DEF Untouched, Offsets
    <3>3. \A r \in ack.ranges : InRange(r) \subseteq kept \cup merged
      <4> SUFFICES ASSUME NEW r \in ack.ranges, r \notin rest PROVE InRange(r) \subseteq merged
        BY Zenon
      <4>1. r \in OffsetRange /\ r.start \in Nat /\ r.end \in Nat /\ first <= r.end /\ r.start <= end
        BY <1>0, <2>1 DEF Untouched, OffsetRange
      <4>2. ms <= r.start
        BY <1>0, <2>1, <2>2, <2>4, <4>1, SMTT(30) DEF SeparateAck, OffsetRange
      <4>3. r.end <= me
        BY <1>0, <2>1, <2>3, <2>4, <4>1, SMTT(30) DEF SeparateAck, OffsetRange
      <4> QED BY <2>4, <4>1, <4>2, <4>3 DEF InRange
    <3>4. start .. (end - 1) \subseteq prefix \cup merged
      BY <1>0, <2>1, <2>4, SMTT(30)
    <3>5. Offsets(ack) \subseteq new
      BY <3>3, Zenon DEF Offsets
    <3>6. prefix \subseteq Offsets(ack)
      BY Zenon DEF Offsets
    <3> QED BY <3>1, <3>2, <3>4, <3>5, <3>6, Zenon
  <2>6. CASE ms <= ack.contiguous
    <3>1. Insert(ack, start, end) = [contiguous |-> me, ranges |-> rest]
      BY <1>2, <2>6, Zenon DEF Insert
    <3>2. 0 .. (me - 1) = prefix \cup merged
      BY <1>0, <2>1, <2>4, <2>6, SMTT(30)
    <3> HIDE DEF rest, me, ms
    <3>3. Offsets([contiguous |-> me, ranges |-> rest]) = (0 .. (me - 1)) \cup kept
      BY Zenon DEF Offsets
    <3> QED BY <2>5, <3>1, <3>2, <3>3, Zenon
  <2>7. CASE ~(ms <= ack.contiguous)
    <3> DEFINE m == RangeOf(ms, me)
    <3>1. Insert(ack, start, end) = [contiguous |-> ack.contiguous, ranges |-> rest \cup {m}]
      BY <1>2, <2>7, Zenon DEF Insert
    <3>2. InRange(m) = merged
      BY Zenon DEF RangeOf, InRange
    <3> HIDE DEF rest, me, ms, m
    <3>3. Offsets([contiguous |-> ack.contiguous, ranges |-> rest \cup {m}])
            = prefix \cup kept \cup InRange(m)
      BY Zenon DEF Offsets
    <3> QED BY <2>5, <3>1, <3>2, <3>3, Zenon
  <2> QED BY <2>6, <2>7, Zenon
<1> QED BY <1>1, <1>2, Zenon

-----------------------------------------------------------------------------
\* The byte that honest chunks hold at an offset is that offset.
LEMMA HonestCover ==
    ASSUME NEW limit \in Nat, NEW chunks \in SUBSET Honest(limit), NEW o \in Covered(chunks)
    PROVE  o \in Nat /\ o < limit /\ ByteAt(chunks, o) = o
<1> DEFINE c == ChunkAt(chunks, o)
<1>1. c \in chunks /\ o \in OffsetsOf(c)
    BY Zenon DEF Covered, ChunkAt
<1> HIDE DEF c
<1>2. c \in Honest(limit)
    BY <1>1, Zenon
<1>3. /\ c.offset \in Nat /\ c.bytes \in Seq(Nat) /\ EndOf(c) = c.offset + Len(c.bytes)
      /\ EndOf(c) <= limit /\ \A i \in 1 .. Len(c.bytes) : c.bytes[i] = c.offset + i - 1
    BY <1>2, HonestFacts, Zenon
<1>4. o \in Nat /\ o < limit /\ o - c.offset + 1 \in 1 .. Len(c.bytes)
    BY <1>1, <1>3, SMTT(30) DEF OffsetsOf
<1>5. c.bytes[o - c.offset + 1] = o
    BY <1>3, <1>4, SMTT(30)
<1> QED BY <1>4, <1>5, Zenon DEF ByteAt, c

-----------------------------------------------------------------------------
\* The fields of a record written out.
LEMMA ShapedIs ==
    ASSUME NEW a, NEW b, NEW c, NEW d, NEW e, NEW r,
           r = [chunks |-> a, next_offset |-> b, acknowledged_offset |-> c,
                final_offset |-> d, bytes |-> e]
    PROVE  Shaped(r) /\ r.chunks = a /\ r.next_offset = b /\ r.final_offset = d
BY Zenon DEF Shaped

\* The gaps that a record fills are parts of it, and as honest.
LEMMA HonestGaps ==
    ASSUME NEW limit \in Nat, NEW chunks, NEW c \in Honest(limit)
    PROVE  Gaps(chunks, c) \in SUBSET Honest(limit)
<1> DEFINE free == OffsetsOf(c) \ Covered(chunks)
           bounds == {b \in free \X free :
                        /\ b[1] <= b[2] /\ b[1] .. b[2] \subseteq free
                        /\ b[1] - 1 \notin free /\ b[2] + 1 \notin free}
           part(b) == Chunk(b[1], SubSeq(c.bytes, b[1] - c.offset + 1, b[2] - c.offset + 1))
<1>1. Gaps(chunks, c) = {part(b) : b \in bounds}
    BY Zenon DEF Gaps
<1>2. c.offset \in Nat /\ Len(c.bytes) \in Nat /\ EndOf(c) = c.offset + Len(c.bytes)
    BY HonestFacts
<1>3. ASSUME NEW b \in bounds PROVE part(b) \in Honest(limit)
  <2>1. b[1] \in OffsetsOf(c) /\ b[2] \in OffsetsOf(c) /\ b[1] <= b[2]
      BY Zenon
  <2> HIDE DEF free, bounds
  <2>2. b[1] \in Nat /\ b[2] \in Nat /\ c.offset <= b[1] /\ b[2] < c.offset + Len(c.bytes)
      BY <1>2, <2>1, SMTT(30) DEF OffsetsOf
  <2> DEFINE m == b[1] - c.offset + 1
             n == b[2] - c.offset + 1
  <2>3. /\ m \in Nat /\ n \in Nat /\ 1 <= m /\ m <= n + 1 /\ n <= Len(c.bytes)
        /\ c.offset + m - 1 = b[1]
      BY <1>2, <2>1, <2>2, SMTT(30)
  <2> HIDE DEF m, n
  <2>4. Chunk(c.offset + m - 1, SubSeq(c.bytes, m, n)) \in Honest(limit)
      BY <2>3, HonestPart, Zenon
  <2>5. part(b) = Chunk(c.offset + m - 1, SubSeq(c.bytes, m, n))
      BY <2>3, Zenon DEF m, n
  <2> QED BY <2>4, <2>5, Zenon
<1> HIDE DEF bounds, part
<1> QED BY <1>1, <1>3, Zenon

\* insert_record without FIN keeps the buffer honest and moves neither end.
LEMMA HonestInsert ==
    ASSUME NEW limit \in Nat, NEW r, Shaped(r), r.chunks \in SUBSET Honest(limit),
           r.next_offset \in Nat, NEW c \in Honest(limit)
    PROVE  LET next == InsertRecord(r, c, FALSE)
           IN  /\ Shaped(next) /\ next.chunks \in SUBSET Honest(limit)
               /\ next.next_offset = r.next_offset /\ next.final_offset = r.final_offset
<1> DEFINE gaps == IF EndOf(c) <= r.next_offset THEN {} ELSE Gaps(r.chunks, Unread(r, c))
           held == r.chunks \cup gaps
           count == r.bytes + Cardinality(Covered(gaps))
<1>1. gaps \in SUBSET Honest(limit)
  <2> SUFFICES ASSUME ~(EndOf(c) <= r.next_offset) PROVE Gaps(r.chunks, Unread(r,
  c)) \in SUBSET Honest(limit)
      BY Zenon
  <2>1. c.offset \in Nat /\ Len(c.bytes) \in Nat /\ EndOf(c) = c.offset + Len(c.bytes)
      BY HonestFacts
  <2> DEFINE start == Larger(c.offset, r.next_offset)
             m == start - c.offset + 1
  <2>2. m \in Nat /\ 1 <= m /\ m <= Len(c.bytes) + 1 /\ c.offset + m - 1 = start
      BY <2>1, SMTT(30) DEF Larger
  <2>3. Unread(r, c) = Chunk(start, SubSeq(c.bytes, m, Len(c.bytes)))
      BY Zenon DEF Unread
  <2> HIDE DEF start, m
  <2>4. Chunk(c.offset + m - 1, SubSeq(c.bytes, m, Len(c.bytes))) \in Honest(limit)
      BY <2>1, <2>2, HonestPart
  <2>5. Unread(r, c) \in Honest(limit)
      BY <2>2, <2>3, <2>4, Zenon
  <2> QED BY <2>5, HonestGaps, Zenon
<1>2. InsertRecord(r, c, FALSE) = [r EXCEPT !.chunks = held, !.bytes = count,
!.final_offset = r.final_offset]
    BY Zenon DEF InsertRecord
<1>3. held \in SUBSET Honest(limit)
    BY <1>1, Zenon
<1> HIDE DEF gaps, held, count
<1>4. InsertRecord(r, c, FALSE) = [chunks |-> held, next_offset |-> r.next_offset,
         acknowledged_offset |-> r.acknowledged_offset,
         final_offset |-> r.final_offset, bytes |-> count]
    BY <1>2, Zenon DEF Shaped
<1>5. PICK next : next = InsertRecord(r, c, FALSE)
    BY ZenonT(60)
<1>6. next = [chunks |-> held, next_offset |-> r.next_offset,
              acknowledged_offset |-> r.acknowledged_offset,
              final_offset |-> r.final_offset, bytes |-> count]
    BY <1>4, <1>5, Zenon
<1>7. Shaped(next) /\ next.chunks = held /\ next.next_offset = r.next_offset
      /\ next.final_offset = r.final_offset
    BY <1>6, ShapedIs
<1> QED BY <1>3, <1>5, <1>7, Zenon

\* set_final_offset changes nothing but the end.
LEMMA HonestFinal ==
    ASSUME NEW r, Shaped(r), NEW final
    PROVE  LET next == SetFinalOffset(r, final)
           IN  /\ Shaped(next) /\ next.chunks = r.chunks
               /\ next.next_offset = r.next_offset /\ next.final_offset = final
<1>1. SetFinalOffset(r, final) = [chunks |-> r.chunks, next_offset |-> r.next_offset,
         acknowledged_offset |-> r.acknowledged_offset, final_offset |-> final, bytes |-> r.bytes]
    BY DEF SetFinalOffset, Shaped
<1> QED BY <1>1, ShapedIs

\* acknowledge_consumed only gives chunks up.
LEMMA HonestAcknowledge ==
    ASSUME NEW r, Shaped(r), NEW contiguous
    PROVE  LET next == AcknowledgeConsumed(r, contiguous)
           IN  /\ Shaped(next) /\ next.chunks \subseteq r.chunks
               /\ next.next_offset = r.next_offset /\ next.final_offset = r.final_offset
<1> DEFINE acknowledged == Larger(r.acknowledged_offset, contiguous)
           held == {c \in r.chunks : EndOf(c) > Smaller(acknowledged, r.next_offset)}
<1>1. AcknowledgeConsumed(r, contiguous)
        = [r EXCEPT !.acknowledged_offset = acknowledged, !.chunks = held]
    BY Zenon DEF AcknowledgeConsumed
<1>2. held \subseteq r.chunks
    BY Zenon
<1> HIDE DEF acknowledged, held
<1>3. AcknowledgeConsumed(r, contiguous) = [chunks |-> held, next_offset |-> r.next_offset,
         acknowledged_offset |-> acknowledged, final_offset |-> r.final_offset, bytes |-> r.bytes]
    BY <1>1, Zenon DEF Shaped
<1> QED BY <1>2, <1>3, ShapedIs

\* read gives chunks up and moves the reader on by what it read.
LEMMA HonestRead ==
    ASSUME NEW r, Shaped(r), NEW count
    PROVE  LET next == Read(r, count)
           IN  /\ Shaped(next) /\ next.chunks \subseteq r.chunks
               /\ next.next_offset = r.next_offset + count /\ next.final_offset = r.final_offset
<1> DEFINE next == r.next_offset + count
           done == {c \in r.chunks : /\ r.next_offset < EndOf(c) /\ EndOf(c) <= next
                                     /\ EndOf(c) <= r.acknowledged_offset}
           held == r.chunks \ done
           left == r.bytes - count
<1>1. Read(r, count) = [r EXCEPT !.chunks = held, !.next_offset = next, !.bytes = left]
    BY Zenon DEF Read
<1>2. held \subseteq r.chunks
    BY Zenon
<1> HIDE DEF held, left, done, next
<1>3. Read(r, count) = [chunks |-> held, next_offset |-> next,
         acknowledged_offset |-> r.acknowledged_offset, final_offset |-> r.final_offset,
         bytes |-> left]
    BY <1>1, Zenon DEF Shaped
<1>4. Shaped(Read(r, count)) /\ Read(r, count).chunks = held /\ Read(r, count).next_offset = next
      /\ Read(r, count).final_offset = r.final_offset
    BY <1>3, ShapedIs
<1> QED BY <1>2, <1>4, Zenon DEF next

\* The bytes read are the ones written at the reader's offset, and all of them were taken
\* in by the sender.
LEMMA HonestBytes ==
    ASSUME NEW limit \in Nat, NEW r, r.chunks \in SUBSET Honest(limit), r.next_offset \in Nat,
           NEW length \in Nat, NEW count \in Readable(r, length)
    PROVE  /\ count \in Nat /\ (count # 0 => r.next_offset + count <= limit)
           /\ ReadBytes(r, count) \in Seq(Nat) /\ Len(ReadBytes(r, count)) = count
           /\ \A i \in 1 .. count : ReadBytes(r, count)[i] = r.next_offset + i - 1
<1>1. count \in Nat /\ r.next_offset .. (r.next_offset + count - 1) \subseteq Covered(r.chunks)
    BY DEF Readable
<1>2. ASSUME NEW i \in 1 .. count
      PROVE  LET o == r.next_offset + i - 1 IN o \in Nat /\ o < limit /\ ByteAt(r.chunks, o) = o
  <2> DEFINE o == r.next_offset + i - 1
  <2>1. o \in r.next_offset .. (r.next_offset + count - 1)
      BY <1>1
  <2>2. o \in Covered(r.chunks)
      BY <1>1, <2>1, Zenon
  <2> HIDE DEF o
  <2>3. o \in Nat /\ o < limit /\ ByteAt(r.chunks, o) = o
      BY <2>2, HonestCover, Zenon
  <2> QED BY <2>3, Zenon DEF o
<1>3. ReadBytes(r, count) = [i \in 1 .. count |-> ByteAt(r.chunks, r.next_offset + i - 1)]
    BY Zenon DEF ReadBytes
<1>4. \A i \in 1 .. count : /\ ReadBytes(r, count)[i] = r.next_offset + i - 1
                            /\ r.next_offset + i - 1 \in Nat
    BY <1>2, <1>3, Zenon
<1>5. ReadBytes(r, count) \in [1 .. count -> Nat]
    BY <1>2, <1>3, Zenon
<1>6. ReadBytes(r, count) \in Seq(Nat) /\ Len(ReadBytes(r, count)) = count
    BY <1>1, <1>5
<1>7. ASSUME count # 0 PROVE r.next_offset + count <= limit
  <2>1. count \in 1 .. count
      BY <1>1, <1>7
  <2>2. r.next_offset + count - 1 < limit
      BY <1>2, <2>1, Zenon
  <2> QED BY <1>1, <2>2
<1> QED BY <1>1, <1>4, <1>6, <1>7, Zenon

-----------------------------------------------------------------------------
\* What was a truthful answer stays one when more arrives.
LEMMA RepliesGrow ==
    ASSUME NEW a, NEW b, Offsets(a) \subseteq Offsets(b)
    PROVE  Within(a) \subseteq Within(b) /\ Replies(a) \subseteq Replies(b)
<1>1. Within(a) \subseteq Within(b)
    BY Zenon DEF Within
<1> QED BY <1>1, Zenon DEF Replies

-----------------------------------------------------------------------------
\* It holds of a new flow.
LEMMA FlowBegins == LinkInit => FlowInv
<1> SUFFICES ASSUME LinkInit PROVE FlowInv
    BY Zenon
<1> USE DEF LinkInit, SendInit, ReceiveInit, ChannelInit
<1>1. WriteInv
    BY SendAssumption DEF WriteInv, Run, NoOffset
<1>2. ChunkInv
  <2>1. next_send_offset = 0 /\ shutdown_target = NoOffset /\ taken = Chunk(0, <<>>)
      BY Zenon DEF NoChunk
  <2>2. Chunk(0, <<>>) \in Honest(0)
      BY DEF Honest, AnyChunk, Chunk
  <2> QED BY <2>1, <2>2 DEF ChunkInv
<1>3. ReadInv
  <2>1. Shaped(EmptyReassembler) /\ EmptyReassembler.chunks = {} /\ EmptyReassembler.next_offset = 0
        /\ EmptyReassembler.final_offset = NoOffset
      BY Zenon DEF EmptyReassembler, Shaped
  <2>2. rx.chunks = {} /\ Shaped(rx) /\ rx.next_offset = 0 /\ rx.final_offset = NoOffset
        /\ delivered = <<>> /\ eof = FALSE /\ next_send_offset = 0
      BY <2>1, Zenon
  <2> HIDE DEF LinkInit, SendInit, ReceiveInit, ChannelInit
  <2>3. delivered \in Seq(Nat) /\ Run(delivered, 0) /\ Len(delivered) = 0
      BY <2>2 DEF Run
  <2>4. rx.chunks \in SUBSET Honest(next_send_offset)
      BY <2>2, Zenon
  <2>5. eof \in BOOLEAN /\ ~eof
      BY <2>2, Zenon
  <2> QED BY <2>2, <2>3, <2>4, <2>5, SMTT(30) DEF ReadInv
<1>4. AckInv
  <2>1. EmptyAck \in Ack /\ SeparateAck(EmptyAck)
      BY Zenon DEF EmptyAck, Ack, SeparateAck
  <2> QED BY <2>1, ReceiveAssumption DEF AckInv
<1>5. HoldInv
    BY DEF HoldInv
<1>6. FlushInv
    BY DEF FlushInv, Above, Below, Ordered, Queue
<1> QED BY <1>1, <1>2, <1>3, <1>4, <1>5, <1>6, Zenon DEF FlowInv

-----------------------------------------------------------------------------
\* The receiving half leaves the sender alone; that it has more makes nothing wrong.
LEMMA SenderKept ==
    ASSUME FlowInv, UNCHANGED <<sendVars, datagrams>>,
           data_stream' = data_stream \/ (data_stream # <<>> /\ data_stream' = Tail(data_stream)),
           Offsets(received) \subseteq Offsets(received')
    PROVE  WriteInv' /\ ChunkInv' /\ HoldInv' /\ FlushInv'
<1>1. UNCHANGED <<outbound, send_buffer, next_send_offset, written, peer_max_offset,
                  shutdown_target, flushed_offset, shutdown_done, send_error, send_stopped,
                  replay, wire_queue, fin_queued, phase, taken>>
    BY Zenon DEF sendVars, retainedVars, writeVars, targetVars, doneVars, lifeVars, taskVars
<1>2. WriteInv'
    BY <1>1, Zenon DEF FlowInv, WriteInv
<1>3. ChunkInv'
  <2>1. data_stream' \in Seq(Frames(next_send_offset, shutdown_target))
      BY Rest, Zenon DEF FlowInv, ChunkInv
  <2> QED BY <1>1, <2>1, Zenon DEF FlowInv, ChunkInv
<1>4. HoldInv'
  <2>1. SenderHolds' = SenderHolds
      BY <1>1, HoldsIs, Zenon
  <2> QED BY <1>1, <2>1, Zenon DEF FlowInv, HoldInv
<1>5. FlushInv'
  <2>1. PICK floor \in 0 .. next_send_offset : Above(floor) /\ Below(floor)
      BY Zenon DEF FlowInv, FlushInv
  <2>2. Above(floor)' /\ Below(floor)'
      BY <1>1, <2>1, Zenon DEF Above, Below
  <2> QED BY <1>1, <2>1, <2>2, Zenon DEF FlowInv, FlushInv
<1> QED BY <1>2, <1>3, <1>4, <1>5, Zenon

\* Nor does it make a report on its way wrong.
LEMMA AckKept ==
    ASSUME FlowInv, UNCHANGED <<sendVars, max_receive_offset, feedback_stream>>,
           received' \in Ack, SeparateAck(received'),
           Offsets(received) \subseteq Offsets(received'),
           pending_ack' = pending_ack \/ pending_ack' = <<>>,
           pending_credit' = pending_credit \/ pending_credit' = NoOffset
    PROVE  AckInv'
<1>1. Within(received) \subseteq Within(received') /\ Replies(received) \subseteq Replies(received')
    BY RepliesGrow, Zenon
<1>2. pending_ack \in Seq(Within(received')) /\ feedback_stream \in Seq(Replies(received'))
    BY <1>1, SeqGrows, Zenon DEF FlowInv, AckInv
<1>3. pending_ack' \in Seq(Within(received'))
  <2>1. \A S : <<>> \in Seq(S)
      OBVIOUS
  <2> QED BY <1>2, <2>1, Zenon
<1>4. peer_max_offset' = peer_max_offset
    BY Zenon DEF sendVars
<1> QED BY <1>2, <1>3, <1>4, Zenon DEF FlowInv, AckInv

\* A step that only buffers, or learns the end, keeps what was read right.
LEMMA ReadStill ==
    ASSUME FlowInv, UNCHANGED <<sendVars, delivered, eof>>, Shaped(rx'),
           rx'.chunks \in SUBSET Honest(next_send_offset), rx'.next_offset = rx.next_offset,
           rx'.final_offset \in {rx.final_offset, shutdown_target}
    PROVE  ReadInv'
<1>1. UNCHANGED <<next_send_offset, shutdown_target>>
    BY Zenon DEF sendVars, writeVars, targetVars
<1> QED BY <1>1, Zenon DEF FlowInv, ReadInv

\* A step of the receiving half that hands nothing to the application.
Silent == UNCHANGED <<sendVars, readVars>> /\ (recv_error' = "none" => recv_error = "none")

\* The receiving task ends.
LEMMA EndReceiveStep ==
    ASSUME FlowInv, NEW error, NEW end, EndReceive(error, end), UNCHANGED sendVars,
           error = "none" => recv_error = "none",
           data_stream' = data_stream \/ (data_stream # <<>> /\ data_stream' = Tail(data_stream))
    PROVE  FlowInv' /\ Silent
<1>1. /\ recv_error' = error /\ pending_ack' = <<>> /\ pending_credit' = NoOffset
      /\ UNCHANGED <<rx, received, max_receive_offset, readVars, datagrams, feedback_stream>>
    BY Zenon DEF EndReceive
<1>2. WriteInv' /\ ChunkInv' /\ HoldInv' /\ FlushInv'
    BY <1>1, SenderKept, Zenon
<1>3. AckInv'
    BY <1>1, AckKept, Zenon DEF FlowInv, AckInv
<1>4. ReadInv'
    BY <1>1, ReadStill, Zenon DEF readVars, FlowInv, ReadInv
<1>5. Silent
    BY <1>1, Zenon DEF Silent
<1> QED BY <1>2, <1>3, <1>4, <1>5, Zenon DEF FlowInv

\* It fails.
LEMMA FailReceiveStep ==
    ASSUME FlowInv, NEW violation, FailReceive(violation), UNCHANGED sendVars,
           data_stream' = data_stream \/ (data_stream # <<>> /\ data_stream' = Tail(data_stream))
    PROVE  FlowInv' /\ Silent
<1> DEFINE error == IF recv_error = "none" THEN "failed" ELSE recv_error
           end == IF violation THEN "reset" ELSE "finished"
<1>1. EndReceive(error, end) /\ error # "none"
    BY Zenon DEF FailReceive
<1> HIDE DEF error, end
<1> QED BY <1>1, EndReceiveStep, Zenon

\* It obeys a reset or a drop.
LEMMA StopReceiveStep ==
    ASSUME FlowInv, StopReceive, UNCHANGED sendVars
    PROVE  FlowInv' /\ Silent
<1> DEFINE end == IF recv_error = "reset" THEN "reset" ELSE "finished"
<1>1. EndReceive(recv_error, end) /\ data_stream' = data_stream
    BY Zenon DEF StopReceive
<1> HIDE DEF end
<1> QED BY <1>1, EndReceiveStep, Zenon

\* The sender's half of the stream ended.
LEMMA DataEndedStep ==
    ASSUME FlowInv, DataEnded, UNCHANGED sendVars
    PROVE  FlowInv' /\ Silent
BY FailReceiveStep, Zenon DEF DataEnded

\* insert_bytes keeps the buffer honest, and records exactly the record's offsets.
LEMMA InsertBytesStep ==
    ASSUME FlowInv, NEW c \in Honest(next_send_offset), ValidRange(c.offset, EndOf(c)),
           InsertBytes(c, FALSE),
           UNCHANGED <<sendVars, max_receive_offset, pending_ack, pending_credit, recv_error,
                       readVars, datagrams, feedback_stream>>,
           data_stream' = data_stream \/ (data_stream # <<>> /\ data_stream' = Tail(data_stream))
    PROVE  FlowInv' /\ Silent
<1>1. next_send_offset \in Nat /\ received \in Ack /\ SeparateAck(received)
    BY Zenon DEF FlowInv, WriteInv, AckInv
<1>2. PICK start \in Nat, end \in Nat : start = c.offset /\ end = EndOf(c) /\ start < end
    BY <1>1, HonestFacts, Zenon DEF ValidRange
<1>3. rx' = InsertRecord(rx, c, FALSE) /\ received' = Insert(received, start, end)
    BY <1>2, Zenon DEF InsertBytes
<1>4. received' \in Ack /\ SeparateAck(received')
    BY <1>1, <1>2, <1>3, InsertSeparate, Zenon
<1>5. Offsets(received) \subseteq Offsets(received')
    BY <1>1, <1>2, <1>3, InsertOffsets, SMTT(30)
<1>6. WriteInv' /\ ChunkInv' /\ HoldInv' /\ FlushInv'
    BY <1>5, SenderKept, Zenon
<1>7. AckInv'
    BY <1>4, <1>5, AckKept, Zenon
<1>8. Shaped(rx) /\ rx.chunks \in SUBSET Honest(next_send_offset) /\ rx.next_offset \in Nat
    BY SMTT(30) DEF FlowInv, ReadInv
<1>9. /\ Shaped(rx') /\ rx'.chunks \in SUBSET Honest(next_send_offset)
      /\ rx'.next_offset = rx.next_offset /\ rx'.final_offset = rx.final_offset
    BY <1>1, <1>3, <1>8, HonestInsert, ZenonT(60)
<1>10. ReadInv'
    BY <1>9, ReadStill, Zenon DEF readVars
<1> QED BY <1>6, <1>7, <1>10, Zenon DEF FlowInv, Silent

\* It accepts no empty record.
LEMMA InsertOk ==
    ASSUME NEW c, NEW fin, NEW pressure, InsertBytesResult(c, fin, pressure) = "ok"
    PROVE  ValidRange(c.offset, EndOf(c))
BY Zenon DEF InsertBytesResult

\* The driver delivers a SOURCE record, or drops it.
LEMMA DeliverDatagramStep ==
    ASSUME FlowInv, NEW c \in datagrams, NEW pressure, DeliverDatagram(c, FALSE, pressure),
           UNCHANGED sendVars
    PROVE  FlowInv' /\ Silent
<1>1. UNCHANGED <<max_receive_offset, pending_ack, pending_credit, readVars, datagrams,
                  data_stream, feedback_stream>>
    BY Zenon DEF DeliverDatagram, channelVars
<1>2. c \in Honest(next_send_offset)
    BY Zenon DEF FlowInv, ChunkInv
<1> DEFINE result == InsertBytesResult(c, FALSE, pressure)
<1>3. \/ result = "ok" /\ InsertBytes(c, FALSE) /\ UNCHANGED recv_error
      \/ UNCHANGED <<rx, received>> /\ (ResetReceive \/ UNCHANGED recv_error)
    BY Zenon DEF DeliverDatagram, recvLifeVars
<1> HIDE DEF result
<1>4. CASE result = "ok" /\ InsertBytes(c, FALSE) /\ UNCHANGED recv_error
    BY <1>1, <1>2, <1>4, InsertOk, InsertBytesStep, Zenon DEF result
<1>5. CASE UNCHANGED <<rx, received>> /\ (ResetReceive \/ UNCHANGED recv_error)
  <2>1. recv_error' = "none" => recv_error = "none"
      BY <1>5, Zenon DEF ResetReceive, recvLifeVars
  <2>2. WriteInv' /\ ChunkInv' /\ HoldInv' /\ FlushInv'
      BY <1>1, <1>5, SenderKept, Zenon
  <2>3. AckInv'
      BY <1>1, <1>5, AckKept, Zenon DEF FlowInv, AckInv
  <2>4. ReadInv'
      BY <1>1, <1>5, ReadStill, Zenon DEF readVars, FlowInv, ReadInv
  <2> QED BY <1>1, <2>1, <2>2, <2>3, <2>4, Zenon DEF FlowInv, Silent
<1> QED BY <1>3, <1>4, <1>5, Zenon

\* FIN tells the receiver the end the writer fixed.
LEMMA FinStep ==
    ASSUME FlowInv, rx' = SetFinalOffset(rx, shutdown_target),
           UNCHANGED <<sendVars, received, max_receive_offset, pending_ack, pending_credit,
                       recv_error, readVars, datagrams, feedback_stream>>,
           data_stream' = data_stream \/ (data_stream # <<>> /\ data_stream' = Tail(data_stream))
    PROVE  FlowInv' /\ Silent
<1>1. WriteInv' /\ ChunkInv' /\ HoldInv' /\ FlushInv'
    BY SenderKept, Zenon
<1>2. AckInv'
    BY AckKept, Zenon DEF FlowInv, AckInv
<1>3. Shaped(rx) /\ rx.chunks \in SUBSET Honest(next_send_offset)
    BY Zenon DEF FlowInv, ReadInv
<1>4. /\ Shaped(rx') /\ rx'.chunks = rx.chunks
      /\ rx'.next_offset = rx.next_offset /\ rx'.final_offset = shutdown_target
    BY <1>3, HonestFinal, Zenon
<1>5. ReadInv'
    BY <1>3, <1>4, ReadStill, Zenon DEF readVars
<1> QED BY <1>1, <1>2, <1>5, Zenon DEF FlowInv, Silent

\* poll_receive and apply_control.
LEMMA ReceiveFrameStep ==
    ASSUME FlowInv, NEW pressure, ReceiveFrame(pressure), UNCHANGED sendVars
    PROVE  FlowInv' /\ Silent
<1>1. data_stream # <<>> /\ data_stream' = Tail(data_stream)
    BY Zenon DEF ReceiveFrame
<1> DEFINE frame == Head(data_stream)
           c == Chunk(frame.offset, frame.bytes)
           kept == UNCHANGED <<max_receive_offset, pending_ack, pending_credit, recv_error,
                               readVars, datagrams, feedback_stream>>
<1>2. \/ /\ FrameResult(frame, pressure) = "ok" /\ frame.type = "StreamData"
         /\ InsertBytes(c, frame.fin) /\ kept
      \/ /\ frame.type = "Fin" /\ rx' = SetFinalOffset(rx, frame.offset)
         /\ received' = received /\ kept
      \/ \E violation : FailReceive(violation)
    BY Zenon DEF ReceiveFrame, recvLifeVars
<1>3. next_send_offset \in Nat /\ frame \in Frames(next_send_offset, shutdown_target)
    BY <1>1, Rest, Zenon DEF FlowInv, WriteInv, ChunkInv
<1> HIDE DEF frame
<1>4. CASE /\ FrameResult(frame, pressure) = "ok" /\ frame.type = "StreamData"
           /\ InsertBytes(c, frame.fin) /\ kept
  <2>1. frame.fin = FALSE /\ c \in Honest(next_send_offset)
      BY <1>3, <1>4, FrameIs, Zenon
  <2>2. InsertBytesResult(c, frame.fin, pressure) = "ok"
      BY <1>4, Zenon DEF FrameResult
  <2> HIDE DEF c
  <2> QED BY <1>1, <1>4, <2>1, <2>2, InsertOk, InsertBytesStep, Zenon
<1>5. CASE /\ frame.type = "Fin" /\ rx' = SetFinalOffset(rx, frame.offset)
           /\ received' = received /\ kept
  <2>1. frame.offset = shutdown_target
      BY <1>3, <1>5, FrameIs, Zenon
  <2> QED BY <1>1, <1>5, <2>1, FinStep, Zenon
<1>6. CASE \E violation : FailReceive(violation)
    BY <1>1, <1>6, FailReceiveStep, Zenon
<1> QED BY <1>2, <1>4, <1>5, <1>6, Zenon

\* queue_pending_feedback reports what is received now.
LEMMA QueueFeedbackStep ==
    ASSUME FlowInv, NEW ack_due \in BOOLEAN, QueueFeedback(ack_due), UNCHANGED sendVars
    PROVE  FlowInv' /\ Silent
<1>1. /\ pending_ack' \in {<<received>>, pending_ack}
      /\ pending_credit' \in {max_receive_offset, pending_credit}
      /\ UNCHANGED <<rx, received, max_receive_offset, recv_error, readVars, datagrams,
                     data_stream, feedback_stream>>
    BY Zenon DEF QueueFeedback, recvLifeVars, channelVars
<1>2. WriteInv' /\ ChunkInv' /\ HoldInv' /\ FlushInv'
    BY <1>1, SenderKept, Zenon
<1>3. AckInv'
  <2>1. received \in Within(received)
      BY Zenon DEF FlowInv, AckInv, Within
  <2>2. <<received>> \in Seq(Within(received))
      BY <2>1
  <2>3. peer_max_offset' = peer_max_offset
      BY Zenon DEF sendVars
  <2> QED BY <1>1, <2>2, <2>3, Zenon DEF FlowInv, AckInv
<1>4. ReadInv'
    BY <1>1, ReadStill, Zenon DEF readVars, FlowInv, ReadInv
<1> QED BY <1>1, <1>2, <1>3, <1>4, Zenon DEF FlowInv, Silent

\* poll_wire writes the report, which is still truthful, and may free chunks that were read.
LEMMA WriteFeedbackStep ==
    ASSUME FlowInv, WriteFeedback, UNCHANGED sendVars
    PROVE  FlowInv' /\ Silent
<1>1. /\ pending_ack # <<>> \/ pending_credit # NoOffset
      /\ UNCHANGED <<received, max_receive_offset, readVars, datagrams, data_stream>>
    BY Zenon DEF WriteFeedback
<1> DEFINE ackWritten ==
             /\ pending_ack # <<>>
             /\ feedback_stream' = Append(feedback_stream, AckFrame(pending_ack[1]))
             /\ rx' = AcknowledgeConsumed(rx, pending_ack[1].contiguous)
             /\ pending_ack' = <<>> /\ UNCHANGED <<pending_credit, recv_error>>
           creditWritten ==
             /\ pending_credit # NoOffset
             /\ feedback_stream' = Append(feedback_stream, MaxOffsetFrame(pending_credit))
             /\ pending_credit' = NoOffset /\ UNCHANGED <<rx, pending_ack, recv_error>>
<1>2. ackWritten \/ creditWritten \/ FailReceive(FALSE)
    BY <1>1, Zenon DEF WriteFeedback, recvLifeVars
<1>3. CASE FailReceive(FALSE)
    BY <1>1, <1>3, FailReceiveStep, Zenon
<1>4. ASSUME ackWritten \/ creditWritten
      PROVE  WriteInv' /\ ChunkInv' /\ HoldInv' /\ FlushInv' /\ Silent
  <2>1. WriteInv' /\ ChunkInv' /\ HoldInv' /\ FlushInv'
      BY <1>1, SenderKept, Zenon
  <2>2. recv_error' = recv_error
      BY <1>4, Zenon
  <2> QED BY <1>1, <2>1, <2>2, Zenon DEF Silent
<1> DEFINE R == Replies(received)
<1>5. /\ feedback_stream \in Seq(R) /\ pending_ack \in Seq(Within(received))
      /\ pending_credit \in Nat \cup {NoOffset} /\ peer_max_offset' = peer_max_offset
    BY Zenon DEF FlowInv, AckInv, sendVars
<1>6. CASE ackWritten
  <2>1. pending_ack[1] \in Within(received)
      BY <1>5, <1>6
  <2>2. AckFrame(pending_ack[1]) \in R
      BY <2>1, Zenon DEF Replies
  <2> HIDE DEF R
  <2>3. feedback_stream' \in Seq(R)
    <3>1. PICK f \in R : f = AckFrame(pending_ack[1])
        BY <2>2, Zenon
    <3> QED BY <1>5, <1>6, <3>1, SMTT(30)
  <2>4. AckInv'
    <3>1. \A S : <<>> \in Seq(S)
        OBVIOUS
    <3>2. pending_ack' \in Seq(Within(received))
        BY <1>6, <3>1, Zenon
    <3> QED BY <1>1, <1>5, <1>6, <2>3, <3>2, Zenon DEF FlowInv, AckInv, R
  <2>5. Shaped(rx) /\ rx.chunks \in SUBSET Honest(next_send_offset)
      BY Zenon DEF FlowInv, ReadInv
  <2>6. /\ Shaped(rx') /\ rx'.chunks \subseteq rx.chunks
        /\ rx'.next_offset = rx.next_offset /\ rx'.final_offset = rx.final_offset
      BY <1>6, <2>5, HonestAcknowledge, Zenon
  <2>7. ReadInv'
    <3>1. rx'.chunks \in SUBSET Honest(next_send_offset)
        BY <2>5, <2>6, Zenon
    <3> QED BY <1>1, <2>6, <3>1, ReadStill, Zenon DEF readVars
  <2> QED BY <1>4, <1>6, <2>4, <2>7, Zenon DEF FlowInv
<1>7. CASE creditWritten
  <2>1. MaxOffsetFrame(pending_credit) \in R
      BY <1>5, <1>7, Zenon DEF Replies
  <2> HIDE DEF R
  <2>2. feedback_stream' \in Seq(R)
    <3>1. PICK f \in R : f = MaxOffsetFrame(pending_credit)
        BY <2>1, Zenon
    <3> QED BY <1>5, <1>7, <3>1, SMTT(30)
  <2>3. AckInv'
      BY <1>1, <1>5, <1>7, <2>2, Zenon DEF FlowInv, AckInv, R
  <2>4. ReadInv'
      BY <1>1, <1>7, ReadStill, Zenon DEF readVars, FlowInv, ReadInv
  <2> QED BY <1>4, <1>7, <2>3, <2>4, Zenon DEF FlowInv
<1> QED BY <1>2, <1>3, <1>6, <1>7, Zenon

\* The application resets or drops its end.
LEMMA ReaderLeavesStep ==
    ASSUME FlowInv, ResetByReader \/ DropReader, UNCHANGED sendVars
    PROVE  FlowInv' /\ Silent
<1>1. /\ recv_error = "none"
      /\ UNCHANGED <<rx, received, max_receive_offset, pending_ack, pending_credit, readVars,
                     datagrams, data_stream, feedback_stream>>
    BY Zenon DEF ResetByReader, DropReader, feedbackVars, channelVars
<1>2. WriteInv' /\ ChunkInv' /\ HoldInv' /\ FlushInv'
    BY <1>1, SenderKept, Zenon
<1>3. AckInv'
    BY <1>1, AckKept, Zenon DEF FlowInv, AckInv
<1>4. ReadInv'
    BY <1>1, ReadStill, Zenon DEF readVars, FlowInv, ReadInv
<1> QED BY <1>1, <1>2, <1>3, <1>4, Zenon DEF FlowInv, Silent

-----------------------------------------------------------------------------
\* The natural numbers are well ordered: a fact about numbers that the steps below assume,
\* and that FlowProofs proves from the library's induction theorems.
WellOrdered == \A T \in SUBSET Nat : T # {} => \E x \in T : \A y \in T : x <= y

\* A bounded set of counts has a largest one: the bytes that a read hands out.
LEMMA Largest ==
    ASSUME WellOrdered, NEW n \in Nat, NEW S \in SUBSET (0 .. n), S # {}
    PROVE  \E x \in S : \A y \in S : x >= y
<1> DEFINE T == {m \in Nat : n - m \in S}
<1>1. T \in SUBSET Nat /\ T # {}
  <2>1. PICK s \in S : TRUE
      BY Zenon
  <2>2. n - s \in Nat /\ n - (n - s) = s
      BY <2>1
  <2> QED BY <2>1, <2>2, Zenon
<1>2. PICK x \in T : \A y \in T : x <= y
    BY <1>1, Zenon DEF WellOrdered
<1>3. ASSUME NEW y \in S PROVE n - x >= y
  <2>1. n - y \in T
      OBVIOUS
  <2> QED BY <1>2, <2>1
<1> QED BY <1>2, <1>3, Zenon

-----------------------------------------------------------------------------
\* read finds how many bytes it can hand out: the largest count exists.
LEMMA ReadCount ==
    ASSUME WellOrdered, NEW r, r.next_offset \in Nat, NEW n \in Nat
    PROVE  ReadLength(r, n) \in Readable(r, n)
<1>1. Readable(r, n) \in SUBSET (0 .. n) /\ Readable(r, n) # {}
  <2>1. r.next_offset .. (r.next_offset + 0 - 1) = {}
      OBVIOUS
  <2>2. 0 \in Readable(r, n)
      BY <2>1 DEF Readable
  <2> QED BY <2>2, Zenon DEF Readable
<1> QED BY <1>1, Largest, Zenon DEF ReadLength, Max

-----------------------------------------------------------------------------
\* next_chunk_after finds a retained chunk.
LEMMA NextAfterIs ==
    ASSUME WellOrdered, FlowInv, NEW cursor, After(cursor) # {}
    PROVE  NextAfter(cursor) \in replay
<1>1. After(cursor) \in SUBSET replay
    BY Zenon DEF After
<1> DEFINE T == {c.offset : c \in After(cursor)}
<1>2. T \in SUBSET Nat /\ T # {}
  <2>1. \A c \in After(cursor) : c.offset \in Nat
      BY <1>1, HonestFacts, Zenon DEF FlowInv, WriteInv, ChunkInv
  <2> QED BY <2>1, Zenon
<1>3. PICK x \in T : \A y \in T : x <= y
    BY <1>2, Zenon DEF WellOrdered
<1>4. PICK c \in After(cursor) : c.offset = x
    BY <1>3, Zenon
<1>5. \A d \in After(cursor) : c.offset <= d.offset
    BY <1>3, <1>4, Zenon
<1>6. NextAfter(cursor) \in After(cursor)
    BY <1>4, <1>5, Zenon DEF NextAfter
<1> QED BY <1>1, <1>6, Zenon

\* poll_replay, at every step of the ladder.
LEMMA PollReplayStep ==
    ASSUME WellOrdered, FlowInv, PollReplay, UNCHANGED recvVars
    PROVE  FlowInv' /\ Steady
<1>1. /\ Steady /\ phase = "replay"
      /\ UNCHANGED <<data_stream, fin_queued, shutdown_done, flushed_offset, peer_max_offset,
                     feedback_stream>>
    BY Zenon DEF PollReplay, Steady, targetVars, doneVars
<1> DEFINE adaptive == datagram_enabled /\ ~RefusedRepair
           kept == /\ phase' = "idle"
                   /\ UNCHANGED <<outbound, replay, taken, send_error, send_stopped>>
<1>2. \/ (ReplayNothing \/ ReplayRepair \/ ReplaySource \/ ReplayQueueFull
            \/ ReplayReliably(adaptive)) /\ kept
      \/ FailTask(FALSE)
    BY Zenon DEF PollReplay, retainedVars, lifeVars
<1>3. CASE FailTask(FALSE)
    BY <1>1, <1>3, FailTaskStep, Zenon
<1>4. CASE (ReplayNothing \/ ReplayRepair \/ ReplaySource \/ ReplayQueueFull
              \/ ReplayReliably(adaptive)) /\ kept
  <2>1. CASE UNCHANGED <<wire_queue, datagrams>>
      BY <1>1, <1>4, <2>1, QuietStep, Zenon
  <2>2. CASE ~UNCHANGED <<wire_queue, datagrams>>
    <3> DEFINE c == NextAfter(replay_cursor)
    <3>1. /\ After(replay_cursor) # {} /\ datagrams' \in {datagrams, datagrams \cup {c}}
          /\ wire_queue' \in {wire_queue, Append(wire_queue, StreamDataFrame(c, FALSE))}
        BY <1>4, <2>2, Zenon DEF ReplayNothing, ReplayRepair, ReplaySource, ReplayQueueFull,
                          ReplayReliably
    <3>2. c \in replay
        BY <3>1, NextAfterIs, Zenon
    <3> HIDE DEF c
    <3> QED BY <1>1, <1>4, <3>1, <3>2, ReplayedStep, Zenon
  <2> QED BY <2>1, <2>2, Zenon
<1> QED BY <1>2, <1>3, <1>4, Zenon

-----------------------------------------------------------------------------
\* read hands out bytes, or the end.
ReadsBytes == ~eof /\ eof' = eof /\ Len(delivered') > Len(delivered)

ReadsEnd == eof' = TRUE /\ delivered' = delivered

\* The bytes read are a run that begins where the reader is.
LEMMA HonestRun ==
    ASSUME NEW limit \in Nat, NEW r, r.chunks \in SUBSET Honest(limit), r.next_offset \in Nat,
           NEW length \in Nat, NEW count \in Readable(r, length)
    PROVE  /\ count \in Nat /\ (count # 0 => r.next_offset + count <= limit)
           /\ IsRun(ReadBytes(r, count), r.next_offset, count)
<1>1. /\ count \in Nat /\ (count # 0 => r.next_offset + count <= limit)
      /\ ReadBytes(r, count) \in Seq(Nat) /\ Len(ReadBytes(r, count)) = count
      /\ \A i \in 1 .. count : ReadBytes(r, count)[i] = r.next_offset + i - 1
    BY HonestBytes, Zenon
<1>2. Run(ReadBytes(r, count), r.next_offset)
    BY <1>1, Zenon DEF Run
<1> QED BY <1>1, <1>2, Zenon DEF IsRun

\* The credit a read gives is an offset.
LEMMA CreditIs ==
    ASSUME NEW m \in Nat, NEW n \in Nat, NEW count \in Nat
    PROVE  Larger(m, n + count + ReceiveWindow) \in Nat
BY ReceiveAssumption DEF Larger

\* poll_read hands out the next bytes, and the end only at the end: after it there is no byte
\* left to read.
LEMMA ReadFlowStep ==
    ASSUME WellOrdered, FlowInv, NEW length \in ReadSizes, ReadFlow(length), UNCHANGED sendVars
    PROVE  FlowInv' /\ recv_error' = recv_error /\ recv_error = "none" /\ (ReadsBytes \/ ReadsEnd)
<1> DEFINE count == ReadLength(rx, length)
<1>1. /\ recv_error = "none" /\ rx' = Read(rx, count)
      /\ count # 0 \/ IsFinished(rx)
      /\ delivered' = delivered \o ReadBytes(rx, count)
      /\ max_receive_offset' = Credit(count)
      /\ UNCHANGED <<received, pending_ack, pending_credit, recv_error, datagrams, data_stream,
                     feedback_stream>>
    BY Zenon DEF ReadFlow, recvLifeVars, channelVars
<1>2. eof' = (eof \/ count = 0)
    BY Zenon DEF ReadFlow
<1>3. /\ Shaped(rx) /\ rx.chunks \in SUBSET Honest(next_send_offset) /\ delivered \in Seq(Nat)
      /\ Run(delivered, 0) /\ rx.next_offset = Len(delivered) /\ next_send_offset \in Nat
      /\ Len(delivered) <= next_send_offset /\ Len(delivered) \in Nat
      /\ rx.final_offset # NoOffset => rx.final_offset = shutdown_target
    BY DEF FlowInv, ReadInv, WriteInv
<1>4. eof \in BOOLEAN /\ (eof => rx.final_offset # NoOffset /\ rx.final_offset = rx.next_offset)
    BY Zenon DEF FlowInv, ReadInv
<1>5. length \in Nat
    BY ReceiveAssumption, Zenon
<1>6. count \in Readable(rx, length)
    BY <1>3, <1>5, ReadCount, Zenon
<1> HIDE DEF count
<1>7. /\ count \in Nat /\ (count # 0 => rx.next_offset + count <= next_send_offset)
      /\ IsRun(ReadBytes(rx, count), Len(delivered), count)
    BY <1>3, <1>5, <1>6, HonestRun, Zenon
<1>8. IsRun(delivered', 0, Len(delivered) + count)
  <2>1. IsRun(delivered, 0, Len(delivered)) /\ 0 + Len(delivered) = Len(delivered)
      BY <1>3, SMTT(30) DEF IsRun
  <2>2. PICK m \in Nat : m = Len(delivered)
      BY <1>3, Zenon
  <2>3. PICK a, b : a = delivered /\ b = ReadBytes(rx, count)
      BY Zenon
  <2>4. IsRun(a, 0, m) /\ IsRun(b, 0 + m, count)
      BY <1>7, <2>1, <2>2, <2>3, Zenon
  <2>5. IsRun(a \o b, 0, m + count)
      BY <1>7, <2>4, RunOn, Zenon
  <2> QED BY <1>1, <2>2, <2>3, <2>5, Zenon
<1>9. /\ Shaped(rx') /\ rx'.chunks \subseteq rx.chunks
      /\ rx'.next_offset = rx.next_offset + count /\ rx'.final_offset = rx.final_offset
    BY <1>1, <1>3, HonestRead, Zenon
<1>10. count # 0 => ~eof
  <2> SUFFICES ASSUME count # 0, eof PROVE FALSE
      BY Zenon
  <2>1. rx.final_offset = Len(delivered) /\ rx.final_offset = shutdown_target
        /\ shutdown_target # NoOffset
      BY <1>3, <1>4, Zenon
  <2>2. shutdown_target = next_send_offset
      BY <2>1, Zenon DEF FlowInv, WriteInv
  <2> QED BY <1>3, <1>7, <2>1, <2>2, SMTT(30)
<1>11. count = 0 => rx.final_offset = rx.next_offset /\ rx.final_offset # NoOffset
  <2>1. count = 0 => rx.final_offset = rx.next_offset
      BY <1>1, Zenon DEF IsFinished
  <2> QED BY <1>3, <2>1, SMTT(30) DEF NoOffset
<1>12. UNCHANGED <<next_send_offset, shutdown_target, peer_max_offset>>
    BY Zenon DEF sendVars, writeVars, targetVars
<1>13. WriteInv' /\ ChunkInv' /\ HoldInv' /\ FlushInv'
    BY <1>1, SenderKept, Zenon
<1>14. AckInv'
  <2>1. max_receive_offset' \in Nat
      BY <1>1, <1>3, <1>7, CreditIs, Zenon DEF Credit, FlowInv, AckInv
  <2> QED BY <1>1, <1>12, <2>1, Zenon DEF FlowInv, AckInv
<1>15. delivered' \in Seq(Nat) /\ Len(delivered') = Len(delivered) + count /\ Run(delivered', 0)
    BY <1>8, Zenon DEF IsRun
<1>16. ReadInv'
  <2>1. rx'.chunks \in SUBSET Honest(next_send_offset)
      BY <1>3, <1>9, Zenon
  <2>2. rx'.next_offset = Len(delivered') /\ Len(delivered') <= next_send_offset
      BY <1>3, <1>7, <1>9, <1>15, SMTT(30)
  <2>3. eof' \in BOOLEAN
      BY <1>2, <1>4, Zenon
  <2>4. eof' => count = 0
      BY <1>2, <1>10, Zenon
  <2>5. eof' => rx'.final_offset # NoOffset /\ rx'.final_offset = rx'.next_offset
    <3>1. count = 0 => rx'.next_offset = rx.next_offset
        BY <1>3, <1>9, SMTT(30)
    <3> QED BY <1>9, <1>11, <2>4, <3>1, Zenon
  <2> QED BY <1>3, <1>9, <1>12, <1>15, <2>1, <2>2, <2>3, <2>5, Zenon DEF ReadInv
<1>17. ReadsBytes \/ ReadsEnd
  <2>1. CASE count # 0
    <3>1. Len(delivered') > Len(delivered)
        BY <1>3, <1>7, <1>15, <2>1, SMTT(30)
    <3>2. ~eof /\ eof' = eof
        BY <1>2, <1>4, <1>10, <2>1, Zenon
    <3> QED BY <3>1, <3>2, Zenon DEF ReadsBytes
  <2>2. CASE count = 0
    <3>1. eof' = TRUE
        BY <1>2, <1>4, <2>2, Zenon
    <3>2. ReadBytes(rx, count) = <<>>
        BY <1>7, <2>2, SMTT(30) DEF IsRun
    <3>3. delivered' = delivered
        BY <1>1, <1>3, <3>2, SMTT(30)
    <3> QED BY <3>1, <3>3, Zenon DEF ReadsEnd
  <2> QED BY <2>1, <2>2, Zenon
<1>18. FlowInv'
    BY <1>13, <1>14, <1>16, Zenon DEF FlowInv
<1> QED BY <1>1, <1>17, <1>18, Zenon

-----------------------------------------------------------------------------
\* What a step of the writer does to the pipe.
Writes ==
    /\ shutdown_target = NoOffset /\ UNCHANGED <<shutdown_target, recvVars>>
    /\ \E length \in Nat : written' = written + length

Closes == shutdown_target = NoOffset /\ UNCHANGED <<written, recvVars>>

\* Every step of the sending half, and what it means for the pipe.
LEMMA SenderStep ==
    ASSUME WellOrdered, FlowInv, SendApplication \/ SendTask \/ DisableDatagrams, UNCHANGED recvVars
    PROVE  FlowInv' /\ (Steady \/ Writes \/ Closes)
<1>1. CASE SendApplication
  <2>1. ASSUME NEW n \in WriteSizes, NEW nodelay \in Nodelays, Write(n, nodelay)
        PROVE  FlowInv' /\ Writes
    <3>1. shutdown_target = NoOffset /\ shutdown_target' = shutdown_target
        BY <2>1, Zenon DEF Write, Usable, targetVars
    <3>2. FlowInv' /\ \E length \in Nat : written' = written + length
        BY <2>1, WriteStep, Zenon
    <3> QED BY <3>1, <3>2, Zenon DEF Writes
  <2>2. CASE Flush
    <3>1. shutdown_target = NoOffset /\ written' = written
        BY <2>2, Zenon DEF Flush, Usable
    <3>2. FlowInv'
        BY <2>2, FlushStep, Zenon
    <3> QED BY <3>1, <3>2, Zenon DEF Closes
  <2>3. CASE Shutdown
    <3>1. shutdown_target = NoOffset /\ written' = written
        BY <2>3, Zenon DEF Shutdown, Usable
    <3>2. FlowInv'
        BY <2>3, ShutdownStep, Zenon
    <3> QED BY <3>1, <3>2, Zenon DEF Closes
  <2>4. CASE RequestReset
      BY <2>4, RequestResetStep, Zenon
  <2>5. CASE DropHandle
      BY <2>5, DropHandleStep, Zenon
  <2> QED BY <1>1, <2>1, <2>2, <2>3, <2>4, <2>5, Zenon DEF SendApplication
<1>2. CASE SendTask
  <2>1. CASE ReceiveFeedback
      BY <2>1, ReceiveFeedbackStep, Zenon
  <2>2. CASE FeedbackEnded
      BY <2>2, FeedbackEndedStep, Zenon
  <2>3. CASE TakeOutbound
      BY <2>3, TakeOutboundStep, Zenon
  <2>4. ASSUME NEW source \in SourcePayloads, ProcessOutbound(source) PROVE FlowInv' /\ Steady
      BY <2>4, ProcessOutboundStep, Zenon
  <2>5. CASE ReplayDue
      BY <2>5, ReplayDueStep, Zenon
  <2>6. CASE PollReplay
      BY <2>6, PollReplayStep, Zenon
  <2>7. CASE QueueTerminalFrames
      BY <2>7, QueueTerminalFramesStep, Zenon
  <2>8. CASE PollWire
      BY <2>8, PollWireStep, Zenon
  <2>9. CASE FinishSend
      BY <2>9, FinishSendStep, Zenon
  <2>10. CASE StopTask
      BY <2>10, StopTaskStep, Zenon
  <2> QED BY <1>2, <2>1, <2>2, <2>3, <2>4, <2>5, <2>6, <2>7, <2>8, <2>9, <2>10, Zenon DEF SendTask
<1>3. CASE DisableDatagrams
    BY <1>3, DisableDatagramsStep, Zenon
<1> QED BY <1>1, <1>2, <1>3, Zenon

\* A read, for the pipe.
Reads == recv_error' = recv_error /\ recv_error = "none" /\ (ReadsBytes \/ ReadsEnd)

\* Every step of the receiving half, and what it means for the pipe.
LEMMA ReceiverStep ==
    ASSUME WellOrdered, FlowInv, ReceiveApplication \/ ReceiveTask \/ Driver, UNCHANGED sendVars
    PROVE  FlowInv' /\ (Silent \/ Reads)
<1>1. ASSUME NEW length \in ReadSizes, ReadFlow(length) PROVE FlowInv' /\ Reads
    BY <1>1, ReadFlowStep, Zenon DEF Reads
<1>2. CASE ResetByReader \/ DropReader
    BY <1>2, ReaderLeavesStep, Zenon
<1>3. ASSUME NEW pressure \in MemoryPressure, ReceiveFrame(pressure) PROVE FlowInv' /\ Silent
    BY <1>3, ReceiveFrameStep, Zenon
<1>4. CASE DataEnded
    BY <1>4, DataEndedStep, Zenon
<1>5. ASSUME NEW ack_due \in BOOLEAN, QueueFeedback(ack_due) PROVE FlowInv' /\ Silent
    BY <1>5, QueueFeedbackStep, Zenon
<1>6. CASE WriteFeedback
    BY <1>6, WriteFeedbackStep, Zenon
<1>7. CASE StopReceive
    BY <1>7, StopReceiveStep, Zenon
<1>8. ASSUME NEW c \in datagrams, NEW pressure \in MemoryPressure,
             DeliverDatagram(c, FALSE, pressure)
      PROVE  FlowInv' /\ Silent
    BY <1>8, DeliverDatagramStep, Zenon
<1> QED BY <1>1, <1>2, <1>3, <1>4, <1>5, <1>6, <1>7, <1>8, Zenon
        DEF ReceiveApplication, ReceiveTask, Driver

\* No step at all.
LEMMA FlowStutters ==
    ASSUME FlowInv, UNCHANGED linkVars
    PROVE  FlowInv' /\ Steady
<1>1. UNCHANGED <<sendVars, recvVars, channelVars>>
    BY Zenon DEF linkVars
<1>2. /\ Steady
      /\ UNCHANGED <<outbound, taken, replay, wire_queue, datagrams, data_stream, flushed_offset,
                     fin_queued, shutdown_done, send_error, send_stopped, peer_max_offset,
                     feedback_stream, phase>>
    BY <1>1, Zenon DEF Steady, sendVars, retainedVars, targetVars, doneVars, lifeVars, taskVars,
       channelVars
<1> QED BY <1>2, QuietStep, Zenon

\* The invariant is inductive.
LEMMA FlowStep ==
    ASSUME WellOrdered, FlowInv, [LinkNext]_linkVars
    PROVE  /\ FlowInv'
           /\ Steady \/ Writes \/ Closes \/ Silent \/ (Reads /\ UNCHANGED sendVars)
<1>1. CASE (SendApplication \/ SendTask \/ DisableDatagrams) /\ UNCHANGED recvVars
    BY <1>1, SenderStep, Zenon
<1>2. CASE (ReceiveApplication \/ ReceiveTask \/ Driver) /\ UNCHANGED sendVars
    BY <1>2, ReceiverStep, Zenon
<1>3. CASE UNCHANGED linkVars
    BY <1>3, FlowStutters, Zenon
<1> QED BY <1>1, <1>2, <1>3, Zenon DEF LinkNext

\* A new flow is an empty pipe.
LEMMA PipeBegins == LinkInit => Pipe!Init
<1> SUFFICES ASSUME LinkInit PROVE Pipe!Init
    BY Zenon
<1>1. /\ written = 0 /\ shutdown_target = NoOffset /\ delivered = <<>> /\ eof = FALSE
      /\ recv_error = "none"
    BY Zenon DEF LinkInit, SendInit, ReceiveInit
<1> QED BY <1>1, Zenon DEF Pipe!Init

\* Every step of a flow is a step of the pipe, or none.
LEMMA PipeStep ==
    ASSUME FlowInv, FlowInv',
           Steady \/ Writes \/ Closes \/ Silent \/ (Reads /\ UNCHANGED sendVars)
    PROVE  [Pipe!Next]_(Pipe!pipeVars)
<1>1. UNCHANGED recvVars => UNCHANGED <<delivered, eof, recv_error>>
    BY Zenon DEF recvVars, readVars, recvLifeVars
<1>2. UNCHANGED sendVars => UNCHANGED <<written, shutdown_target>>
    BY Zenon DEF sendVars, writeVars, targetVars
<1>3. CASE Steady
    BY <1>1, <1>3, Zenon DEF Steady, writeVars, Pipe!pipeVars
<1>4. CASE Writes
  <2>1. PICK length \in Nat : written' = written + length
      BY <1>4, Zenon DEF Writes
  <2>2. written \in Nat
      BY DEF FlowInv, WriteInv
  <2>3. shutdown_target = NoOffset /\ shutdown_target' = shutdown_target
        /\ UNCHANGED <<delivered, eof, recv_error>>
      BY <1>1, <1>4, Zenon DEF Writes
  <2>4. CASE length = 0
      BY <2>1, <2>2, <2>3, <2>4, SMTT(30) DEF Pipe!pipeVars
  <2>5. CASE length # 0
    <3>1. written' > written
        BY <2>1, <2>2, <2>5, SMTT(30)
    <3>2. Pipe!Write
        BY <2>3, <3>1, Zenon DEF Pipe!Write
    <3> QED BY <3>2, Zenon DEF Pipe!Next
  <2> QED BY <2>4, <2>5, Zenon
<1>5. CASE Closes
  <2>1. shutdown_target = NoOffset /\ UNCHANGED <<written, delivered, eof, recv_error>>
      BY <1>1, <1>5, Zenon DEF Closes
  <2>2. CASE shutdown_target' = NoOffset
      BY <2>1, <2>2, Zenon DEF Pipe!pipeVars
  <2>3. CASE shutdown_target' # NoOffset
    <3>1. Pipe!Close
        BY <2>1, <2>3, Zenon DEF Pipe!Close
    <3> QED BY <3>1, Zenon DEF Pipe!Next
  <2> QED BY <2>2, <2>3, Zenon
<1>6. CASE Silent
  <2>1. UNCHANGED <<written, shutdown_target, delivered, eof>>
      BY <1>2, <1>6, Zenon DEF Silent, readVars
  <2>2. recv_error' = "none" => recv_error = "none"
      BY <1>6, Zenon DEF Silent
  <2>3. CASE (recv_error' # "none") = (recv_error # "none")
      BY <2>1, <2>3, Zenon DEF Pipe!pipeVars
  <2>4. CASE recv_error = "none" /\ recv_error' # "none"
    <3>1. Pipe!Break
        BY <2>1, <2>4, Zenon DEF Pipe!Break
    <3> QED BY <3>1, Zenon DEF Pipe!Next
  <2> QED BY <2>2, <2>3, <2>4, Zenon
<1>7. CASE Reads /\ UNCHANGED sendVars
  <2>1. UNCHANGED <<written, shutdown_target, recv_error>> /\ recv_error = "none"
      BY <1>2, <1>7, Zenon DEF Reads
  <2>2. /\ next_send_offset \in Nat /\ Len(send_buffer) \in Nat
        /\ written = next_send_offset + Len(send_buffer)
        /\ shutdown_target # NoOffset => shutdown_target = next_send_offset /\ send_buffer = <<>>
        /\ next_send_offset' = next_send_offset
      BY <1>7 DEF FlowInv, WriteInv, sendVars, writeVars
  <2>3. CASE ReadsBytes
    <3>1. ~eof /\ eof' = eof /\ Len(delivered') > Len(delivered)
        BY <2>3, Zenon DEF ReadsBytes
    <3>2. PICK d : d = delivered'
        BY Zenon
    <3>3. d \in Seq(Nat) /\ Run(d, 0) /\ Len(d) <= next_send_offset
        BY <2>2, <3>2, Zenon DEF FlowInv, ReadInv
    <3>4. Len(d) <= written
        BY <2>2, <3>3
    <3>5. d = [i \in 1 .. Len(d) |-> i - 1]
      <4>1. \A i \in 1 .. Len(d) : d[i] = i - 1
          BY <3>3 DEF Run
      <4>2. d = [i \in 1 .. Len(d) |-> d[i]]
          BY <3>3
      <4> QED BY <4>1, <4>2, Zenon
    <3>6. Pipe!Deliver
        BY <2>1, <3>1, <3>2, <3>4, <3>5, Zenon DEF Pipe!Deliver
    <3> QED BY <3>6, Zenon DEF Pipe!Next
  <2>4. CASE ReadsEnd
    <3>1. eof' = TRUE /\ delivered' = delivered
        BY <2>4, Zenon DEF ReadsEnd
    <3>2. eof \in BOOLEAN
        BY Zenon DEF FlowInv, ReadInv
    <3>3. CASE eof
      <4>1. eof' = eof
          BY <3>1, <3>2, <3>3, Zenon
      <4> QED BY <2>1, <3>1, <4>1, Zenon DEF Pipe!pipeVars
    <3>4. CASE ~eof
      <4>1. rx'.final_offset = shutdown_target /\ shutdown_target # NoOffset
            /\ rx'.final_offset = Len(delivered)
          BY <2>1, <3>1, Zenon DEF FlowInv, ReadInv
      <4>2. Len(delivered) = written
          BY <2>2, <4>1
      <4>3. Pipe!End
          BY <2>1, <3>1, <3>4, <4>1, <4>2, Zenon DEF Pipe!End
      <4> QED BY <4>3, Zenon DEF Pipe!Next
    <3> QED BY <3>3, <3>4, Zenon
  <2> QED BY <1>7, <2>3, <2>4, Zenon DEF Reads
<1> QED BY <1>3, <1>4, <1>5, <1>6, <1>7, Zenon
=============================================================================
