--------------------------- MODULE FlowSendProofs ---------------------------
(***************************************************************************)
(* Proofs about one direction of a flow: the invariant, and that every     *)
(* step of the sending half keeps it.                                      *)
(*                                                                         *)
(* The invariant follows a byte from the handle's buffer to the reader.    *)
(* Every chunk, wherever it is, holds the bytes that were written at its   *)
(* offsets; every report of the receiver, wherever it is, is covered by    *)
(* what the receiver has by now; and every offset below next_send_offset   *)
(* is held by one of the two ends.  That FIN is queued only when the       *)
(* receiver has everything follows from these together, and that a flush   *)
(* is honest from the order in which chunks are sent.                      *)
(***************************************************************************)
EXTENDS FlowLink, TLAPS

-----------------------------------------------------------------------------
\* Any run of bytes, and those of an honest sender below `limit`: the byte at an offset is
\* the one that was written there.
AnyChunk == [offset : Nat, bytes : Seq(Nat)]

Honest(limit) ==
    {c \in AnyChunk : /\ \A i \in 1 .. Len(c.bytes) : c.bytes[i] = c.offset + i - 1
                      /\ c.offset + Len(c.bytes) <= limit}

\* What an honest chunk is made of.
LEMMA HonestFacts ==
    ASSUME NEW limit \in Nat, NEW c \in Honest(limit)
    PROVE  /\ c = Chunk(c.offset, c.bytes) /\ c.offset \in Nat /\ c.bytes \in Seq(Nat)
           /\ EndOf(c) \in Nat /\ EndOf(c) = c.offset + Len(c.bytes)
           /\ c.offset <= EndOf(c) /\ EndOf(c) <= limit
           /\ \A i \in 1 .. Len(c.bytes) : c.bytes[i] = c.offset + i - 1
BY DEF Honest, AnyChunk, EndOf, Chunk

\* Bytes that follow one another from an offset make an honest chunk.
LEMMA HonestMade ==
    ASSUME NEW limit \in Nat, NEW offset \in Nat, NEW bytes \in Seq(Nat),
           \A i \in 1 .. Len(bytes) : bytes[i] = offset + i - 1, offset + Len(bytes) <= limit
    PROVE  Chunk(offset, bytes) \in Honest(limit)
BY Zenon DEF Honest, AnyChunk, Chunk

\* A chunk stays honest when the application writes more.
LEMMA HonestGrows ==
    ASSUME NEW limit \in Nat, NEW more \in Nat, limit <= more
    PROVE  Honest(limit) \subseteq Honest(more)
BY DEF Honest, AnyChunk

\* A part of an honest chunk, as split_at of process_outbound or insert_record cut it, is
\* honest.
LEMMA HonestPart ==
    ASSUME NEW limit \in Nat, NEW c \in Honest(limit), NEW m \in Nat, NEW n \in Nat,
           1 <= m, m <= n + 1, n <= Len(c.bytes)
    PROVE  LET d == Chunk(c.offset + m - 1, SubSeq(c.bytes, m, n))
           IN  d \in Honest(limit) /\ d.offset = c.offset + m - 1 /\ EndOf(d) = c.offset + n
<1>1. PICK o \in Nat, bytes \in Seq(Nat) : c.offset = o /\ c.bytes = bytes
    BY HonestFacts, Zenon
<1>2. PICK len \in Nat : len = Len(bytes)
    OBVIOUS
<1>3. o + len <= limit /\ n <= len /\ \A i \in 1 .. len : bytes[i] = o + i - 1
    BY <1>1, <1>2, HonestFacts, SMTT(30)
<1>4. PICK part : part = SubSeq(bytes, m, n)
    BY Zenon
<1>5. /\ part \in Seq(Nat) /\ Len(part) = n - m + 1
      /\ \A i \in 1 .. Len(part) : part[i] = (o + m - 1) + i - 1
  <2>1. Len(part) = n - m + 1
      BY <1>2, <1>3, <1>4
  <2>2. ASSUME NEW i \in 1 .. Len(part) PROVE part[i] \in Nat /\ part[i] = (o + m - 1) + i - 1
    <3>1. i \in Int /\ 1 <= i /\ i <= n - m + 1
        BY <2>1
    <3> DEFINE j == m + i - 1
    <3>2. part[i] = bytes[j]
        BY <1>2, <1>3, <1>4, <2>1
    <3>3. j \in 1 .. len /\ o + j - 1 = (o + m - 1) + i - 1 /\ o + j - 1 \in Nat
        BY <1>3, <3>1
    <3> HIDE DEF j
    <3>4. bytes[j] = o + j - 1
        BY <1>3, <3>3, Zenon
    <3> QED BY <3>2, <3>3, <3>4, Zenon
  <2>3. part = [i \in 1 .. n - m + 1 |-> bytes[m + i - 1]]
      BY <1>2, <1>3, <1>4
  <2>4. part = [i \in 1 .. Len(part) |-> part[i]]
      BY <2>1, <2>3, Zenon
  <2>5. part \in Seq(Nat)
    <3>1. PICK k \in Nat : k = Len(part)
        BY <2>1
    <3>2. \A i \in 1 .. k : part[i] \in Nat
        BY <2>2, <3>1, Zenon
    <3>3. part = [i \in 1 .. k |-> part[i]]
        BY <2>4, <3>1, Zenon
    <3>4. part \in [1 .. k -> Nat]
        BY <3>2, <3>3, Zenon
    <3> QED BY <3>1, <3>4
  <2>6. \A i \in 1 .. Len(part) : part[i] = (o + m - 1) + i - 1
      BY <2>2, Zenon
  <2> QED BY <2>1, <2>5, <2>6, Zenon
<1>6. o + m - 1 \in Nat /\ (o + m - 1) + Len(part) = o + n /\ o + n <= limit
    BY <1>3, <1>5
<1>7. Chunk(o + m - 1, part) \in Honest(limit)
    BY <1>5, <1>6, HonestMade, Zenon
<1> QED BY <1>1, <1>4, <1>6, <1>7, Zenon DEF EndOf, Chunk

-----------------------------------------------------------------------------
\* The elements of a queue.
Queue(q) == {q[i] : i \in DOMAIN q}

\* A queue keeps its type when the type grows.
LEMMA SeqGrows ==
    ASSUME NEW S, NEW T, S \subseteq T, NEW q \in Seq(S)
    PROVE  q \in Seq(T)
<1>1. PICK n \in Nat : n = Len(q)
    OBVIOUS
<1>2. q \in [1 .. n -> S]
    BY <1>1
<1>3. q \in [1 .. n -> T]
    BY <1>2, Zenon
<1> QED BY <1>1, <1>3

\* p is q with x put before it, and with x put behind it.
AtFront(p, q, x, S) ==
    /\ p \in Seq(S) /\ Len(p) = Len(q) + 1 /\ p[1] = x
    /\ \A i \in 1 .. Len(q) : p[i + 1] = q[i]
    /\ Queue(p) = Queue(q) \cup {x}

AtBack(p, q, x, S) ==
    /\ p \in Seq(S) /\ Len(p) = Len(q) + 1 /\ p[Len(q) + 1] = x
    /\ \A i \in 1 .. Len(q) : p[i] = q[i]
    /\ Queue(p) = Queue(q) \cup {x}

\* push_front of a chunk.
LEMMA Front ==
    ASSUME NEW S, NEW x \in S, NEW q \in Seq(S)
    PROVE  AtFront(<<x>> \o q, q, x, S)
<1>0. PICK p : p = <<x>> \o q
    BY Zenon
<1>1. p \in Seq(S) /\ Len(p) = Len(q) + 1 /\ p[1] = x
    BY <1>0
<1>2. \A i \in 1 .. Len(q) : p[i + 1] = q[i]
    BY <1>0
<1>3. DOMAIN p = 1 .. (Len(q) + 1) /\ DOMAIN q = 1 .. Len(q) /\ Len(q) \in Nat
    BY <1>1
<1>4. ASSUME NEW y \in Queue(p) PROVE y \in Queue(q) \cup {x}
  <2>1. PICK i \in 1 .. (Len(q) + 1) : y = p[i]
      BY <1>3, Zenon DEF Queue
  <2>2. CASE i = 1
      BY <1>1, <2>1, <2>2, Zenon
  <2>3. CASE i # 1
    <3>1. i - 1 \in 1 .. Len(q) /\ p[(i - 1) + 1] = q[i - 1] /\ (i - 1) + 1 = i
        BY <1>2, <1>3, <2>3
    <3> QED BY <1>3, <2>1, <3>1, Zenon DEF Queue
  <2> QED BY <2>2, <2>3, Zenon
<1>5. x \in Queue(p)
    BY <1>1, <1>3 DEF Queue
<1>6. ASSUME NEW y \in Queue(q) PROVE y \in Queue(p)
  <2>1. PICK i \in 1 .. Len(q) : y = q[i]
      BY <1>3, Zenon DEF Queue
  <2>2. i + 1 \in 1 .. (Len(q) + 1) /\ p[i + 1] = q[i]
      BY <1>2, <1>3
  <2> QED BY <1>3, <2>1, <2>2, Zenon DEF Queue
<1>7. Queue(p) = Queue(q) \cup {x}
    BY <1>4, <1>5, <1>6, Zenon
<1> QED BY <1>0, <1>1, <1>2, <1>7, Zenon DEF AtFront

\* push_back of a chunk or a frame.
LEMMA Back ==
    ASSUME NEW S, NEW x \in S, NEW q \in Seq(S)
    PROVE  AtBack(Append(q, x), q, x, S)
<1>0. PICK p : p = Append(q, x)
    BY Zenon
<1>1. p \in Seq(S) /\ Len(p) = Len(q) + 1 /\ p[Len(q) + 1] = x
    BY <1>0
<1>2. \A i \in 1 .. Len(q) : p[i] = q[i]
    BY <1>0
<1>3. DOMAIN p = 1 .. (Len(q) + 1) /\ DOMAIN q = 1 .. Len(q) /\ Len(q) \in Nat
    BY <1>1
<1>4. Queue(p) = Queue(q) \cup {x}
    BY <1>1, <1>2, <1>3 DEF Queue
<1> QED BY <1>0, <1>1, <1>2, <1>4, Zenon DEF AtBack

\* pop_front leaves the rest of the queue.
LEMMA Rest ==
    ASSUME NEW S, NEW q \in Seq(S), q # <<>>
    PROVE  AtFront(q, Tail(q), Head(q), S) /\ Tail(q) \in Seq(S) /\ Head(q) \in S
<1>0. PICK p : p = Tail(q)
    BY Zenon
<1>1. p \in Seq(S) /\ Len(p) = Len(q) - 1 /\ Head(q) \in S /\ Head(q) = q[1]
    BY <1>0
<1>2. \A i \in 1 .. Len(p) : p[i] = q[i + 1]
    BY <1>0
<1>8. Len(q) = Len(p) + 1
    BY <1>1
<1>3. DOMAIN p = 1 .. Len(p) /\ DOMAIN q = 1 .. (Len(p) + 1) /\ Len(p) \in Nat
    BY <1>1
<1>4. ASSUME NEW y \in Queue(q) PROVE y \in Queue(p) \cup {Head(q)}
  <2>1. PICK i \in 1 .. (Len(p) + 1) : y = q[i]
      BY <1>3, Zenon DEF Queue
  <2>2. CASE i = 1
      BY <1>1, <2>1, <2>2, Zenon
  <2>3. CASE i # 1
    <3>1. i - 1 \in 1 .. Len(p) /\ q[(i - 1) + 1] = p[i - 1] /\ (i - 1) + 1 = i
        BY <1>2, <1>3, <2>3
    <3> QED BY <1>3, <2>1, <3>1, Zenon DEF Queue
  <2> QED BY <2>2, <2>3, Zenon
<1>5. Head(q) \in Queue(q)
    BY <1>1, <1>3 DEF Queue
<1>6. ASSUME NEW y \in Queue(p) PROVE y \in Queue(q)
  <2>1. PICK i \in 1 .. Len(p) : y = p[i]
      BY <1>3, Zenon DEF Queue
  <2>2. i + 1 \in 1 .. (Len(p) + 1) /\ p[i] = q[i + 1]
      BY <1>2, <1>3
  <2> QED BY <1>3, <2>1, <2>2, Zenon DEF Queue
<1>7. Queue(q) = Queue(p) \cup {Head(q)}
    BY <1>4, <1>5, <1>6, Zenon
<1> QED BY <1>0, <1>1, <1>2, <1>7, <1>8, Zenon DEF AtFront

-----------------------------------------------------------------------------
\* The frames the sender may write: data of the flow and, once it is shut down, its end.
Frames(limit, target) ==
    {StreamDataFrame(c, FALSE) : c \in Honest(limit)}
      \cup (IF target = NoOffset THEN {} ELSE {FinFrame(target)})

\* A frame stays one when the application writes more or shuts the flow down.
LEMMA FrameGrows ==
    ASSUME NEW limit \in Nat, NEW more \in Nat, limit <= more,
           NEW target, NEW later, target = later \/ target = NoOffset
    PROVE  Frames(limit, target) \subseteq Frames(more, later)
BY HonestGrows, Zenon DEF Frames

\* An honest chunk makes a frame of the flow.
LEMMA DataFrame ==
    ASSUME NEW limit \in Nat, NEW target, NEW c \in Honest(limit)
    PROVE  StreamDataFrame(c, FALSE) \in Frames(limit, target)
BY Zenon DEF Frames

\* And so does FIN at the offset of the shutdown.
LEMMA LastFrame ==
    ASSUME NEW limit \in Nat, NEW target, target # NoOffset
    PROVE  FinFrame(target) \in Frames(limit, target)
BY Zenon DEF Frames

\* What apply_control finds in a frame: an honest chunk without FIN, or FIN at the end.
LEMMA FrameIs ==
    ASSUME NEW limit \in Nat, NEW target, NEW f \in Frames(limit, target)
    PROVE  \/ /\ f.type = "StreamData" /\ f.fin = FALSE
              /\ \E c \in Honest(limit) :
                    c = Chunk(f.offset, f.bytes) /\ EndOf(f) = EndOf(c)
           \/ f.type = "Fin" /\ f.offset = target /\ target # NoOffset
<1>1. CASE \E c \in Honest(limit) : f = StreamDataFrame(c, FALSE)
  <2>1. PICK c \in Honest(limit) : f = StreamDataFrame(c, FALSE)
      BY <1>1, Zenon
  <2>2. f.type = "StreamData" /\ f.fin = FALSE /\ f.offset = c.offset /\ f.bytes = c.bytes
      BY <2>1, Zenon DEF StreamDataFrame
  <2>3. c = Chunk(f.offset, f.bytes) /\ EndOf(f) = EndOf(c)
      BY <2>2, HonestFacts, Zenon DEF EndOf
  <2> QED BY <2>2, <2>3, Zenon
<1>2. CASE target # NoOffset /\ f = FinFrame(target)
    BY <1>2, Zenon DEF FinFrame
<1> QED BY <1>1, <1>2, Zenon DEF Frames

-----------------------------------------------------------------------------
\* The reassembler is a record of its five fields.
Shaped(r) ==
    r = [chunks |-> r.chunks, next_offset |-> r.next_offset,
         acknowledged_offset |-> r.acknowledged_offset,
         final_offset |-> r.final_offset, bytes |-> r.bytes]

-----------------------------------------------------------------------------
\* The ACKs of no more than `ack`, and the frames the receiver may answer with.
Within(ack) == {a \in Ack : Offsets(a) \subseteq Offsets(ack)}

Replies(ack) == {AckFrame(a) : a \in Within(ack)} \cup {MaxOffsetFrame(n) : n \in Nat}

\* What the sender's task finds in an answer.
LEMMA ReplyIs ==
    ASSUME NEW ack, NEW f \in Replies(ack)
    PROVE  \/ f.type = "Ack" /\ Offsets(f) \subseteq Offsets(ack)
           \/ f.type = "MaxOffset" /\ f.offset \in Nat
<1>1. CASE \E a \in Within(ack) : f = AckFrame(a)
  <2>1. PICK a \in Within(ack) : f = AckFrame(a)
      BY <1>1, Zenon
  <2>2. f.type = "Ack" /\ f.contiguous = a.contiguous /\ f.ranges = a.ranges
      BY <2>1, Zenon DEF AckFrame
  <2>3. Offsets(f) = Offsets(a)
      BY <2>2, Zenon DEF Offsets
  <2>4. Offsets(a) \subseteq Offsets(ack)
      BY Zenon DEF Within
  <2> QED BY <2>2, <2>3, <2>4, Zenon
<1>2. CASE \E n \in Nat : f = MaxOffsetFrame(n)
    BY <1>2 DEF MaxOffsetFrame
<1> QED BY <1>1, <1>2, Zenon DEF Replies

-----------------------------------------------------------------------------
\* The bytes written from an offset on.
Run(bytes, offset) == \A i \in 1 .. Len(bytes) : bytes[i] = offset + i - 1

\* The handle: its buffer holds the bytes from next_send_offset on; a flow that is shut down
\* has an empty buffer and ends there.
WriteInv ==
    /\ next_send_offset \in Nat
    /\ send_buffer \in Seq(Nat) /\ Len(send_buffer) <= FlowBuffer
    /\ Run(send_buffer, next_send_offset)
    /\ written = next_send_offset + Len(send_buffer)
    /\ shutdown_target # NoOffset => shutdown_target = next_send_offset /\ send_buffer = <<>>

\* Every chunk and frame of the flow is honest, wherever it is.
ChunkInv ==
    /\ outbound \in Seq(Honest(next_send_offset))
    /\ taken \in Honest(next_send_offset)
    /\ replay \in SUBSET Honest(next_send_offset)
    /\ datagrams \in SUBSET Honest(next_send_offset)
    /\ wire_queue \in Seq(Frames(next_send_offset, shutdown_target))
    /\ data_stream \in Seq(Frames(next_send_offset, shutdown_target))

\* The receiving half: what it buffers is honest, the application has read a prefix of what
\* was written, and the end, once known, is the one the writer fixed.
ReadInv ==
    /\ Shaped(rx) /\ rx.chunks \in SUBSET Honest(next_send_offset)
    /\ delivered \in Seq(Nat) /\ Run(delivered, 0)
    /\ rx.next_offset = Len(delivered) /\ Len(delivered) <= next_send_offset
    /\ rx.final_offset # NoOffset => rx.final_offset = shutdown_target
    /\ eof \in BOOLEAN
    /\ eof => rx.final_offset # NoOffset /\ rx.final_offset = rx.next_offset

\* What the receiver reports, at any stage of its way to the sender, is covered by what it
\* has received by now.
AckInv ==
    /\ received \in Ack /\ SeparateAck(received)
    /\ pending_ack \in Seq(Within(received))
    /\ feedback_stream \in Seq(Replies(received))
    /\ max_receive_offset \in Nat /\ pending_credit \in Nat \cup {NoOffset}
    /\ peer_max_offset \in Nat

\* No byte is in nobody's hands; FIN is queued only when the receiver has everything.
HoldInv ==
    /\ send_error = "none" /\ ~send_stopped =>
           0 .. (next_send_offset - 1) \subseteq SenderHolds \cup Offsets(received)
    /\ phase # "outbound" => taken = NoChunk
    /\ fin_queued => shutdown_target # NoOffset
    /\ fin_queued /\ send_error = "none" =>
           0 .. (next_send_offset - 1) \subseteq Offsets(received)
    /\ shutdown_done => fin_queued

\* The chunks of a queue follow one another.
Ordered(q) == \A i, j \in 1 .. Len(q) : i < j => EndOf(q[i]) <= q[j].offset

\* Everything not sent yet is at or above `floor`, everything sent at or below it.
Above(floor) ==
    /\ \A c \in Queue(outbound) : floor <= c.offset
    /\ phase = "outbound" => floor <= taken.offset

Below(floor) ==
    /\ flushed_offset <= floor
    /\ \A c \in replay : EndOf(c) <= floor
    /\ \A f \in Queue(wire_queue) : f.type = "StreamData" => EndOf(f) <= floor

\* The flow is sent in order: one floor separates what waits from what was sent, and a flush
\* is reported no further than that.
FlushInv ==
    /\ flushed_offset \in Nat
    /\ Ordered(outbound)
    /\ phase = "outbound" => \A c \in Queue(outbound) : EndOf(taken) <= c.offset
    /\ \E floor \in 0 .. next_send_offset : Above(floor) /\ Below(floor)

\* The inductive invariant.
FlowInv == WriteInv /\ ChunkInv /\ ReadInv /\ AckInv /\ HoldInv /\ FlushInv

-----------------------------------------------------------------------------
\* More chunks cover more.
LEMMA CoveredGrows ==
    ASSUME NEW A, NEW B, A \subseteq B
    PROVE  Covered(A) \subseteq Covered(B)
BY Zenon DEF Covered

\* What the sender holds, now and after the step.
LEMMA HoldsIs ==
    /\ SenderHolds = Covered(Queue(outbound) \cup replay \cup {taken})
    /\ SenderHolds' = Covered(Queue(outbound') \cup replay' \cup {taken'})
BY Zenon DEF SenderHolds, Queue, Covered, OffsetsOf, EndOf

\* A step of the writer leaves the receiving half alone.
LEMMA ReadKept ==
    ASSUME WriteInv, ReadInv, next_send_offset' \in Nat, next_send_offset <= next_send_offset',
           shutdown_target' = shutdown_target \/ shutdown_target = NoOffset,
           UNCHANGED <<rx, delivered, eof>>
    PROVE  ReadInv'
<1>1. next_send_offset \in Nat /\ Len(delivered) \in Nat
    BY DEF WriteInv, ReadInv
<1>2. Honest(next_send_offset) \subseteq Honest(next_send_offset')
    BY <1>1, HonestGrows, Zenon
<1> QED BY <1>1, <1>2 DEF ReadInv

\* Chunks and frames on their way stay honest when the writer goes on.
LEMMA ChunksKept ==
    ASSUME WriteInv, ChunkInv, next_send_offset' \in Nat, next_send_offset <= next_send_offset',
           shutdown_target' = shutdown_target \/ shutdown_target = NoOffset,
           outbound' \in Seq(Honest(next_send_offset')),
           UNCHANGED <<taken, replay, datagrams, wire_queue, data_stream>>
    PROVE  ChunkInv'
<1>1. next_send_offset \in Nat
    BY Zenon DEF WriteInv
<1>2. Honest(next_send_offset) \subseteq Honest(next_send_offset')
    BY <1>1, HonestGrows, Zenon
<1>3. Frames(next_send_offset, shutdown_target) \subseteq Frames(next_send_offset',
shutdown_target')
    BY <1>1, FrameGrows, Zenon
<1>4. /\ wire_queue \in Seq(Frames(next_send_offset', shutdown_target'))
      /\ data_stream \in Seq(Frames(next_send_offset', shutdown_target'))
    BY <1>3, SeqGrows, Zenon DEF ChunkInv
<1> QED BY <1>2, <1>4, Zenon DEF ChunkInv

-----------------------------------------------------------------------------
\* What write, flush and shutdown do to the handle is computed on a record: w bytes written,
\* those below h.next queued in order behind what was queued before.
HeldOk(h, w) ==
    /\ h = [buffer |-> h.buffer, outbound |-> h.outbound, bytes |-> h.bytes,
            chunks |-> h.chunks, next |-> h.next]
    /\ h.next \in Nat /\ next_send_offset <= h.next
    /\ h.buffer \in Seq(Nat) /\ Len(h.buffer) <= FlowBuffer /\ Run(h.buffer, h.next)
    /\ w = h.next + Len(h.buffer)
    /\ h.outbound \in Seq(Honest(h.next)) /\ Ordered(h.outbound)
    /\ Queue(outbound) \subseteq Queue(h.outbound)
    /\ next_send_offset .. (h.next - 1) \subseteq Covered(Queue(h.outbound))
    /\ \A c \in Queue(h.outbound) : c \in Queue(outbound) \/ next_send_offset <= c.offset

\* The record of the handle as it is.
LEMMA HeldNow ==
    ASSUME FlowInv
    PROVE  HeldOk(Held, written)
<1>1. Held = [buffer |-> send_buffer, outbound |-> outbound, bytes |-> retained_bytes,
              chunks |-> retained_chunks, next |-> next_send_offset]
    BY Zenon DEF Held
<1>2. Held.buffer = send_buffer /\ Held.outbound = outbound /\ Held.next = next_send_offset
      /\ Held.bytes = retained_bytes /\ Held.chunks = retained_chunks
    BY <1>1, Zenon
<1>3. next_send_offset .. (next_send_offset - 1) = {}
    BY DEF FlowInv, WriteInv
<1> QED BY <1>1, <1>2, <1>3 DEF HeldOk, FlowInv, WriteInv, ChunkInv, FlushInv

\* poll_send_buffer turns the buffer into one more chunk, or changes nothing.
LEMMA HeldPushed ==
    ASSUME NEW h, NEW w, HeldOk(h, w), next_send_offset \in Nat
    PROVE  HeldOk(PollSendBuffer(h), w)
<1>1. CASE PollSendBuffer(h) = h
    BY <1>1, Zenon
<1>2. CASE h.buffer # <<>> /\ PollSendBuffer(h) = Enqueue(h)
  <2> DEFINE c == Chunk(h.next, h.buffer)
  <2>0. PICK end, q : end = h.next + Len(h.buffer) /\ q = Append(h.outbound, c)
      BY Zenon
  <2>1. h.next \in Nat /\ h.buffer \in Seq(Nat) /\ Len(h.buffer) \in Nat /\ end \in Nat
        /\ h.next <= end /\ h.outbound \in Seq(Honest(h.next)) /\ Run(h.buffer, h.next)
        /\ next_send_offset <= h.next /\ h.next + Len(h.buffer) <= end
      BY <2>0 DEF HeldOk
  <2>2. PICK p : p = Enqueue(h)
      BY Zenon
  <2>3. p = [buffer |-> <<>>, outbound |-> q, bytes |-> h.bytes + Len(h.buffer),
             chunks |-> h.chunks + 1, next |-> end]
      BY <2>0, <2>2, Zenon DEF Enqueue
  <2>4. c \in Honest(end) /\ c.offset = h.next /\ OffsetsOf(c) = h.next .. (end - 1)
    <3>1. \A i \in 1 .. Len(h.buffer) : h.buffer[i] = h.next + i - 1
        BY <2>1, ZenonT(60) DEF Run
    <3>2. c \in Honest(end)
        BY <2>1, <3>1, HonestMade, Zenon
    <3> QED BY <2>0, <3>2, Zenon DEF Chunk, OffsetsOf, EndOf
  <2>5. h.outbound \in Seq(Honest(end))
      BY <2>1, HonestGrows, SeqGrows, Zenon
  <2> HIDE DEF c
  <2>6. /\ q \in Seq(Honest(end)) /\ Len(q) = Len(h.outbound) + 1 /\ q[Len(h.outbound) + 1] = c
        /\ \A i \in 1 .. Len(h.outbound) : q[i] = h.outbound[i]
        /\ Queue(q) = Queue(h.outbound) \cup {c}
    BY <2>0, <2>4, <2>5, Back, SMTT(30) DEF AtBack
  <2>7. Ordered(q)
    <3> SUFFICES ASSUME NEW i \in 1 .. Len(q), NEW j \in 1 .. Len(q), i < j
                 PROVE  EndOf(q[i]) <= q[j].offset
        BY Zenon DEF Ordered
    <3>1. Len(h.outbound) \in Nat /\ i \in 1 .. Len(h.outbound)
        BY <2>1, <2>6, SMTT(30)
    <3>2. CASE j = Len(h.outbound) + 1
      <4>1. h.outbound[i] \in Honest(h.next)
          BY <2>1, <3>1, SMTT(30)
      <4>2. EndOf(h.outbound[i]) <= h.next
          BY <2>1, <4>1, HonestFacts, Zenon
      <4> QED BY <2>4, <2>6, <3>1, <3>2, <4>2, Zenon
    <3>3. CASE j \in 1 .. Len(h.outbound)
        BY <2>6, <3>1, <3>3, Zenon DEF HeldOk, Ordered
    <3> QED BY <2>6, <3>1, <3>2, <3>3, SMTT(30)
  <2>8. next_send_offset .. (end - 1) \subseteq Covered(Queue(q))
    <3>1. next_send_offset .. (h.next - 1) \subseteq Covered(Queue(q))
        BY <2>6, CoveredGrows, Zenon DEF HeldOk
    <3>2. h.next .. (end - 1) \subseteq Covered(Queue(q))
        BY <2>4, <2>6, ZenonT(60) DEF Covered
    <3> QED BY <2>1, <3>1, <3>2, SMTT(30)
  <2>9. \A d \in Queue(q) : d \in Queue(outbound) \/ next_send_offset <= d.offset
      BY <2>1, <2>4, <2>6, Zenon DEF HeldOk
  <2>10. Queue(outbound) \subseteq Queue(q)
      BY <2>6, Zenon DEF HeldOk
  <2>11. w = end + Len(<<>>) /\ Len(<<>>) <= FlowBuffer /\ Run(<<>>, end) /\ <<>> \in Seq(Nat)
         /\ next_send_offset <= end
      BY <2>0, <2>1, SendAssumption, SMTT(30) DEF HeldOk, Run
  <2>12. HeldOk(p, w)
      BY <2>1, <2>3, <2>6, <2>7, <2>8, <2>9, <2>10, <2>11, ZenonT(60) DEF HeldOk
  <2> QED BY <1>2, <2>2, <2>12, Zenon
<1> QED BY <1>1, <1>2, Zenon DEF PollSendBuffer

\* `length` bytes written from an offset on.
IsRun(bytes, offset, length) == bytes \in Seq(Nat) /\ Len(bytes) = length /\ Run(bytes, offset)

\* The bytes a write adds.
LEMMA RunMade ==
    ASSUME NEW o \in Nat, NEW length \in Nat
    PROVE  IsRun([i \in 1 .. length |-> o + i - 1], o, length)
<1>1. PICK b : b = [i \in 1 .. length |-> o + i - 1]
    BY Zenon
<1>2. b \in [1 .. length -> Nat]
    BY <1>1, SMTT(30)
<1>3. b \in Seq(Nat) /\ Len(b) = length
    BY <1>2
<1>4. \A i \in 1 .. length : b[i] = o + i - 1
    BY <1>1, Zenon
<1> QED BY <1>1, <1>3, <1>4, Zenon DEF IsRun, Run

\* The length of two runs in a row.
LEMMA Joined ==
    ASSUME NEW a \in Seq(Nat), NEW b \in Seq(Nat)
    PROVE  a \o b \in Seq(Nat) /\ Len(a \o b) = Len(a) + Len(b)
OBVIOUS

\* Two runs in a row are one.
LEMMA RunOn ==
    ASSUME NEW o \in Nat, NEW m \in Nat, NEW n \in Nat, NEW a, NEW b,
           IsRun(a, o, m), IsRun(b, o + m, n)
    PROVE  IsRun(a \o b, o, m + n)
<1>1. /\ a \in Seq(Nat) /\ Len(a) = m /\ \A i \in 1 .. m : a[i] = o + i - 1
      /\ b \in Seq(Nat) /\ Len(b) = n /\ \A i \in 1 .. n : b[i] = (o + m) + i - 1
    BY Zenon DEF IsRun, Run
<1>2. PICK c : c = a \o b
    BY Zenon
<1>3. c \in Seq(Nat) /\ Len(c) = m + n
  <2>1. a \in Seq(Nat) /\ b \in Seq(Nat) /\ Len(a) = m /\ Len(b) = n
      BY <1>1, Zenon
  <2>2. a \o b \in Seq(Nat) /\ Len(a \o b) = Len(a) + Len(b)
      BY <2>1, Joined, Zenon
  <2> QED BY <1>2, <2>1, <2>2, Zenon
<1>4. ASSUME NEW i \in 1 .. m + n PROVE c[i] = o + i - 1
  <2>1. CASE i <= m
    <3>1. c[i] = a[i] /\ i \in 1 .. m
        BY <1>1, <1>2, <2>1, SMTT(30)
    <3> QED BY <1>1, <3>1, Zenon
  <2>2. CASE ~(i <= m)
    <3>1. c[i] = b[i - m]
        BY <1>1, <1>2, <2>2, SMTT(30)
    <3>2. i - m \in 1 .. n /\ (o + m) + (i - m) - 1 = o + i - 1
        BY <2>2
    <3>3. b[i - m] = (o + m) + (i - m) - 1
        BY <1>1, <3>2, Zenon
    <3> QED BY <3>1, <3>2, <3>3, Zenon
  <2> QED BY <2>1, <2>2, Zenon
<1>5. Run(c, o)
    BY <1>3, <1>4, Zenon DEF Run
<1> QED BY <1>2, <1>3, <1>5, Zenon DEF IsRun

\* write appends the bytes it accepts.
LEMMA HeldFilled ==
    ASSUME NEW h, HeldOk(h, written), NEW length \in Nat, Len(h.buffer) + length <= FlowBuffer,
           next_send_offset \in Nat
    PROVE  HeldOk([h EXCEPT !.buffer = @ \o [i \in 1 .. length |-> written + i - 1]],
                  written + length)
<1> DEFINE more == [i \in 1 .. length |-> written + i - 1]
           n == Len(h.buffer)
           filled == h.buffer \o more
<1>1. h.next \in Nat /\ n \in Nat /\ written = h.next + n /\ IsRun(h.buffer, h.next, n)
    BY DEF HeldOk, IsRun
<1>2. IsRun(more, h.next + n, length)
    BY <1>1, RunMade, SMTT(30)
<1> HIDE DEF n, more
<1>3. IsRun(filled, h.next, n + length)
    BY <1>1, <1>2, RunOn, Zenon
<1> HIDE DEF filled
<1>4. filled \in Seq(Nat) /\ Len(filled) <= FlowBuffer /\ Run(filled, h.next)
      /\ written + length = h.next + Len(filled)
    BY <1>1, <1>3 DEF IsRun, n
<1>5. PICK p : p = [h EXCEPT !.buffer = filled]
    BY Zenon
<1>6. p = [buffer |-> filled, outbound |-> h.outbound, bytes |-> h.bytes,
           chunks |-> h.chunks, next |-> h.next]
    BY <1>5, Zenon DEF HeldOk
<1>7. HeldOk(p, written + length)
    BY <1>4, <1>6, Zenon DEF HeldOk
<1> QED BY <1>5, <1>7, Zenon DEF filled, more

\* An offset between two others.
LEMMA Between ==
    ASSUME NEW a \in Nat, NEW b \in Nat, NEW c \in Nat, a <= b, b <= c
    PROVE  a <= c
BY SMTT(30)

\* Leaving the handle with such a record keeps the invariant.
LEMMA HeldLeaves ==
    ASSUME FlowInv, NEW h, NEW w, HeldOk(h, w), Leaves(h), written' = w,
           shutdown_target = NoOffset,
           shutdown_target' = NoOffset \/ (shutdown_target' = h.next /\ h.buffer = <<>>),
           UNCHANGED <<peer_max_offset, doneVars, lifeVars, taskVars, channelVars, recvVars>>
    PROVE  FlowInv'
<1>1. /\ next_send_offset \in Nat /\ next_send_offset' = h.next /\ send_buffer' = h.buffer
      /\ outbound' = h.outbound /\ next_send_offset' \in Nat
      /\ next_send_offset <= next_send_offset' /\ Len(h.buffer) \in Nat
    BY SMTT(30) DEF FlowInv, WriteInv, Leaves, HeldOk
<1>2. /\ outbound' \in Seq(Honest(next_send_offset')) /\ Ordered(outbound')
      /\ Queue(outbound) \subseteq Queue(outbound')
      /\ next_send_offset .. (next_send_offset' - 1) \subseteq Covered(Queue(outbound'))
      /\ \A c \in Queue(outbound') : c \in Queue(outbound) \/ next_send_offset <= c.offset
    BY <1>1, Zenon DEF HeldOk
<1>3. UNCHANGED <<peer_max_offset, flushed_offset, shutdown_done, send_error, send_stopped,
                  replay, wire_queue, fin_queued, phase, taken, datagrams, data_stream,
                  feedback_stream, rx, received, max_receive_offset, pending_ack,
                  pending_credit, delivered, eof>>
    BY ZenonT(60) DEF doneVars, lifeVars, taskVars, channelVars, recvVars, feedbackVars, readVars
<1>4. WriteInv'
    BY <1>1, Zenon DEF WriteInv, HeldOk
<1>5. ChunkInv'
    BY <1>1, <1>2, <1>3, ChunksKept, ZenonT(60) DEF FlowInv
<1>6. ReadInv'
    BY <1>1, <1>3, ReadKept, Zenon DEF FlowInv
<1>7. AckInv'
    BY <1>3, Zenon DEF FlowInv, AckInv
<1>8. HoldInv'
  <2>1. Queue(outbound) \cup replay \cup {taken}
          \subseteq Queue(outbound') \cup replay' \cup {taken'}
      BY <1>2, <1>3, Zenon
  <2>2. SenderHolds \subseteq SenderHolds'
      BY <2>1, CoveredGrows, HoldsIs, Zenon
  <2>3. Covered(Queue(outbound')) \subseteq SenderHolds'
      BY CoveredGrows, HoldsIs, Zenon
  <2>4. ASSUME send_error = "none", ~send_stopped
        PROVE  0 .. (next_send_offset' - 1) \subseteq SenderHolds' \cup Offsets(received)
    <3>1. 0 .. (next_send_offset - 1) \subseteq SenderHolds' \cup Offsets(received)
        BY <2>2, <2>4, Zenon DEF FlowInv, HoldInv
    <3>2. next_send_offset .. (next_send_offset' - 1) \subseteq SenderHolds'
        BY <1>2, <2>3, Zenon
    <3> QED BY <1>1, <3>1, <3>2, SMTT(30)
  <2>5. ~fin_queued /\ ~shutdown_done /\ (phase # "outbound" => taken = NoChunk)
      BY Zenon DEF FlowInv, HoldInv
  <2> QED BY <1>3, <2>4, <2>5, Zenon DEF HoldInv
<1>9. FlushInv'
  <2>1. taken \in Honest(next_send_offset)
      BY Zenon DEF FlowInv, ChunkInv
  <2>2. EndOf(taken) \in Nat /\ EndOf(taken) <= next_send_offset
      BY <1>1, <2>1, HonestFacts, Zenon
  <2>3. ASSUME phase = "outbound", NEW c \in Queue(outbound') PROVE EndOf(taken) <= c.offset
    <3>1. CASE c \in Queue(outbound)
        BY <2>3, <3>1, ZenonT(60) DEF FlowInv, FlushInv
    <3>2. CASE next_send_offset <= c.offset
      <4>1. c \in Honest(next_send_offset')
          BY <1>2, SMTT(30) DEF Queue
      <4>2. c.offset \in Nat
          BY <1>1, <4>1, HonestFacts, ZenonT(60)
      <4> QED BY <1>1, <2>2, <3>2, <4>2, Between, Zenon
    <3> QED BY <1>2, <3>1, <3>2, Zenon
  <2>4. PICK floor \in 0 .. next_send_offset : Above(floor) /\ Below(floor)
      BY Zenon DEF FlowInv, FlushInv
  <2>5. floor \in 0 .. next_send_offset'
      BY <1>1, <2>4, SMTT(30)
  <2>6. Below(floor)'
      BY <1>3, <2>4, Zenon DEF Below
  <2>7. ASSUME NEW c \in Queue(outbound') PROVE floor <= c.offset
    <3>1. CASE c \in Queue(outbound)
        BY <2>4, <3>1, Zenon DEF Above
    <3>2. CASE next_send_offset <= c.offset
      <4>1. c \in Honest(next_send_offset')
          BY <1>2, SMTT(30) DEF Queue
      <4>2. c.offset \in Nat
          BY <1>1, <4>1, HonestFacts, Zenon
      <4> QED BY <1>1, <2>4, <3>2, <4>2, SMTT(30)
    <3> QED BY <1>2, <3>1, <3>2, Zenon
  <2>8. Above(floor)'
      BY <1>3, <2>4, <2>7, Zenon DEF Above
  <2>9. flushed_offset' \in Nat /\ Ordered(outbound')
      BY <1>2, <1>3, ZenonT(60) DEF FlowInv, FlushInv
  <2> QED BY <1>3, <2>3, <2>5, <2>6, <2>8, <2>9, ZenonT(60) DEF FlushInv
<1> QED BY <1>4, <1>5, <1>6, <1>7, <1>8, <1>9, Zenon DEF FlowInv

\* What the buffer accepts fits in it.
LEMMA Room ==
    ASSUME NEW a \in Nat, NEW b \in Nat, a <= b, NEW n \in Nat
    PROVE  Smaller(b - a, n) \in Nat /\ a + Smaller(b - a, n) <= b
BY DEF Smaller

\* write accepts no more than the buffer has room for.
LEMMA AcceptedFits ==
    ASSUME NEW h, NEW w, HeldOk(h, w), NEW n \in WriteSizes, NEW nodelay
    PROVE  /\ Accepted(h, n, nodelay) \in Nat
           /\ Len(h.buffer) + Accepted(h, n, nodelay) <= FlowBuffer
<1>1. Len(h.buffer) \in Nat /\ Len(h.buffer) <= FlowBuffer /\ FlowBuffer \in Nat /\ n \in Nat
    BY SendAssumption DEF HeldOk
<1> DEFINE length == Smaller(FlowBuffer - Len(h.buffer), n)
<1>2. length \in Nat /\ Len(h.buffer) + length <= FlowBuffer
    BY <1>1, Room, Zenon
<1>3. Accepted(h, n, nodelay) \in {0, length}
    BY Zenon DEF Accepted
<1> HIDE DEF length
<1> QED BY <1>1, <1>2, <1>3, SMTT(30)

\* With TCP_NODELAY off, write first pushes what is buffered.
LEMMA PushedOk ==
    ASSUME FlowInv, NEW nodelay
    PROVE  HeldOk(Pushed(nodelay), written)
<1>1. HeldOk(Held, written)
    BY HeldNow, Zenon
<1>2. HeldOk(PollSendBuffer(Held), written)
    BY <1>1, HeldPushed, Zenon DEF FlowInv, WriteInv
<1> QED BY <1>1, <1>2, Zenon DEF Pushed

\* poll_write keeps the invariant.
LEMMA WriteStep ==
    ASSUME FlowInv, NEW n \in WriteSizes, NEW nodelay, Write(n, nodelay), UNCHANGED recvVars
    PROVE  FlowInv' /\ \E length \in Nat : written' = written + length
<1> DEFINE held == Pushed(nodelay)
           length == Accepted(held, n, nodelay)
           filled == [held EXCEPT !.buffer = @ \o [i \in 1 .. length |-> written + i - 1]]
           left == Buffered(held, length, nodelay)
<1>1. HeldOk(held, written)
    BY PushedOk, Zenon
<1>2. /\ Leaves(left) /\ written' = written + length /\ shutdown_target = NoOffset
      /\ UNCHANGED <<peer_max_offset, targetVars, doneVars, lifeVars, taskVars, channelVars>>
    BY Zenon DEF Write, Usable
<1> HIDE DEF held
<1>3. length \in Nat /\ Len(held.buffer) + length <= FlowBuffer
    BY <1>1, AcceptedFits, Zenon
<1> HIDE DEF length
<1>4. left \in {filled, PollSendBuffer(filled)}
    BY Zenon DEF Buffered
<1>5. HeldOk(filled, written + length)
    BY <1>1, <1>3, HeldFilled, Zenon DEF FlowInv, WriteInv
<1> HIDE DEF filled
<1>6. HeldOk(PollSendBuffer(filled), written + length)
    BY <1>5, HeldPushed, Zenon DEF FlowInv, WriteInv
<1>7. HeldOk(left, written + length)
    BY <1>4, <1>5, <1>6, Zenon
<1> HIDE DEF left
<1>8. shutdown_target' = NoOffset
    BY <1>2, Zenon DEF targetVars
<1>9. FlowInv'
    BY <1>2, <1>7, <1>8, HeldLeaves, Zenon
<1> QED BY <1>2, <1>3, <1>9, Zenon

\* poll_flush keeps the invariant.
LEMMA FlushStep ==
    ASSUME FlowInv, Flush, UNCHANGED recvVars
    PROVE  FlowInv'
<1> DEFINE held == PollSendBuffer(Held)
<1>1. HeldOk(held, written)
    BY HeldNow, HeldPushed, Zenon DEF FlowInv, WriteInv
<1>2. /\ Leaves(held) /\ written' = written /\ shutdown_target = NoOffset
      /\ shutdown_target' = NoOffset
      /\ UNCHANGED <<peer_max_offset, doneVars, lifeVars, taskVars, channelVars>>
    BY Zenon DEF Flush, Usable
<1> HIDE DEF held
<1> QED BY <1>1, <1>2, HeldLeaves, Zenon

\* poll_shutdown keeps the invariant: the flow ends where its last byte does.
LEMMA ShutdownStep ==
    ASSUME FlowInv, Shutdown, UNCHANGED recvVars
    PROVE  FlowInv'
<1> DEFINE held == PollSendBuffer(Held)
<1>1. HeldOk(held, written)
    BY HeldNow, HeldPushed, Zenon DEF FlowInv, WriteInv
<1>2. /\ Leaves(held) /\ written' = written /\ shutdown_target = NoOffset
      /\ shutdown_target' = NoOffset \/ (shutdown_target' = held.next /\ held.buffer = <<>>)
      /\ UNCHANGED <<peer_max_offset, doneVars, lifeVars, taskVars, channelVars>>
    BY Zenon DEF Shutdown, Usable
<1> HIDE DEF held
<1> QED BY <1>1, <1>2, HeldLeaves, Zenon

-----------------------------------------------------------------------------
\* A step of the task: neither what was written nor the receiving half changes.
Steady == UNCHANGED <<writeVars, shutdown_target, recvVars>>

\* The variables a step of the task leaves alone.
LEMMA SteadyKeeps ==
    ASSUME Steady
    PROVE  /\ UNCHANGED <<send_buffer, next_send_offset, written, shutdown_target, rx, received,
                          max_receive_offset, pending_ack, pending_credit, delivered, eof>>
BY Zenon DEF Steady, writeVars, recvVars, feedbackVars, readVars

\* Such a step keeps the handle and the receiving half right.
LEMMA SteadyStep ==
    ASSUME FlowInv, Steady
    PROVE  WriteInv' /\ ReadInv'
<1>1. WriteInv'
    BY SteadyKeeps, Zenon DEF FlowInv, WriteInv
<1>2. ReadInv'
    BY SteadyKeeps DEF FlowInv, ReadInv
<1> QED BY <1>1, <1>2, Zenon

\* It keeps the reports right when it only takes one of them.
LEMMA AckStill ==
    ASSUME FlowInv, Steady, peer_max_offset' \in Nat,
           feedback_stream' \in Seq(Replies(received))
    PROVE  AckInv'
BY SteadyKeeps, Zenon DEF FlowInv, AckInv

\* It loses no byte when all that the sender gives up was acknowledged.
LEMMA HoldStill ==
    ASSUME FlowInv, Steady, UNCHANGED <<fin_queued, shutdown_done>>,
           send_error' = "none" => send_error = "none",
           send_error' = "none" /\ ~send_stopped' =>
               ~send_stopped /\ SenderHolds \subseteq SenderHolds' \cup Offsets(received),
           phase' # "outbound" => taken' = NoChunk
    PROVE  HoldInv'
<1>1. UNCHANGED <<next_send_offset, shutdown_target, received, fin_queued, shutdown_done>>
    BY SteadyKeeps, Zenon
<1>2. HoldInv
    BY Zenon DEF FlowInv
<1>3. ASSUME send_error' = "none", ~send_stopped'
      PROVE  0 .. (next_send_offset - 1) \subseteq SenderHolds' \cup Offsets(received)
    BY <1>2, <1>3, Zenon DEF HoldInv
<1> QED BY <1>1, <1>2, <1>3, SMTT(30) DEF HoldInv

\* It keeps the floor when it sends nothing.
LEMMA FlushStill ==
    ASSUME FlowInv, Steady, UNCHANGED <<outbound, taken, flushed_offset>>,
           phase' = "outbound" => phase = "outbound",
           replay' \subseteq replay, Queue(wire_queue') \subseteq Queue(wire_queue)
    PROVE  FlushInv'
<1>1. next_send_offset' = next_send_offset
    BY SteadyKeeps, Zenon
<1>2. PICK floor \in 0 .. next_send_offset : Above(floor) /\ Below(floor)
    BY Zenon DEF FlowInv, FlushInv
<1>3. Above(floor)'
    BY <1>2, Zenon DEF Above
<1>4. Below(floor)'
    BY <1>2, Zenon DEF Below
<1> QED BY <1>1, <1>2, <1>3, <1>4, Zenon DEF FlowInv, FlushInv

\* The task's end drops everything and sets stopped: nothing is promised any more.
LEMMA EndStep ==
    ASSUME FlowInv, NEW error, NEW end, EndTask(error, end), UNCHANGED recvVars,
           error = send_error \/ error # "none",
           feedback_stream' = feedback_stream \/ feedback_stream' = Tail(feedback_stream),
           feedback_stream' # feedback_stream => feedback_stream # <<>>
    PROVE  FlowInv' /\ Steady
<1>1. /\ Steady
      /\ UNCHANGED <<peer_max_offset, flushed_offset, shutdown_done, fin_queued, datagrams,
                     data_stream>>
    BY Zenon DEF EndTask, Steady, targetVars, doneVars
<1>2. /\ send_stopped' = TRUE /\ send_error' = error /\ outbound' = <<>> /\ replay' = {}
      /\ wire_queue' = <<>> /\ phase' = "idle" /\ taken' = NoChunk
    BY Zenon DEF EndTask
<1>3. WriteInv' /\ ReadInv'
    BY <1>1, SteadyStep, Zenon
<1>4. /\ next_send_offset' = next_send_offset /\ shutdown_target' = shutdown_target
      /\ next_send_offset \in Nat
    BY <1>1, SteadyKeeps, Zenon DEF FlowInv, WriteInv
<1>5. ChunkInv'
  <2>1. NoChunk \in Honest(next_send_offset)
      BY <1>4, SMTT(30) DEF NoChunk, Honest, AnyChunk, Chunk
  <2> QED BY <1>1, <1>2, <1>4, <2>1, SMTT(30) DEF FlowInv, ChunkInv
<1>6. AckInv'
  <2>1. feedback_stream' \in Seq(Replies(received))
      BY Rest, Zenon DEF FlowInv, AckInv
  <2> QED BY <1>1, <2>1, AckStill, Zenon DEF FlowInv, AckInv
<1>7. HoldInv'
    BY <1>1, <1>2, HoldStill, Zenon
<1>8. FlushInv'
  <2>1. PICK floor \in 0 .. next_send_offset : Above(floor) /\ Below(floor)
      BY Zenon DEF FlowInv, FlushInv
  <2>2. Queue(outbound') = {} /\ Queue(wire_queue') = {} /\ Ordered(outbound')
      BY <1>2, SMTT(30) DEF Queue, Ordered
  <2>3. Above(floor)' /\ Below(floor)'
      BY <1>1, <1>2, <2>1, <2>2, Zenon DEF Above, Below
  <2> QED BY <1>1, <1>2, <1>4, <2>1, <2>2, <2>3, Zenon DEF FlowInv, FlushInv
<1> QED BY <1>1, <1>3, <1>5, <1>6, <1>7, <1>8, Zenon DEF FlowInv

\* It keeps the chunks honest.
LEMMA ChunkStill ==
    ASSUME FlowInv, Steady,
           outbound' \in Seq(Honest(next_send_offset)), taken' \in Honest(next_send_offset),
           replay' \in SUBSET Honest(next_send_offset),
           datagrams' \in SUBSET Honest(next_send_offset),
           wire_queue' \in Seq(Frames(next_send_offset, shutdown_target)),
           data_stream' \in Seq(Frames(next_send_offset, shutdown_target))
    PROVE  ChunkInv'
BY SteadyKeeps, Zenon DEF ChunkInv

\* A step that moves no chunk keeps the invariant.
LEMMA QuietStep ==
    ASSUME FlowInv, Steady,
           UNCHANGED <<outbound, taken, replay, wire_queue, datagrams, data_stream, flushed_offset,
                       fin_queued, shutdown_done, send_error, send_stopped, peer_max_offset,
                       feedback_stream>>,
           phase' = "outbound" <=> phase = "outbound"
    PROVE  FlowInv'
<1>1. WriteInv' /\ ReadInv'
    BY SteadyStep, Zenon
<1>2. ChunkInv'
    BY ChunkStill, Zenon DEF FlowInv, ChunkInv
<1>3. AckInv'
    BY AckStill, Zenon DEF FlowInv, AckInv
<1>4. SenderHolds' = SenderHolds
    BY HoldsIs, Zenon
<1>5. HoldInv'
    BY <1>4, HoldStill, Zenon DEF FlowInv, HoldInv
<1>6. FlushInv'
    BY FlushStill, Zenon
<1> QED BY <1>1, <1>2, <1>3, <1>5, <1>6, Zenon DEF FlowInv

\* drop_handle.
LEMMA DropHandleStep ==
    ASSUME FlowInv, DropHandle, UNCHANGED recvVars
    PROVE  FlowInv' /\ Steady
<1>1. /\ Steady /\ phase' = phase
      /\ UNCHANGED <<outbound, taken, replay, wire_queue, datagrams, data_stream, flushed_offset,
                     fin_queued, shutdown_done, send_error, send_stopped, peer_max_offset,
                     feedback_stream>>
    BY Zenon DEF DropHandle, Steady, retainedVars, targetVars, doneVars, taskVars, channelVars
<1> QED BY <1>1, QuietStep, Zenon

\* The connection turns DATAGRAMs off.
LEMMA DisableDatagramsStep ==
    ASSUME FlowInv, DisableDatagrams, UNCHANGED recvVars
    PROVE  FlowInv' /\ Steady
<1>1. /\ Steady /\ phase' = phase
      /\ UNCHANGED <<outbound, taken, replay, wire_queue, datagrams, data_stream, flushed_offset,
                     fin_queued, shutdown_done, send_error, send_stopped, peer_max_offset,
                     feedback_stream>>
    BY Zenon DEF DisableDatagrams, Steady, retainedVars, targetVars, doneVars, lifeVars, taskVars,
           channelVars
<1> QED BY <1>1, QuietStep, Zenon

\* The replay timer fires.
LEMMA ReplayDueStep ==
    ASSUME FlowInv, ReplayDue, UNCHANGED recvVars
    PROVE  FlowInv' /\ Steady
<1>1. /\ Steady /\ phase = "idle" /\ phase' = "replay"
      /\ UNCHANGED <<outbound, taken, replay, wire_queue, datagrams, data_stream, flushed_offset,
                     fin_queued, shutdown_done, send_error, send_stopped, peer_max_offset,
                     feedback_stream>>
    BY Zenon DEF ReplayDue, Running, Steady, retainedVars, targetVars, doneVars, lifeVars, channelVars
<1> QED BY <1>1, QuietStep, Zenon

\* request_reset discards what the task has not taken; the error it sets ends the promise.
LEMMA RequestResetStep ==
    ASSUME FlowInv, RequestReset, UNCHANGED recvVars
    PROVE  FlowInv' /\ Steady
<1>1. /\ Steady /\ outbound' = <<>> /\ send_error' = "reset"
      /\ UNCHANGED <<taken, replay, wire_queue, datagrams, data_stream, flushed_offset, phase,
                     fin_queued, shutdown_done, peer_max_offset, feedback_stream>>
    BY Zenon DEF RequestReset, Steady, targetVars, doneVars, taskVars, channelVars
<1>2. WriteInv' /\ ReadInv'
    BY <1>1, SteadyStep, Zenon
<1>3. ChunkInv'
    BY <1>1, ChunkStill, SMTT(30) DEF FlowInv, ChunkInv
<1>4. AckInv'
    BY <1>1, AckStill, Zenon DEF FlowInv, AckInv
<1>5. HoldInv'
    BY <1>1, HoldStill, Zenon DEF FlowInv, HoldInv
<1>6. FlushInv'
  <2>1. PICK floor \in 0 .. next_send_offset : Above(floor) /\ Below(floor)
      BY Zenon DEF FlowInv, FlushInv
  <2>2. Queue(outbound') = {} /\ Ordered(outbound')
      BY <1>1, SMTT(30) DEF Queue, Ordered
  <2>3. Above(floor)' /\ Below(floor)'
      BY <1>1, <2>1, <2>2, Zenon DEF Above, Below
  <2> QED BY <1>1, <2>1, <2>2, <2>3, SteadyKeeps, Zenon DEF FlowInv, FlushInv
<1> QED BY <1>1, <1>2, <1>3, <1>4, <1>5, <1>6, Zenon DEF FlowInv

\* The task obeys a reset or a drop.
LEMMA StopTaskStep ==
    ASSUME FlowInv, StopTask, UNCHANGED recvVars
    PROVE  FlowInv' /\ Steady
<1>1. feedback_stream' = feedback_stream
    BY Zenon DEF StopTask
<1> QED BY <1>1, EndStep, Zenon DEF StopTask

\* The task fails.
LEMMA FailTaskStep ==
    ASSUME FlowInv, NEW violation, FailTask(violation), UNCHANGED recvVars,
           feedback_stream' = feedback_stream \/ feedback_stream' = Tail(feedback_stream),
           feedback_stream' # feedback_stream => feedback_stream # <<>>
    PROVE  FlowInv' /\ Steady
<1> DEFINE error == IF send_error = "none" THEN "failed" ELSE send_error
           end == IF violation THEN "reset" ELSE "finished"
<1>1. EndTask(error, end)
    BY Zenon DEF FailTask
<1>2. error # "none"
    BY Zenon
<1> HIDE DEF error, end
<1> QED BY <1>1, <1>2, EndStep, Zenon

\* acknowledge frees only chunks the receiver has: the ACK was truthful when it was written.
LEMMA ApplyAckStep ==
    ASSUME FlowInv, NEW ack, ApplyAck(ack), Offsets(ack) \subseteq Offsets(received),
           feedback_stream # <<>>, UNCHANGED recvVars
    PROVE  FlowInv' /\ Steady
<1>1. /\ Steady /\ replay' = replay \ Acknowledged(ack)
      /\ feedback_stream' = Tail(feedback_stream)
      /\ UNCHANGED <<outbound, taken, wire_queue, datagrams, data_stream, flushed_offset, phase,
                     fin_queued, shutdown_done, send_error, send_stopped, peer_max_offset>>
    BY Zenon DEF ApplyAck, Steady, targetVars, doneVars, lifeVars
<1>2. WriteInv' /\ ReadInv'
    BY <1>1, SteadyStep, Zenon
<1>3. ChunkInv'
    BY <1>1, ChunkStill, Zenon DEF FlowInv, ChunkInv
<1>4. AckInv'
  <2>1. feedback_stream' \in Seq(Replies(received))
      BY <1>1, Rest, Zenon DEF FlowInv, AckInv
  <2> QED BY <1>1, <2>1, AckStill, Zenon DEF FlowInv, AckInv
<1>5. SenderHolds \subseteq SenderHolds' \cup Offsets(received)
  <2>1. ASSUME NEW o \in SenderHolds PROVE o \in SenderHolds' \cup Offsets(received)
    <3>1. PICK c \in Queue(outbound) \cup replay \cup {taken} : o \in OffsetsOf(c)
        BY <2>1, HoldsIs, Zenon DEF Covered
    <3>2. CASE c \in Acknowledged(ack)
        BY <3>1, <3>2, Zenon DEF Acknowledged
    <3>3. CASE c \notin Acknowledged(ack)
      <4>1. c \in Queue(outbound') \cup replay' \cup {taken'}
          BY <1>1, <3>1, <3>3, Zenon
      <4> QED BY <3>1, <4>1, HoldsIs, Zenon DEF Covered
    <3> QED BY <3>2, <3>3, Zenon
  <2> QED BY <2>1, Zenon
<1>6. HoldInv'
    BY <1>1, <1>5, HoldStill, Zenon DEF FlowInv, HoldInv
<1>7. FlushInv'
    BY <1>1, FlushStill, Zenon
<1> QED BY <1>1, <1>2, <1>3, <1>4, <1>6, <1>7, Zenon DEF FlowInv

\* MAX_OFFSET only raises the credit.
LEMMA ApplyMaxOffsetStep ==
    ASSUME FlowInv, NEW maximum \in Nat, ApplyMaxOffset(maximum), feedback_stream # <<>>,
           UNCHANGED recvVars
    PROVE  FlowInv' /\ Steady
<1>1. /\ Steady /\ peer_max_offset' = maximum /\ feedback_stream' = Tail(feedback_stream)
      /\ UNCHANGED <<outbound, taken, replay, wire_queue, datagrams, data_stream, flushed_offset,
                     phase, fin_queued, shutdown_done, send_error, send_stopped>>
    BY Zenon DEF ApplyMaxOffset, Steady, retainedVars, targetVars, doneVars, lifeVars, taskVars
<1>2. WriteInv' /\ ReadInv'
    BY <1>1, SteadyStep, Zenon
<1>3. ChunkInv'
    BY <1>1, ChunkStill, Zenon DEF FlowInv, ChunkInv
<1>4. AckInv'
  <2>1. feedback_stream' \in Seq(Replies(received))
      BY <1>1, Rest, Zenon DEF FlowInv, AckInv
  <2> QED BY <1>1, <2>1, AckStill, Zenon
<1>5. SenderHolds' = SenderHolds
    BY <1>1, HoldsIs, Zenon
<1>6. HoldInv'
    BY <1>1, <1>5, HoldStill, Zenon DEF FlowInv, HoldInv
<1>7. FlushInv'
    BY <1>1, FlushStill, Zenon
<1> QED BY <1>1, <1>2, <1>3, <1>4, <1>6, <1>7, Zenon DEF FlowInv

\* The task reads a frame of the receiver.
LEMMA ReceiveFeedbackStep ==
    ASSUME FlowInv, ReceiveFeedback, UNCHANGED recvVars
    PROVE  FlowInv' /\ Steady
<1> DEFINE frame == Head(feedback_stream)
<1>1. feedback_stream # <<>>
    BY Zenon DEF ReceiveFeedback
<1>2. frame \in Replies(received)
    BY <1>1, Rest, Zenon DEF FlowInv, AckInv
<1> HIDE DEF frame
<1>3. \/ frame.type = "Ack" /\ Offsets(frame) \subseteq Offsets(received)
      \/ frame.type = "MaxOffset" /\ frame.offset \in Nat
    BY <1>2, ReplyIs, Zenon
<1>4. \/ frame.type = "Ack" /\ ApplyAck(frame)
      \/ frame.type = "MaxOffset" /\ ApplyMaxOffset(frame.offset)
      \/ FailTask(TRUE) /\ feedback_stream' = Tail(feedback_stream)
    BY ZenonT(60) DEF ReceiveFeedback, frame
<1>5. CASE frame.type = "Ack" /\ ApplyAck(frame)
    BY <1>1, <1>3, <1>5, ApplyAckStep, Zenon
<1>6. CASE frame.type = "MaxOffset" /\ ApplyMaxOffset(frame.offset)
    BY <1>1, <1>3, <1>6, ApplyMaxOffsetStep, Zenon
<1>7. CASE FailTask(TRUE) /\ feedback_stream' = Tail(feedback_stream)
    BY <1>1, <1>7, FailTaskStep, Zenon
<1> QED BY <1>4, <1>5, <1>6, <1>7, Zenon

\* The receiver's half of the stream ended.
LEMMA FeedbackEndedStep ==
    ASSUME FlowInv, FeedbackEnded, UNCHANGED recvVars
    PROVE  FlowInv' /\ Steady
<1>1. feedback_stream' = feedback_stream /\ (FailTask(FALSE) \/ FailTask(TRUE))
    BY ZenonT(60) DEF FeedbackEnded
<1> QED BY <1>1, FailTaskStep, Zenon

\* finish_send_if_ready: the end is confirmed after FIN was queued.
LEMMA FinishSendStep ==
    ASSUME FlowInv, FinishSend, UNCHANGED recvVars
    PROVE  FlowInv' /\ Steady
<1>1. /\ Steady /\ fin_queued
      /\ UNCHANGED <<outbound, taken, replay, wire_queue, datagrams, data_stream, flushed_offset,
                     phase, fin_queued, send_error, send_stopped, peer_max_offset,
                     feedback_stream>>
    BY Zenon DEF FinishSend, Steady, retainedVars, targetVars, lifeVars, taskVars, channelVars
<1>2. WriteInv' /\ ReadInv'
    BY <1>1, SteadyStep, Zenon
<1>3. ChunkInv'
    BY <1>1, ChunkStill, Zenon DEF FlowInv, ChunkInv
<1>4. AckInv'
    BY <1>1, AckStill, Zenon DEF FlowInv, AckInv
<1>5. SenderHolds' = SenderHolds
    BY <1>1, HoldsIs, Zenon
<1>6. HoldInv'
    BY <1>1, <1>5, SteadyKeeps, Zenon DEF FlowInv, HoldInv
<1>7. FlushInv'
    BY <1>1, FlushStill, Zenon
<1> QED BY <1>1, <1>2, <1>3, <1>4, <1>6, <1>7, Zenon DEF FlowInv

\* queue_terminal_frames: with nothing queued, retained or in hand the receiver has it all.
LEMMA QueueTerminalFramesStep ==
    ASSUME FlowInv, QueueTerminalFrames, UNCHANGED recvVars
    PROVE  FlowInv' /\ Steady
<1>1. /\ Steady /\ phase = "idle" /\ ~send_stopped /\ shutdown_target # NoOffset /\ outbound = <<>>
      /\ UNCHANGED <<outbound, taken, replay, datagrams, data_stream, flushed_offset,
                     phase, shutdown_done, send_error, send_stopped, peer_max_offset,
                     feedback_stream>>
    BY Zenon DEF QueueTerminalFrames, Running, Steady, retainedVars, targetVars, doneVars,
       lifeVars,
           channelVars
<1>2. CASE replay # {}
  <2>1. UNCHANGED <<wire_queue, fin_queued>>
      BY <1>2, Zenon DEF QueueTerminalFrames
  <2> QED BY <1>1, <2>1, QuietStep, Zenon
<1>3. CASE replay = {}
  <2>1. wire_queue' = Append(wire_queue, FinFrame(shutdown_target)) /\ fin_queued' = TRUE
      BY <1>3, Zenon DEF QueueTerminalFrames
  <2>2. WriteInv' /\ ReadInv'
      BY <1>1, SteadyStep, Zenon
  <2>3. next_send_offset \in Nat
      BY Zenon DEF FlowInv, WriteInv
  <2>4. FinFrame(shutdown_target) \in Frames(next_send_offset, shutdown_target)
      BY <1>1, <2>3, LastFrame, Zenon
  <2>5. AtBack(wire_queue', wire_queue, FinFrame(shutdown_target),
               Frames(next_send_offset, shutdown_target))
      BY <2>1, <2>4, Back, Zenon DEF FlowInv, ChunkInv
  <2>6. ChunkInv'
    <3>1. wire_queue' \in Seq(Frames(next_send_offset, shutdown_target))
        BY <2>5, Zenon DEF AtBack
    <3> QED BY <1>1, <3>1, ChunkStill, Zenon DEF FlowInv, ChunkInv
  <2>7. AckInv'
      BY <1>1, AckStill, Zenon DEF FlowInv, AckInv
  <2>8. HoldInv'
    <3>1. taken = NoChunk
        BY <1>1, Zenon DEF FlowInv, HoldInv
    <3>2. SenderHolds = {}
      <4>1. Queue(outbound) \cup replay \cup {taken} = {NoChunk}
          BY <1>1, <1>3, <3>1, SMTT(30) DEF Queue
      <4>2. OffsetsOf(NoChunk) = {}
          BY SMTT(30) DEF NoChunk, Chunk, OffsetsOf, EndOf
      <4> QED BY <4>1, <4>2, HoldsIs, Zenon DEF Covered
    <3>3. ASSUME send_error = "none" PROVE 0 .. (next_send_offset - 1) \subseteq Offsets(received)
        BY <1>1, <3>2, <3>3, Zenon DEF FlowInv, HoldInv
    <3> QED BY <1>1, <2>1, <3>1, <3>3, SteadyKeeps, Zenon DEF FlowInv, HoldInv
  <2>9. FlushInv'
    <3>1. PICK floor \in 0 .. next_send_offset : Above(floor) /\ Below(floor)
        BY Zenon DEF FlowInv, FlushInv
    <3>2. Queue(wire_queue') = Queue(wire_queue) \cup {FinFrame(shutdown_target)}
        BY <2>5, Zenon DEF AtBack
    <3>3. FinFrame(shutdown_target).type # "StreamData"
        BY Zenon DEF FinFrame
    <3>4. Below(floor)'
        BY <1>1, <3>1, <3>2, <3>3, Zenon DEF Below
    <3>5. Above(floor)'
        BY <1>1, <3>1, Zenon DEF Above
    <3> QED BY <1>1, <3>1, <3>4, <3>5, SteadyKeeps, Zenon DEF FlowInv, FlushInv
  <2> QED BY <1>1, <2>2, <2>6, <2>7, <2>8, <2>9, Zenon DEF FlowInv
<1> QED BY <1>2, <1>3, Zenon

\* poll_wire writes a frame and may raise flushed_offset to its end.
LEMMA PollWireStep ==
    ASSUME FlowInv, PollWire, UNCHANGED recvVars
    PROVE  FlowInv' /\ Steady
<1> DEFINE frame == Head(wire_queue)
           written_ok == /\ data_stream' = Append(data_stream, frame)
                         /\ wire_queue' = Tail(wire_queue)
                         /\ flushed_offset' = IF frame.type = "StreamData"
                                              THEN Larger(flushed_offset, EndOf(frame))
                                              ELSE flushed_offset
                         /\ UNCHANGED <<retainedVars, lifeVars, replay, phase, taken>>
<1>1. /\ Steady /\ wire_queue # <<>>
      /\ UNCHANGED <<datagrams, shutdown_done, fin_queued, peer_max_offset, feedback_stream>>
    BY Zenon DEF PollWire, Steady, targetVars
<1>2. written_ok \/ FailTask(FALSE)
    BY Zenon DEF PollWire
<1>3. CASE FailTask(FALSE)
    BY <1>1, <1>3, FailTaskStep, Zenon
<1>4. CASE written_ok
  <2>1. /\ UNCHANGED <<outbound, send_error, send_stopped, replay, phase, taken>>
        /\ data_stream' = Append(data_stream, frame) /\ wire_queue' = Tail(wire_queue)
        /\ flushed_offset' = IF frame.type = "StreamData" THEN Larger(flushed_offset, EndOf(frame))
                                                          ELSE flushed_offset
      BY <1>4, Zenon DEF retainedVars, lifeVars
  <2> HIDE DEF written_ok, frame
  <2>2. WriteInv' /\ ReadInv' /\ next_send_offset \in Nat
      BY <1>1, SteadyStep, Zenon DEF FlowInv, WriteInv
  <2> DEFINE F == Frames(next_send_offset, shutdown_target)
  <2>3. wire_queue \in Seq(F) /\ data_stream \in Seq(F)
      BY Zenon DEF FlowInv, ChunkInv
  <2> HIDE DEF F
  <2>4. frame \in F /\ wire_queue' \in Seq(F) /\ AtFront(wire_queue, wire_queue', frame, F)
      BY <1>1, <2>1, <2>3, Rest, Zenon DEF frame
  <2>5. data_stream' \in Seq(F)
      BY <2>1, <2>3, <2>4
  <2>6. ChunkInv'
      BY <1>1, <2>1, <2>4, <2>5, ChunkStill, Zenon DEF FlowInv, ChunkInv, F
  <2>7. AckInv'
      BY <1>1, AckStill, Zenon DEF FlowInv, AckInv
  <2>8. SenderHolds' = SenderHolds
      BY <2>1, HoldsIs, Zenon
  <2>9. HoldInv'
      BY <1>1, <2>1, <2>8, HoldStill, Zenon DEF FlowInv, HoldInv
  <2>10. FlushInv'
    <3>1. PICK floor \in 0 .. next_send_offset : Above(floor) /\ Below(floor)
        BY Zenon DEF FlowInv, FlushInv
    <3>2. Queue(wire_queue) = Queue(wire_queue') \cup {frame}
        BY <2>4, Zenon DEF AtFront
    <3>3. flushed_offset \in Nat /\ flushed_offset <= floor
        BY <3>1, Zenon DEF FlowInv, FlushInv, Below
    <3>4. flushed_offset' \in Nat /\ flushed_offset' <= floor
      <4>1. CASE frame.type = "StreamData"
        <5>1. \E c \in Honest(next_send_offset) : EndOf(frame) = EndOf(c)
            BY <2>2, <2>4, <4>1, FrameIs, Zenon DEF F
        <5>2. EndOf(frame) \in Nat
            BY <2>2, <5>1, HonestFacts, Zenon
        <5>3. EndOf(frame) <= floor
            BY <3>1, <3>2, <4>1, Zenon DEF Below
        <5> QED BY <2>1, <3>3, <4>1, <5>2, <5>3, Zenon DEF Larger
      <4>2. CASE frame.type # "StreamData"
          BY <2>1, <3>3, <4>2, Zenon
      <4> QED BY <4>1, <4>2, Zenon
    <3>5. Below(floor)'
        BY <2>1, <3>1, <3>2, <3>4, Zenon DEF Below
    <3>6. Above(floor)'
        BY <2>1, <3>1, Zenon DEF Above
    <3> QED BY <1>1, <2>1, <3>1, <3>4, <3>5, <3>6, SteadyKeeps, Zenon DEF FlowInv, FlushInv
  <2> QED BY <1>1, <2>2, <2>6, <2>7, <2>9, <2>10, Zenon DEF FlowInv
<1> HIDE DEF written_ok, frame
<1> QED BY <1>2, <1>3, <1>4, Zenon

-----------------------------------------------------------------------------
\* Without its first chunk a queue is still in order, and what left is before the rest.
LEMMA OrderedRest ==
    ASSUME NEW S, NEW q, NEW p \in Seq(S), NEW x, AtFront(q, p, x, S), Ordered(q)
    PROVE  Ordered(p) /\ \A c \in Queue(p) : EndOf(x) <= c.offset
<1>1. Len(p) \in Nat /\ Len(q) = Len(p) + 1 /\ q[1] = x /\ \A i \in 1 .. Len(p) : q[i + 1] = p[i]
    BY DEF AtFront
<1>2. ASSUME NEW i \in 1 .. Len(p), NEW j \in 1 .. Len(p), i < j PROVE EndOf(p[i]) <= p[j].offset
  <2>1. i + 1 \in 1 .. Len(q) /\ j + 1 \in 1 .. Len(q) /\ i + 1 < j + 1
      BY <1>1, <1>2
  <2>2. EndOf(q[i + 1]) <= q[j + 1].offset
      BY <2>1, Zenon DEF Ordered
  <2> QED BY <1>1, <2>2, Zenon
<1>3. ASSUME NEW c \in Queue(p) PROVE EndOf(x) <= c.offset
  <2>1. PICK i \in 1 .. Len(p) : c = p[i]
      BY <1>3, SMTT(30) DEF Queue
  <2>2. 1 \in 1 .. Len(q) /\ i + 1 \in 1 .. Len(q) /\ 1 < i + 1
      BY <1>1
  <2>3. EndOf(q[1]) <= q[i + 1].offset
      BY <2>2, Zenon DEF Ordered
  <2> QED BY <1>1, <2>1, <2>3, Zenon
<1> QED BY <1>2, <1>3, Zenon DEF Ordered

\* A chunk before all others can be put in front.
LEMMA OrderedFront ==
    ASSUME NEW S, NEW q, NEW p \in Seq(S), NEW x, AtFront(q, p, x, S), Ordered(p),
           \A c \in Queue(p) : EndOf(x) <= c.offset
    PROVE  Ordered(q)
<1>1. Len(p) \in Nat /\ Len(q) = Len(p) + 1 /\ q[1] = x /\ \A i \in 1 .. Len(p) : q[i + 1] = p[i]
    BY DEF AtFront
<1> SUFFICES ASSUME NEW i \in 1 .. Len(q), NEW j \in 1 .. Len(q),
i < j PROVE EndOf(q[i]) <= q[j].offset
    BY Zenon DEF Ordered
<1>2. j - 1 \in 1 .. Len(p) /\ (j - 1) + 1 = j
    BY <1>1
<1>3. q[j] = p[j - 1]
    BY <1>1, <1>2, Zenon
<1>4. CASE i = 1
  <2>1. p[j - 1] \in Queue(p)
      BY <1>2 DEF Queue
  <2> QED BY <1>1, <1>3, <1>4, <2>1, Zenon
<1>5. CASE i # 1
  <2>1. i - 1 \in 1 .. Len(p) /\ (i - 1) + 1 = i /\ i - 1 < j - 1
      BY <1>1, <1>2, <1>5
  <2>2. q[i] = p[i - 1]
      BY <1>1, <2>1, Zenon
  <2>3. EndOf(p[i - 1]) <= p[j - 1].offset
      BY <1>2, <2>1, Zenon DEF Ordered
  <2> QED BY <1>3, <2>2, <2>3, Zenon
<1> QED BY <1>4, <1>5, Zenon

\* The task takes the first chunk of the queue.
LEMMA TakeOutboundStep ==
    ASSUME FlowInv, TakeOutbound, UNCHANGED recvVars
    PROVE  FlowInv' /\ Steady
<1>1. /\ Steady /\ phase = "idle"
      /\ UNCHANGED <<replay, wire_queue, datagrams, data_stream, flushed_offset, fin_queued,
                     shutdown_done, send_error, send_stopped, peer_max_offset, feedback_stream>>
    BY Zenon DEF TakeOutbound, Running, Steady, targetVars, doneVars, lifeVars, channelVars
<1>2. CASE outbound = <<>>
  <2>1. UNCHANGED <<taken, outbound, phase>>
      BY <1>2, Zenon DEF TakeOutbound
  <2> QED BY <1>1, <2>1, QuietStep, Zenon
<1>3. CASE outbound # <<>>
  <2>1. taken' = Head(outbound) /\ outbound' = Tail(outbound) /\ phase' = "outbound"
      BY <1>3, Zenon DEF TakeOutbound
  <2> DEFINE H == Honest(next_send_offset)
  <2>2. WriteInv' /\ ReadInv'
      BY <1>1, SteadyStep, Zenon
  <2>3. AtFront(outbound, outbound', taken', H) /\ outbound' \in Seq(H) /\ taken' \in H
      BY <1>3, <2>1, Rest, Zenon DEF FlowInv, ChunkInv
  <2>4. ChunkInv'
      BY <1>1, <2>3, ChunkStill, Zenon DEF FlowInv, ChunkInv
  <2> HIDE DEF H
  <2>5. AckInv'
      BY <1>1, AckStill, Zenon DEF FlowInv, AckInv
  <2>6. Queue(outbound) = Queue(outbound') \cup {taken'}
      BY <2>3, Zenon DEF AtFront
  <2>7. HoldInv'
    <3>1. taken = NoChunk /\ OffsetsOf(NoChunk) = {}
        BY <1>1, SMTT(30) DEF FlowInv, HoldInv, NoChunk, Chunk, OffsetsOf, EndOf
    <3>2. SenderHolds \subseteq SenderHolds'
        BY <1>1, <2>6, <3>1, HoldsIs DEF Covered
    <3> QED BY <1>1, <2>1, <3>2, HoldStill, Zenon
  <2>8. FlushInv'
    <3>1. PICK floor \in 0 .. next_send_offset : Above(floor) /\ Below(floor)
        BY Zenon DEF FlowInv, FlushInv
    <3>2. Ordered(outbound') /\ \A c \in Queue(outbound') : EndOf(taken') <= c.offset
        BY <2>3, OrderedRest, Zenon DEF FlowInv, FlushInv
    <3>3. Above(floor)' /\ Below(floor)'
        BY <1>1, <2>6, <3>1, Zenon DEF Above, Below
    <3> QED BY <1>1, <3>1, <3>2, <3>3, SteadyKeeps, Zenon DEF FlowInv, FlushInv
  <2> QED BY <1>1, <2>2, <2>4, <2>5, <2>7, <2>8, Zenon DEF FlowInv
<1> QED BY <1>2, <1>3, Zenon

\* What two and one chunks cover.
LEMMA Two ==
    ASSUME NEW S, NEW x \in S, NEW y \in S, NEW q \in Seq(S)
    PROVE  (<<x>> \o <<y>>) \o q = <<x>> \o (<<y>> \o q)
OBVIOUS

\* The same, for one chunk.
LEMMA One ==
    ASSUME NEW S, NEW x \in S, NEW q \in Seq(S)
    PROVE  (<<x>> \o <<>>) \o q = <<x>> \o q
OBVIOUS

\* The chunk in hand, cut where process_outbound cuts it.
LEMMA TakenParts ==
    ASSUME FlowInv, NEW length \in Nat, length <= Len(taken.bytes)
    PROVE  /\ First(length) \in Honest(next_send_offset) /\ First(length).offset = taken.offset
           /\ EndOf(First(length)) = taken.offset + length
           /\ Remaining(length) \in Honest(next_send_offset)
           /\ Remaining(length).offset = taken.offset + length
           /\ EndOf(Remaining(length)) = EndOf(taken)
           /\ OffsetsOf(taken) = OffsetsOf(First(length)) \cup OffsetsOf(Remaining(length))
           /\ length = Len(taken.bytes) => OffsetsOf(taken) = OffsetsOf(First(length))
<1>1. taken \in Honest(next_send_offset) /\ next_send_offset \in Nat
    BY Zenon DEF FlowInv, WriteInv, ChunkInv
<1>2. PICK o \in Nat, len \in Nat :
          o = taken.offset /\ len = Len(taken.bytes) /\ EndOf(taken) = o + len
    BY <1>1, HonestFacts
<1>3. length <= len
    BY <1>2, Zenon
<1>4. PICK first, rest : first = First(length) /\ rest = Remaining(length)
    BY Zenon
<1>5. first \in Honest(next_send_offset) /\ first.offset = o /\ EndOf(first) = o + length
  <2>1. LET d == Chunk(taken.offset + 1 - 1, SubSeq(taken.bytes, 1, length))
        IN  /\ d \in Honest(next_send_offset) /\ d.offset = taken.offset + 1 - 1
            /\ EndOf(d) = taken.offset + length
      BY <1>1, <1>2, <1>3, HonestPart, SMTT(30)
  <2>2. taken.offset + 1 - 1 = taken.offset
      BY <1>2
  <2>3. first = Chunk(taken.offset, SubSeq(taken.bytes, 1, length))
      BY <1>4, Zenon DEF First
  <2> QED BY <1>2, <2>1, <2>2, <2>3, Zenon
<1>6. rest \in Honest(next_send_offset) /\ rest.offset = o + length /\ EndOf(rest) = o + len
  <2>1. length + 1 \in Nat /\ 1 <= length + 1 /\ length + 1 <= len + 1 /\ len <= len
      BY <1>3, SMTT(30)
  <2>2. LET d == Chunk(taken.offset + (length + 1) - 1, SubSeq(taken.bytes, length + 1, len))
        IN  /\ d \in Honest(next_send_offset) /\ d.offset = taken.offset + (length + 1) - 1
            /\ EndOf(d) = taken.offset + len
      BY <1>1, <1>2, <2>1, HonestPart, SMTT(30)
  <2>3. taken.offset + (length + 1) - 1 = taken.offset + length
      BY <1>2
  <2>4. rest = Chunk(taken.offset + length, SubSeq(taken.bytes, length + 1, len))
      BY <1>2, <1>4, Zenon DEF Remaining
  <2> QED BY <1>2, <2>2, <2>3, <2>4, Zenon
<1>7. OffsetsOf(taken) = o .. (o + len - 1) /\ OffsetsOf(first) = o .. (o + length - 1)
      /\ OffsetsOf(rest) = (o + length) .. (o + len - 1)
    BY <1>2, <1>5, <1>6, SMTT(30) DEF OffsetsOf
<1>8. OffsetsOf(taken) = OffsetsOf(first) \cup OffsetsOf(rest)
    BY <1>3, <1>7, SMTT(30)
<1> QED BY <1>2, <1>4, <1>5, <1>6, <1>7, <1>8, Zenon

\* The front of a queue after push_front.
LEMMA FrontOf ==
    ASSUME FlowInv, NEW c \in Honest(next_send_offset), NEW q \in Seq(Honest(next_send_offset)),
           Ordered(q), \A d \in Queue(q) : EndOf(c) <= d.offset
    PROVE  LET p == <<c>> \o q
           IN  p \in Seq(Honest(next_send_offset)) /\ Ordered(p) /\ Queue(p) = Queue(q) \cup {c}
<1>1. PICK p : p = <<c>> \o q
    BY Zenon
<1>2. AtFront(p, q, c, Honest(next_send_offset))
    BY <1>1, Front, Zenon
<1>3. Ordered(p)
    BY <1>2, OrderedFront, Zenon
<1>4. p \in Seq(Honest(next_send_offset)) /\ Queue(p) = Queue(q) \cup {c}
    BY <1>2, Zenon DEF AtFront
<1> QED BY <1>1, <1>3, <1>4, Zenon

\* The part that is not sent goes back to the front, and the floor may rise to the cut.
LEMMA SplitLeaves ==
    ASSUME FlowInv, phase = "outbound", NEW length \in Nat, length <= Len(taken.bytes),
           Split(length)
    PROVE  /\ outbound' \in Seq(Honest(next_send_offset)) /\ Ordered(outbound')
           /\ Queue(outbound) \subseteq Queue(outbound')
           /\ OffsetsOf(taken) \subseteq OffsetsOf(First(length)) \cup Covered(Queue(outbound'))
           /\ \A d \in Queue(outbound') : taken.offset + length <= d.offset
<1>1. /\ outbound \in Seq(Honest(next_send_offset)) /\ Ordered(outbound)
      /\ \A d \in Queue(outbound) : EndOf(taken) <= d.offset
      /\ taken \in Honest(next_send_offset) /\ next_send_offset \in Nat
    BY Zenon DEF FlowInv, WriteInv, ChunkInv, FlushInv
<1>2. /\ Remaining(length) \in Honest(next_send_offset)
      /\ Remaining(length).offset = taken.offset + length
      /\ EndOf(Remaining(length)) = EndOf(taken)
      /\ OffsetsOf(taken) = OffsetsOf(First(length)) \cup OffsetsOf(Remaining(length))
      /\ length = Len(taken.bytes) => OffsetsOf(taken) = OffsetsOf(First(length))
    BY TakenParts, Zenon
<1>3. /\ taken.offset \in Nat /\ Len(taken.bytes) \in Nat
      /\ EndOf(taken) = taken.offset + Len(taken.bytes)
    BY <1>1, HonestFacts, SMTT(30)
<1>4. \A d \in Queue(outbound) : taken.offset + length <= d.offset
  <2> TAKE d \in Queue(outbound)
  <2>1. d \in Honest(next_send_offset)
      BY <1>1 DEF Queue
  <2>2. d.offset \in Nat /\ EndOf(taken) <= d.offset
      BY <1>1, <2>1, HonestFacts, Zenon
  <2> QED BY <1>3, <2>2, SMTT(30)
<1>5. CASE length < Len(taken.bytes)
  <2>1. outbound' = <<Remaining(length)>> \o outbound
      BY <1>5, Zenon DEF Split
  <2>2. /\ outbound' \in Seq(Honest(next_send_offset)) /\ Ordered(outbound')
        /\ Queue(outbound') = Queue(outbound) \cup {Remaining(length)}
      BY <1>1, <1>2, <2>1, FrontOf, Zenon
  <2>3. OffsetsOf(Remaining(length)) \subseteq Covered(Queue(outbound'))
      BY <2>2, Zenon DEF Covered
  <2>4. taken.offset + length <= Remaining(length).offset
      BY <1>2, <1>3
  <2> QED BY <1>2, <1>4, <2>2, <2>3, <2>4, Zenon
<1>6. CASE ~(length < Len(taken.bytes))
  <2>1. outbound' = outbound
      BY <1>6, Zenon DEF Split
  <2>2. length = Len(taken.bytes)
      BY <1>3, <1>6, SMTT(30)
  <2> QED BY <1>1, <1>2, <1>4, <2>1, <2>2, Zenon
<1> QED BY <1>5, <1>6, Zenon

\* Whatever is done with the first part, the second one is back in the queue.
LEMMA PutStep ==
    ASSUME FlowInv, Steady, phase = "outbound", phase' = "idle", taken' = NoChunk,
           outbound' \in Seq(Honest(next_send_offset)), Ordered(outbound'),
           Queue(outbound) \subseteq Queue(outbound'),
           OffsetsOf(taken) \subseteq Covered(Queue(outbound')),
           \A d \in Queue(outbound') : d \in Queue(outbound) \/ taken.offset <= d.offset,
           UNCHANGED <<replay, wire_queue, datagrams, data_stream, flushed_offset, fin_queued,
                       shutdown_done, send_error, send_stopped, peer_max_offset, feedback_stream>>
    PROVE  FlowInv'
<1>1. WriteInv' /\ ReadInv'
    BY SteadyStep, Zenon
<1>2. next_send_offset \in Nat /\ taken \in Honest(next_send_offset)
    BY Zenon DEF FlowInv, WriteInv, ChunkInv
<1>3. NoChunk \in Honest(next_send_offset)
    BY <1>2, SMTT(30) DEF NoChunk, Honest, AnyChunk, Chunk
<1>4. ChunkInv'
    BY <1>3, ChunkStill, Zenon DEF FlowInv, ChunkInv
<1>5. AckInv'
    BY AckStill, Zenon DEF FlowInv, AckInv
<1>6. SenderHolds \subseteq SenderHolds'
  <2>1. Covered(Queue(outbound) \cup replay) \subseteq SenderHolds'
      BY HoldsIs, CoveredGrows, Zenon
  <2>2. OffsetsOf(taken) \subseteq SenderHolds'
      BY HoldsIs, CoveredGrows, Zenon
  <2>3. SenderHolds = Covered(Queue(outbound) \cup replay) \cup OffsetsOf(taken)
      BY HoldsIs, Zenon DEF Covered
  <2> QED BY <2>1, <2>2, <2>3, Zenon
<1>7. HoldInv'
    BY <1>6, HoldStill, Zenon
<1>8. FlushInv'
  <2>1. PICK floor \in 0 .. next_send_offset : Above(floor) /\ Below(floor)
      BY Zenon DEF FlowInv, FlushInv
  <2>2. \A d \in Queue(outbound') : floor <= d.offset
    <3> TAKE d \in Queue(outbound')
    <3>1. d \in Honest(next_send_offset)
        BY SMTT(30) DEF Queue
    <3>2. d.offset \in Nat /\ taken.offset \in Nat /\ floor \in Nat
        BY <1>2, <2>1, <3>1, HonestFacts, SMTT(30)
    <3>3. CASE d \in Queue(outbound)
        BY <2>1, <3>3, Zenon DEF Above
    <3>4. CASE taken.offset <= d.offset
        BY <2>1, <3>2, <3>4 DEF Above
    <3> QED BY <3>3, <3>4, Zenon
  <2>3. Above(floor)'
      BY <2>2, Zenon DEF Above
  <2>4. Below(floor)'
      BY <2>1, Zenon DEF Below
  <2> QED BY <2>1, <2>3, <2>4, SteadyKeeps, Zenon DEF FlowInv, FlushInv
<1> QED BY <1>1, <1>4, <1>5, <1>7, <1>8, Zenon DEF FlowInv

\* A chunk that was sent, as a DATAGRAM or on the stream, is retained: the floor rises to its
\* end.
LEMMA SentStep ==
    ASSUME FlowInv, Steady, phase = "outbound", phase' = "idle", taken' = NoChunk,
           NEW length \in Nat, length <= Len(taken.bytes), Split(length),
           replay' = replay \cup {First(length)},
           datagrams' \subseteq datagrams \cup {First(length)},
           flushed_offset' \in {flushed_offset, EndOf(First(length))},
           wire_queue' \in {wire_queue, Append(wire_queue, StreamDataFrame(First(length), FALSE))},
           UNCHANGED <<data_stream, fin_queued, shutdown_done, send_error, send_stopped,
                       peer_max_offset, feedback_stream>>
    PROVE  FlowInv'
<1> DEFINE c == First(length)
           f == StreamDataFrame(c, FALSE)
           F == Frames(next_send_offset, shutdown_target)
<1>1. WriteInv' /\ ReadInv'
    BY SteadyStep, Zenon
<1>2. next_send_offset \in Nat /\ taken \in Honest(next_send_offset) /\ wire_queue \in Seq(F)
    BY Zenon DEF FlowInv, WriteInv, ChunkInv
<1>3. NoChunk \in Honest(next_send_offset)
    BY <1>2 DEF NoChunk, Honest, AnyChunk, Chunk
<1>4. c \in Honest(next_send_offset) /\ EndOf(c) = taken.offset + length
    BY TakenParts, Zenon
<1>5. taken.offset \in Nat /\ EndOf(c) \in Nat /\ EndOf(c) <= next_send_offset
    BY <1>2, <1>4, HonestFacts, Zenon
<1>6. /\ outbound' \in Seq(Honest(next_send_offset)) /\ Ordered(outbound')
      /\ Queue(outbound) \subseteq Queue(outbound')
      /\ OffsetsOf(taken) \subseteq OffsetsOf(c) \cup Covered(Queue(outbound'))
      /\ \A d \in Queue(outbound') : EndOf(c) <= d.offset
    BY <1>4, SplitLeaves, Zenon
<1>7. f \in F /\ EndOf(f) = EndOf(c)
  <2>1. f \in F
      BY <1>2, <1>4, DataFrame, Zenon
  <2> QED BY <2>1, Zenon DEF StreamDataFrame, EndOf
<1> HIDE DEF c, f, F
<1>8. wire_queue' \in Seq(F) /\ Queue(wire_queue') \subseteq Queue(wire_queue) \cup {f}
  <2>1. CASE wire_queue' = wire_queue
      BY <1>2, <2>1, Zenon
  <2>2. CASE wire_queue' = Append(wire_queue, f)
    <3>1. AtBack(wire_queue', wire_queue, f, F)
        BY <1>2, <1>7, <2>2, Back, Zenon
    <3> QED BY <3>1, Zenon DEF AtBack
  <2> QED BY <2>1, <2>2, Zenon DEF c, f
<1>9. ChunkInv'
  <2>1. /\ replay' \in SUBSET Honest(next_send_offset)
        /\ datagrams' \in SUBSET Honest(next_send_offset)
      BY <1>4, Zenon DEF FlowInv, ChunkInv, c
  <2> QED BY <1>3, <1>6, <1>8, <2>1, ChunkStill, Zenon DEF FlowInv, ChunkInv, F
<1>10. AckInv'
    BY AckStill, Zenon DEF FlowInv, AckInv
<1>11. SenderHolds \subseteq SenderHolds'
  <2>1. Queue(outbound) \cup replay \subseteq Queue(outbound') \cup replay'
      BY <1>6, Zenon
  <2>2. Covered(Queue(outbound) \cup replay) \subseteq SenderHolds'
      BY <2>1, HoldsIs, CoveredGrows, SMTT(30)
  <2>3. Covered(Queue(outbound')) \subseteq SenderHolds'
      BY HoldsIs, CoveredGrows, Zenon
  <2>4. OffsetsOf(c) \subseteq SenderHolds'
      BY HoldsIs, Zenon DEF Covered, c
  <2>5. SenderHolds = Covered(Queue(outbound) \cup replay) \cup OffsetsOf(taken)
      BY HoldsIs, Zenon DEF Covered
  <2> QED BY <1>6, <2>2, <2>3, <2>4, <2>5, Zenon
<1>12. HoldInv'
    BY <1>11, HoldStill, Zenon
<1>13. FlushInv'
  <2>0. PICK end \in Nat : end = EndOf(c)
      BY <1>5, Zenon
  <2>1. PICK floor \in 0 .. next_send_offset : Above(floor) /\ Below(floor)
      BY Zenon DEF FlowInv, FlushInv
  <2>2. floor \in Nat /\ floor <= EndOf(c)
      BY <1>4, <1>5, <2>1 DEF Above
  <2>3. Above(end)'
      BY <1>6, <2>0, Zenon DEF Above
  <2>4. flushed_offset' \in Nat /\ flushed_offset' <= EndOf(c)
      BY <1>5, <2>1, <2>2, SMTT(30) DEF FlowInv, FlushInv, Below, c
  <2>5. ASSUME NEW d \in replay' PROVE EndOf(d) <= EndOf(c)
    <3>1. CASE d \in replay
      <4>1. d \in Honest(next_send_offset)
          BY <3>1, Zenon DEF FlowInv, ChunkInv
      <4>2. EndOf(d) \in Nat /\ EndOf(d) <= floor
          BY <1>2, <2>1, <3>1, <4>1, HonestFacts, Zenon DEF Below
      <4> QED BY <1>5, <2>2, <4>2, SMTT(30)
    <3>2. CASE d = c
        BY <1>5, <3>2
    <3> QED BY <3>1, <3>2, Zenon DEF c
  <2>6. ASSUME NEW g \in Queue(wire_queue'), g.type = "StreamData" PROVE EndOf(g) <= EndOf(c)
    <3>1. CASE g \in Queue(wire_queue)
      <4>1. g \in F
          BY <1>2, <3>1, SMTT(30) DEF Queue
      <4>2. \E d \in Honest(next_send_offset) : EndOf(g) = EndOf(d)
          BY <1>2, <2>6, <4>1, FrameIs, Zenon DEF F
      <4>3. EndOf(g) \in Nat
          BY <1>2, <4>2, HonestFacts, Zenon
      <4>4. EndOf(g) <= floor
          BY <2>1, <2>6, <3>1, Zenon DEF Below
      <4> QED BY <1>5, <2>2, <4>3, <4>4, SMTT(30)
    <3>2. CASE g = f
        BY <1>5, <1>7, <3>2, SMTT(30)
    <3> QED BY <1>8, <3>1, <3>2, Zenon
  <2>7. Below(end)'
      BY <2>0, <2>4, <2>5, <2>6, Zenon DEF Below
  <2>8. end \in 0 .. next_send_offset
      BY <1>2, <1>5, <2>0, SMTT(30)
  <2> QED BY <1>6, <2>3, <2>4, <2>7, <2>8, SteadyKeeps, Zenon DEF FlushInv
<1> QED BY <1>1, <1>9, <1>10, <1>12, <1>13, Zenon DEF FlowInv

\* Without credit or room the whole chunk goes back.
LEMMA PutBackStep ==
    ASSUME FlowInv, Steady, phase = "outbound", phase' = "idle", taken' = NoChunk, PutBack,
           UNCHANGED <<replay, wire_queue, datagrams, data_stream, flushed_offset, fin_queued,
                       shutdown_done, send_error, send_stopped, peer_max_offset, feedback_stream>>
    PROVE  FlowInv'
<1>1. /\ outbound \in Seq(Honest(next_send_offset)) /\ Ordered(outbound)
      /\ \A d \in Queue(outbound) : EndOf(taken) <= d.offset
      /\ taken \in Honest(next_send_offset) /\ next_send_offset \in Nat
    BY Zenon DEF FlowInv, WriteInv, ChunkInv, FlushInv
<1>2. outbound' = <<taken>> \o outbound
    BY Zenon DEF PutBack
<1>3. /\ outbound' \in Seq(Honest(next_send_offset)) /\ Ordered(outbound')
      /\ Queue(outbound') = Queue(outbound) \cup {taken}
    BY <1>1, <1>2, FrontOf, Zenon
<1>4. OffsetsOf(taken) \subseteq Covered(Queue(outbound'))
    BY <1>3, Zenon DEF Covered
<1>5. taken.offset <= taken.offset
    BY <1>1, HonestFacts
<1>6. \A d \in Queue(outbound') : d \in Queue(outbound) \/ taken.offset <= d.offset
    BY <1>3, <1>5, Zenon
<1> QED BY <1>3, <1>4, <1>6, PutStep, Zenon

\* With the DATAGRAM queue full, both parts go back.
LEMMA QueueFullStep ==
    ASSUME FlowInv, Steady, phase = "outbound", phase' = "idle", taken' = NoChunk,
           NEW length \in Nat, length <= Len(taken.bytes), QueueFull(First(length), length),
           UNCHANGED <<data_stream, fin_queued, shutdown_done, send_error, send_stopped,
                       peer_max_offset, feedback_stream>>
    PROVE  FlowInv'
<1> DEFINE c == First(length)
           r == Remaining(length)
           H == Honest(next_send_offset)
<1>1. UNCHANGED <<replay, wire_queue, datagrams, flushed_offset>>
    BY Zenon DEF QueueFull
<1>2. /\ outbound \in Seq(H) /\ Ordered(outbound)
      /\ \A d \in Queue(outbound) : EndOf(taken) <= d.offset
      /\ taken \in H /\ next_send_offset \in Nat
    BY Zenon DEF FlowInv, WriteInv, ChunkInv, FlushInv
<1>3. /\ c \in H /\ c.offset = taken.offset /\ EndOf(c) = taken.offset + length
      /\ r \in H /\ r.offset = taken.offset + length /\ EndOf(r) = EndOf(taken)
      /\ OffsetsOf(taken) = OffsetsOf(c) \cup OffsetsOf(r)
      /\ length = Len(taken.bytes) => OffsetsOf(taken) = OffsetsOf(c)
    BY TakenParts, Zenon
<1>4. /\ taken.offset \in Nat /\ Len(taken.bytes) \in Nat
      /\ EndOf(taken) = taken.offset + Len(taken.bytes)
  <2>1. /\ taken.offset \in Nat /\ taken.bytes \in Seq(Nat)
        /\ EndOf(taken) = taken.offset + Len(taken.bytes)
      BY <1>2, HonestFacts, Zenon
  <2>2. Len(taken.bytes) \in Nat
      BY <2>1
  <2> QED BY <2>1, <2>2, Zenon
<1>5. \A d \in Queue(outbound) : EndOf(c) <= d.offset
  <2> TAKE d \in Queue(outbound)
  <2>1. d \in H
      BY <1>2 DEF Queue
  <2>2. d.offset \in Nat /\ EndOf(taken) <= d.offset
      BY <1>2, <2>1, HonestFacts, Zenon
  <2> QED BY <1>3, <1>4, <2>2, SMTT(30)
<1>6. CASE length < Len(taken.bytes)
  <2>1. outbound' = (<<c>> \o <<r>>) \o outbound
      BY <1>6, Zenon DEF QueueFull
  <2> HIDE DEF c, r
  <2>2. outbound' = <<c>> \o (<<r>> \o outbound)
      BY <1>2, <1>3, <2>1, Two, SMTT(30)
  <2>3. PICK q : q = <<r>> \o outbound
      BY Zenon
  <2>4. q \in Seq(H) /\ Ordered(q) /\ Queue(q) = Queue(outbound) \cup {r}
      BY <1>2, <1>3, <2>3, FrontOf, Zenon
  <2>5. \A d \in Queue(q) : EndOf(c) <= d.offset
      BY <1>3, <1>4, <1>5, <2>4, SMTT(30)
  <2>6. outbound' \in Seq(H) /\ Ordered(outbound') /\ Queue(outbound') = Queue(q) \cup {c}
      BY <1>3, <2>2, <2>3, <2>4, <2>5, FrontOf, Zenon
  <2>7. OffsetsOf(taken) \subseteq Covered(Queue(outbound'))
      BY <1>3, <2>4, <2>6, Zenon DEF Covered
  <2>8. taken.offset <= c.offset /\ taken.offset <= r.offset
      BY <1>3, <1>4
  <2>9. \A d \in Queue(outbound') : d \in Queue(outbound) \/ taken.offset <= d.offset
      BY <2>4, <2>6, <2>8, Zenon
  <2> QED BY <1>1, <2>4, <2>6, <2>7, <2>9, PutStep, Zenon
<1>7. CASE ~(length < Len(taken.bytes))
  <2>1. outbound' = (<<c>> \o <<>>) \o outbound
      BY <1>7, Zenon DEF QueueFull
  <2> HIDE DEF c, r
  <2>2. outbound' = <<c>> \o outbound
      BY <1>2, <1>3, <2>1, One, Zenon
  <2>3. outbound' \in Seq(H) /\ Ordered(outbound') /\ Queue(outbound') = Queue(outbound) \cup {c}
      BY <1>2, <1>3, <1>5, <2>2, FrontOf, Zenon
  <2>4. length = Len(taken.bytes)
      BY <1>4, <1>7
  <2>5. OffsetsOf(taken) \subseteq Covered(Queue(outbound'))
      BY <1>3, <2>3, <2>4, Zenon DEF Covered
  <2>6. taken.offset <= c.offset
      BY <1>3, <1>4
  <2>7. \A d \in Queue(outbound') : d \in Queue(outbound) \/ taken.offset <= d.offset
      BY <2>3, <2>6, Zenon
  <2> QED BY <1>1, <2>3, <2>5, <2>7, PutStep, Zenon
<1> QED BY <1>6, <1>7, Zenon

\* The length to send is within the chunk.
LEMMA SendLengthFits ==
    ASSUME FlowInv, NEW limit \in Nat, ~(taken.offset >= peer_max_offset)
    PROVE  SendLength(limit) \in Nat /\ SendLength(limit) <= Len(taken.bytes)
<1>1. taken \in Honest(next_send_offset) /\ next_send_offset \in Nat /\ peer_max_offset \in Nat
    BY Zenon DEF FlowInv, WriteInv, ChunkInv, AckInv
<1>2. PICK o \in Nat, len \in Nat : o = taken.offset /\ len = Len(taken.bytes)
    BY <1>1, HonestFacts, SMTT(30)
<1>3. PICK credit \in Nat : credit = peer_max_offset - o
    BY <1>1, <1>2
<1>4. SendLength(limit) = Smaller(Smaller(limit, credit), len)
    BY <1>2, <1>3, Zenon DEF SendLength
<1>5. Smaller(Smaller(limit, credit), len) \in Nat /\ Smaller(Smaller(limit, credit), len) <= len
    BY DEF Smaller
<1> QED BY <1>2, <1>4, <1>5, Zenon

\* process_outbound, in all its outcomes.
LEMMA ProcessOutboundStep ==
    ASSUME FlowInv, NEW source \in SourcePayloads, ProcessOutbound(source), UNCHANGED recvVars
    PROVE  FlowInv' /\ Steady
<1>1. /\ Steady /\ phase = "outbound"
      /\ UNCHANGED <<data_stream, fin_queued, shutdown_done, peer_max_offset, feedback_stream>>
    BY Zenon DEF ProcessOutbound, Steady, targetVars
<1> DEFINE blocked == taken.offset >= peer_max_offset
           settled == /\ phase' = "idle" /\ taken' = NoChunk
                      /\ UNCHANGED <<send_error, send_stopped>>
<1>2. \/ PutBack /\ UNCHANGED <<replay, flushed_offset, wire_queue, datagrams>> /\ settled
      \/ ~blocked /\ SendTaken(source) /\ settled
      \/ FailTask(FALSE)
    BY Zenon DEF ProcessOutbound, lifeVars
<1>3. CASE FailTask(FALSE)
    BY <1>1, <1>3, FailTaskStep, Zenon
<1>4. CASE PutBack /\ UNCHANGED <<replay, flushed_offset, wire_queue, datagrams>> /\ settled
    BY <1>1, <1>4, PutBackStep, Zenon
<1>5. CASE ~blocked /\ SendTaken(source) /\ settled
  <2> DEFINE adaptive == datagram_enabled /\ source # 0
             limit == IF adaptive THEN source ELSE StreamPayload
             length == SendLength(limit)
  <2>1. limit \in Nat
      BY SendAssumption, Zenon
  <2>2. \/ PutBack /\ UNCHANGED <<replay, flushed_offset, wire_queue, datagrams>>
        \/ SendDatagram(First(length), length)
        \/ QueueFull(First(length), length)
        \/ SendReliably(First(length), length)
      BY <1>5, Zenon DEF SendTaken
  <2> HIDE DEF limit
  <2>3. length \in Nat /\ length <= Len(taken.bytes)
      BY <1>5, <2>1, SendLengthFits, Zenon
  <2> HIDE DEF length
  <2>4. CASE PutBack /\ UNCHANGED <<replay, flushed_offset, wire_queue, datagrams>>
      BY <1>1, <1>5, <2>4, PutBackStep, Zenon
  <2>5. CASE QueueFull(First(length), length)
      BY <1>1, <1>5, <2>3, <2>5, QueueFullStep, Zenon
  <2>6. CASE SendDatagram(First(length), length)
    <3>1. /\ Split(length) /\ replay' = replay \cup {First(length)}
          /\ datagrams' = datagrams \cup {First(length)} /\ wire_queue' = wire_queue
          /\ flushed_offset' \in {flushed_offset, EndOf(First(length))}
        BY <2>6, Zenon DEF SendDatagram, Retain
    <3> QED BY <1>1, <1>5, <2>3, <3>1, SentStep, Zenon
  <2>7. CASE SendReliably(First(length), length)
    <3>1. /\ Split(length) /\ replay' = replay \cup {First(length)}
          /\ datagrams' = datagrams /\ flushed_offset' = flushed_offset
          /\ wire_queue' = Append(wire_queue, StreamDataFrame(First(length), FALSE))
        BY <2>7, Zenon DEF SendReliably, Retain
    <3> QED BY <1>1, <1>5, <2>3, <3>1, SentStep, Zenon
  <2> QED BY <2>2, <2>4, <2>5, <2>6, <2>7, Zenon
<1> QED BY <1>2, <1>3, <1>4, <1>5, Zenon

\* A chunk sent again is a retained one: nothing new is in flight.
LEMMA ReplayedStep ==
    ASSUME FlowInv, Steady, NEW c \in replay, phase = "replay", phase' = "idle",
           datagrams' \in {datagrams, datagrams \cup {c}},
           wire_queue' \in {wire_queue, Append(wire_queue, StreamDataFrame(c, FALSE))},
           UNCHANGED <<outbound, taken, replay, data_stream, flushed_offset, fin_queued,
                       shutdown_done, send_error, send_stopped, peer_max_offset, feedback_stream>>
    PROVE  FlowInv'
<1>1. WriteInv' /\ ReadInv' /\ next_send_offset \in Nat
    BY SteadyStep, Zenon DEF FlowInv, WriteInv
<1>2. c \in Honest(next_send_offset)
    BY Zenon DEF FlowInv, ChunkInv
<1> DEFINE F == Frames(next_send_offset, shutdown_target)
<1>3. StreamDataFrame(c, FALSE) \in F /\ wire_queue \in Seq(F)
    BY <1>1, <1>2, DataFrame, Zenon DEF FlowInv, ChunkInv
<1> HIDE DEF F
<1>4. AtBack(Append(wire_queue, StreamDataFrame(c, FALSE)), wire_queue,
             StreamDataFrame(c, FALSE), F)
    BY <1>3, Back, Zenon
<1>5. /\ wire_queue' \in Seq(F)
      /\ Queue(wire_queue') \subseteq Queue(wire_queue) \cup {StreamDataFrame(c, FALSE)}
    BY <1>3, <1>4, Zenon DEF AtBack
<1>6. ChunkInv'
    BY <1>2, <1>5, ChunkStill, Zenon DEF FlowInv, ChunkInv, F
<1>7. AckInv'
    BY AckStill, Zenon DEF FlowInv, AckInv
<1>8. SenderHolds' = SenderHolds
    BY HoldsIs, Zenon
<1>9. HoldInv'
    BY <1>8, HoldStill, Zenon DEF FlowInv, HoldInv
<1>10. FlushInv'
  <2>1. PICK floor \in 0 .. next_send_offset : Above(floor) /\ Below(floor)
      BY Zenon DEF FlowInv, FlushInv
  <2>2. EndOf(StreamDataFrame(c, FALSE)) = EndOf(c)
      BY Zenon DEF EndOf, StreamDataFrame
  <2>3. EndOf(StreamDataFrame(c, FALSE)) <= floor
      BY <2>1, <2>2, Zenon DEF Below
  <2>4. Below(floor)'
      BY <1>5, <2>1, <2>3, Zenon DEF Below
  <2>5. Above(floor)'
      BY <2>1, Zenon DEF Above
  <2> QED BY <2>1, <2>4, <2>5, SteadyKeeps, Zenon DEF FlowInv, FlushInv
<1> QED BY <1>1, <1>6, <1>7, <1>9, <1>10, Zenon DEF FlowInv
=============================================================================
