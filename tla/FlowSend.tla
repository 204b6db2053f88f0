------------------------------ MODULE FlowSend ------------------------------
(***************************************************************************)
(* The sending half of a QUICP flow (src/src/flow.rs): the application's   *)
(* calls on FlowShared, and the parts of FlowTask that move bytes from     *)
(* `outbound` through DATAGRAMs, replay and the reliable fallback until    *)
(* the peer's logical ACK releases them.                                   *)
(*                                                                         *)
(* The application and the task share FlowShared under one mutex.  The     *)
(* task releases it inside process_outbound while it holds a chunk it      *)
(* popped (`taken`), and inside poll_replay between its check of the       *)
(* connection's DATAGRAM switch and its use: `phase` marks those points.   *)
(* Timers fire at any time after they are armed; wakers are left out.      *)
(***************************************************************************)
EXTENDS FlowChannel, Ranges, FiniteSetsExt

CONSTANTS
    ReplayLimit,       \* replay_buffer_bytes: bytes a flow may retain
    ReplayChunkLimit,  \* replay_chunk_limit: chunks a flow may retain
    SourcePayloads,    \* values max_source_payload takes as the path MTU moves
    StreamPayload,     \* max_stream_payload
    AdaptiveModes,     \* values of RecoveryConfig::require_adaptive
    MaxAckRanges,      \* negotiated max_ack_ranges
    FlowBuffer,        \* flow_buffer_bytes: bytes of the handle's send_buffer
    Nodelays,          \* values of nodelay the application sets
    WriteSizes,        \* sizes of the application's writes
    TotalBytes,        \* bound on the bytes a run writes
    Events             \* what a run lets happen beside writes, loss and reordering

ASSUME SendAssumption ==
    /\ ReplayLimit \in Nat \ {0} /\ ReplayChunkLimit \in Nat \ {0}
    /\ SourcePayloads \subseteq Nat /\ StreamPayload \in Nat \ {0}
    /\ AdaptiveModes \subseteq BOOLEAN /\ MaxAckRanges \in Nat \ {0}
    /\ FlowBuffer \in Nat \ {0} /\ Nodelays \subseteq BOOLEAN
    /\ WriteSizes \subseteq Nat \ {0} /\ TotalBytes \in Nat
    /\ Events \subseteq {"flush", "reset", "drop", "disable", "full"}

VARIABLES
    \* QuicpFlow
    send_buffer,
    \* FlowShared
    outbound, retained_bytes, retained_chunks, next_send_offset,
    peer_max_offset, flush_target, flushed_offset,
    shutdown_target, shutdown_done,
    send_error,     \* error: "none", "reset" (locally_reset) or "failed"
    send_dropped,   \* handle_dropped
    send_stopped,   \* task_stopped
    \* FlowTask
    replay, wire_queue, datagram_enabled, replay_stage, replay_cursor,
    replay_timer,   \* whether the timer is armed
    fin_queued, phase, taken,
    \* ConnectionRecovery: datagram_enabled and config.require_adaptive
    connection_datagrams, adaptive_required,
    \* history: the bytes the application wrote so far
    written

retainedVars == <<outbound, retained_bytes, retained_chunks>>
writeVars == <<send_buffer, next_send_offset, written>>
targetVars == <<flush_target, shutdown_target>>
doneVars == <<flushed_offset, shutdown_done>>
lifeVars == <<send_error, send_dropped, send_stopped>>
ladderVars == <<replay_stage, replay_cursor, replay_timer>>
taskVars == <<replay, wire_queue, datagram_enabled, ladderVars, fin_queued, phase, taken>>

connectionVars == <<connection_datagrams, adaptive_required>>

sendVars == <<retainedVars, writeVars, peer_max_offset, targetVars, doneVars,
              lifeVars, taskVars, connectionVars>>

NoChunk == Chunk(0, <<>>)
ChunkBytes(chunks) == MapThenSumSet(LAMBDA c : Len(c.bytes), chunks)
QueuedBytes(queue) == MapThenSumSet(LAMBDA i : Len(queue[i].bytes), DOMAIN queue)

SendInit ==
    /\ outbound = <<>> /\ retained_bytes = 0 /\ retained_chunks = 0
    /\ send_buffer = <<>>
    /\ next_send_offset = 0 /\ written = 0 /\ peer_max_offset = 0
    /\ flush_target = NoOffset /\ flushed_offset = 0
    /\ shutdown_target = NoOffset /\ shutdown_done = FALSE
    /\ send_error = "none" /\ send_dropped = FALSE /\ send_stopped = FALSE
    /\ replay = {} /\ wire_queue = <<>>
    /\ datagram_enabled = TRUE /\ connection_datagrams = TRUE
    /\ adaptive_required \in AdaptiveModes
    /\ replay_stage = "Repair" /\ replay_cursor = NoOffset /\ replay_timer = FALSE
    /\ fin_queued = FALSE /\ phase = "idle" /\ taken = NoChunk
-----------------------------------------------------------------------------
(***************************************************************************)
(* The application's calls.  It writes, flushes and shuts down a flow that *)
(* it has neither dropped nor shut down and that has not failed.           *)
(***************************************************************************)

\* What poll_write, poll_flush and poll_shutdown work on.
Held == [buffer |-> send_buffer, outbound |-> outbound, bytes |-> retained_bytes,
         chunks |-> retained_chunks, next |-> next_send_offset]

\* enqueue_ready: pending while the bytes or the chunks the flow retains are at
\* their limit.
EnqueueReady(held, n) ==
    held.bytes + n <= ReplayLimit /\ held.chunks < ReplayChunkLimit

\* enqueue: the buffer becomes one chunk of the flow.
Enqueue(held) ==
    [buffer |-> <<>>, outbound |-> Append(held.outbound, Chunk(held.next, held.buffer)),
     bytes |-> held.bytes + Len(held.buffer), chunks |-> held.chunks + 1,
     next |-> held.next + Len(held.buffer)]

\* poll_send_buffer: a buffer the flow has no room for stays where it is.
PollSendBuffer(held) ==
    IF held.buffer # <<>> /\ EnqueueReady(held, Len(held.buffer))
    THEN Enqueue(held) ELSE held

\* poll_buffered_write: how many of n bytes it accepts (0 is Pending), after it
\* pushed what the buffer held before, and what it leaves behind.  A chunk that
\* cannot be pushed at once is accepted all the same.
Pushed(nodelay) ==
    IF (nodelay /\ send_buffer # <<>>) \/ Len(send_buffer) = FlowBuffer
    THEN PollSendBuffer(Held) ELSE Held
Accepted(held, n, nodelay) ==
    LET length == Smaller(FlowBuffer - Len(held.buffer), n)
    IN  IF \/ nodelay /\ held.buffer # <<>>
           \/ Len(held.buffer) = FlowBuffer
           \/ /\ ~nodelay /\ Len(held.buffer) + length = FlowBuffer
              /\ ~EnqueueReady(held, FlowBuffer)
        THEN 0 ELSE length
Buffered(held, length, nodelay) ==
    LET filled == [held EXCEPT !.buffer = @ \o [i \in 1 .. length |-> written + i - 1]]
    IN  IF length # 0 /\ (nodelay \/ Len(filled.buffer) = FlowBuffer)
        THEN PollSendBuffer(filled) ELSE filled

Leaves(held) ==
    /\ send_buffer' = held.buffer /\ outbound' = held.outbound
    /\ retained_bytes' = held.bytes /\ retained_chunks' = held.chunks
    /\ next_send_offset' = held.next

Usable == ~send_dropped /\ send_error = "none" /\ shutdown_target = NoOffset

Write(n, nodelay) ==
    LET held == Pushed(nodelay)
        length == Accepted(held, n, nodelay)
    IN  /\ Usable
        /\ written + n <= TotalBytes
        /\ Leaves(Buffered(held, length, nodelay))
        /\ written' = written + length
        /\ UNCHANGED <<peer_max_offset, targetVars, doneVars, lifeVars, taskVars,
                       connectionVars, channelVars>>

\* Bug: a flush is complete when the buffer is queued.
FlushAtOnce ==
    LET held == PollSendBuffer(Held)
    IN  /\ "flush" \in Events
        /\ Usable
        /\ Leaves(held)
        /\ flush_target' = held.next /\ flushed_offset' = held.next
        /\ UNCHANGED <<written, peer_max_offset, shutdown_target, shutdown_done, lifeVars,
                       taskVars, connectionVars, channelVars>>

\* poll_flush: request_flush, once the buffer is pushed.  The target only grows
\* and is never cleared.
Flush ==
    LET held == PollSendBuffer(Held)
    IN  /\ "flush" \in Events
        /\ Usable
        /\ Leaves(held)
        /\ flush_target' = IF held.buffer = <<>> THEN Larger(flush_target, held.next)
                                                ELSE flush_target
        /\ UNCHANGED <<written, peer_max_offset, shutdown_target, doneVars, lifeVars,
                       taskVars, connectionVars, channelVars>>

\* poll_shutdown: request_shutdown, once the buffer is pushed; the first call
\* fixes the final offset.
Shutdown ==
    LET held == PollSendBuffer(Held)
    IN  /\ Usable
        /\ Leaves(held)
        /\ shutdown_target' = IF held.buffer = <<>> THEN held.next ELSE NoOffset
        /\ UNCHANGED <<written, peer_max_offset, flush_target, doneVars, lifeVars,
                       taskVars, connectionVars, channelVars>>

\* request_reset discards what the task has not taken; the task acts on the
\* reset when it is next polled.
RequestReset ==
    /\ "reset" \in Events
    /\ ~send_dropped /\ ~send_stopped /\ send_error = "none"
    /\ send_error' = "reset"
    /\ retained_bytes' = retained_bytes - QueuedBytes(outbound)
    /\ retained_chunks' = retained_chunks - Len(outbound)
    /\ outbound' = <<>>
    /\ UNCHANGED <<writeVars, peer_max_offset, targetVars, doneVars, send_dropped,
                   send_stopped, taskVars, connectionVars, channelVars>>

\* drop_handle.  Once the task ended, or was told to, a drop changes nothing more.
DropHandle ==
    /\ "drop" \in Events
    /\ ~send_dropped /\ ~send_stopped /\ send_error = "none"
    /\ send_dropped' = TRUE
    /\ UNCHANGED <<retainedVars, writeVars, peer_max_offset, targetVars, doneVars,
                   send_error, send_stopped, taskVars, connectionVars, channelVars>>
-----------------------------------------------------------------------------
(***************************************************************************)
(* The end of the task.  Dropping a FlowTask discards what it retains;     *)
(* dropping its streams finishes the one and stops the other, unless they  *)
(* were reset before.                                                      *)
(***************************************************************************)
EndTask(error, end) ==
    /\ send_stopped' = TRUE
    /\ send_error' = error
    /\ data_end' = end
    /\ feedback_stopped' = TRUE
    /\ outbound' = <<>> /\ retained_bytes' = 0 /\ retained_chunks' = 0
    /\ replay' = {} /\ wire_queue' = <<>> /\ replay_timer' = FALSE
    /\ phase' = "idle" /\ taken' = NoChunk
    /\ UNCHANGED <<writeVars, peer_max_offset, targetVars, doneVars, send_dropped,
                   replay_stage, replay_cursor, fin_queued, connectionVars,
                   datagrams, data_stream, data_stopped, feedback_end>>

\* fail_task: a protocol violation resets the stream, any other error drops it.
FailTask(violation) ==
    /\ EndTask(IF send_error = "none" THEN "failed" ELSE send_error,
               IF violation THEN "reset" ELSE "finished")
    /\ UNCHANGED datagram_enabled

\* FlowTask::poll sees a requested reset or a dropped handle before anything else.
StopTask ==
    /\ ~send_stopped /\ phase = "idle"
    /\ send_error = "reset" \/ send_dropped
    /\ EndTask(send_error, IF send_error = "reset" THEN "reset" ELSE "finished")
    /\ UNCHANGED <<datagram_enabled, feedback_stream>>

Running == ~send_stopped /\ phase = "idle"
-----------------------------------------------------------------------------
(***************************************************************************)
(* poll_receive and apply_control: the frames of the receiver.             *)
(***************************************************************************)

\* Bug: a chunk is released when a part of it is acknowledged.
AcknowledgedInPart(ack) == {c \in replay : OffsetsOf(c) \cap Offsets(ack) # {}}

\* ReplayBuffer::acknowledge frees the chunks a range covers as a whole;
\* from_wire has merged touching ranges, so that is to have all offsets.
Acknowledged(ack) == {c \in replay : OffsetsOf(c) \subseteq Offsets(ack)}

\* Bug: an ACK that releases something disarms the timer of what is left.
ApplyAckDisarms(ack) ==
    LET released == Acknowledged(ack)
    IN  /\ replay' = replay \ released
        /\ retained_bytes' = retained_bytes - ChunkBytes(released)
        /\ retained_chunks' = retained_chunks - Cardinality(released)
        /\ replay_stage' = "Repair" /\ replay_cursor' = NoOffset
        /\ replay_timer' = (replay_timer /\ released = {})
        /\ feedback_stream' = Tail(feedback_stream)
        /\ UNCHANGED <<outbound, writeVars, peer_max_offset, targetVars, doneVars, lifeVars,
                       wire_queue, datagram_enabled, fin_queued, phase, taken,
                       connectionVars, datagrams, data_stream, data_end,
                       data_stopped, feedback_end, feedback_stopped>>

ApplyAck(ack) ==
    LET released == Acknowledged(ack)
        kept == replay \ released
    IN  /\ replay' = kept
        /\ retained_bytes' = retained_bytes - ChunkBytes(released)
        /\ retained_chunks' = retained_chunks - Cardinality(released)
        /\ IF released # {} \/ kept = {}
           THEN replay_stage' = "Repair" /\ replay_cursor' = NoOffset
           ELSE UNCHANGED <<replay_stage, replay_cursor>>
        \* restart_replay_timer, then disarmed when nothing is left to replay
        /\ replay_timer' = /\ kept # {}
                           /\ replay_timer \/ (released # {} /\ datagram_enabled)
        /\ feedback_stream' = Tail(feedback_stream)
        /\ UNCHANGED <<outbound, writeVars, peer_max_offset, targetVars, doneVars, lifeVars,
                       wire_queue, datagram_enabled, fin_queued, phase, taken,
                       connectionVars, datagrams, data_stream, data_end,
                       data_stopped, feedback_end, feedback_stopped>>

ApplyMaxOffset(maximum) ==
    /\ peer_max_offset' = maximum
    /\ feedback_stream' = Tail(feedback_stream)
    /\ UNCHANGED <<retainedVars, writeVars, targetVars, doneVars, lifeVars, taskVars,
                   connectionVars, datagrams, data_stream, data_end,
                   data_stopped, feedback_end, feedback_stopped>>

\* decode_control and apply_control accept the frame; any other resets the flow.
FeedbackOk(frame) ==
    \/ /\ frame.type = "Ack"
       /\ DecodeAckOk(frame, MaxAckRanges) /\ FromWireOk(frame, next_send_offset)
    \/ frame.type = "MaxOffset" /\ frame.offset >= peer_max_offset

ReceiveFeedback ==
    /\ Running /\ feedback_stream # <<>>
    /\ LET frame == Head(feedback_stream)
       IN  \/ FeedbackOk(frame) /\ frame.type = "Ack" /\ ApplyAck(frame)
           \/ FeedbackOk(frame) /\ frame.type = "MaxOffset" /\ ApplyMaxOffset(frame.offset)
           \/ /\ ~FeedbackOk(frame)
              /\ FailTask(TRUE)
              /\ feedback_stream' = Tail(feedback_stream)

\* The receiver's half of the stream ended.  A clean end is an error only when
\* the other direction of the flow has seen no FIN, which is not modelled here;
\* nothing obliges this step to happen, so both cases are covered.
FeedbackEnded ==
    /\ Running
    /\ \/ feedback_end = "reset" /\ FailTask(FALSE)
       \/ feedback_end = "finished" /\ feedback_stream = <<>> /\ FailTask(TRUE)
    /\ UNCHANGED feedback_stream
-----------------------------------------------------------------------------
(***************************************************************************)
(* process_outbound.                                                       *)
(***************************************************************************)

\* Follows the connection's switch, then pops the first chunk.
TakeOutbound ==
    /\ Running
    /\ datagram_enabled' = (datagram_enabled /\ connection_datagrams)
    /\ IF outbound # <<>>
       THEN taken' = Head(outbound) /\ outbound' = Tail(outbound) /\ phase' = "outbound"
       ELSE UNCHANGED <<taken, outbound, phase>>
    /\ UNCHANGED <<retained_bytes, retained_chunks, writeVars, peer_max_offset, targetVars,
                   doneVars, lifeVars, replay, wire_queue, ladderVars, fin_queued,
                   connectionVars, channelVars>>

\* Nothing is sent: the chunk goes back to the front.
PutBack ==
    /\ outbound' = <<taken>> \o outbound
    /\ UNCHANGED <<retained_bytes, retained_chunks>>

\* The first `length` bytes of the taken chunk, and the rest of it.
First(length) == Chunk(taken.offset, SubSeq(taken.bytes, 1, length))
\* Bug: the rest of a split chunk keeps the offset of its first part.
RemainingInPlace(length) ==
    Chunk(taken.offset, SubSeq(taken.bytes, length + 1, Len(taken.bytes)))

Remaining(length) ==
    Chunk(taken.offset + length, SubSeq(taken.bytes, length + 1, Len(taken.bytes)))

\* ReplayBuffer::retain takes a chunk that fits and overlaps none it holds.  Its
\* errors would fail the flow; RetainedExact says they never occur.
RetainOk(c) ==
    /\ ChunkBytes(replay) + Len(c.bytes) <= ReplayLimit
    /\ Cardinality(replay) < ReplayChunkLimit
    /\ OffsetsOf(c) \cap Covered(replay) = {}
Retain(c) == replay' = replay \cup {c}

\* Bug: the rest of a split chunk is not counted.
SplitUncounted(length) ==
    /\ outbound' = IF length < Len(taken.bytes) THEN <<Remaining(length)>> \o outbound ELSE outbound
    /\ UNCHANGED retained_chunks

\* Bug: the rest of a split chunk is lost.
SplitLoses(length) == UNCHANGED <<outbound, retained_chunks>>

\* split_off: the rest goes back to the front as a chunk of its own.
Split(length) ==
    IF length < Len(taken.bytes)
    THEN /\ outbound' = <<Remaining(length)>> \o outbound
         /\ retained_chunks' = retained_chunks + 1
    ELSE UNCHANGED <<outbound, retained_chunks>>

\* send_source accepted the chunk: it is retained, the replay timer armed, and a
\* flush that waited for exactly this chunk completes.
SendDatagram(c, length) ==
    /\ connection_datagrams
    /\ datagrams' = datagrams \cup {c}
    /\ Retain(c)
    /\ replay_timer' = TRUE
    /\ datagram_enabled' = TRUE
    /\ Split(length)
    /\ flushed_offset' = IF /\ flush_target # NoOffset /\ EndOf(c) >= flush_target
                            /\ outbound' = <<>>
                         THEN EndOf(c) ELSE flushed_offset
    /\ UNCHANGED <<retained_bytes, wire_queue>>

\* send_source found the DATAGRAM queue full: the (already split) chunk goes back.
QueueFull(c, length) ==
    /\ "full" \in Events /\ connection_datagrams
    /\ LET split == length < Len(taken.bytes)
       IN  /\ outbound' = <<c>> \o (IF split THEN <<Remaining(length)>> ELSE <<>>) \o outbound
           /\ retained_chunks' = retained_chunks + (IF split THEN 1 ELSE 0)
    /\ datagram_enabled' = TRUE
    /\ UNCHANGED <<retained_bytes, replay, replay_timer, flushed_offset, wire_queue, datagrams>>

\* Reliable mode, or send_source refused: retained and queued as STREAM_DATA.
SendReliably(c, length) ==
    /\ Retain(c)
    /\ wire_queue' = Append(wire_queue, StreamDataFrame(c, FALSE))
    /\ datagram_enabled' = FALSE
    /\ Split(length)
    /\ UNCHANGED <<retained_bytes, replay_timer, flushed_offset, datagrams>>

SendLength(limit) == Smaller(Smaller(limit, peer_max_offset - taken.offset), Len(taken.bytes))

SendTaken(source) ==
    LET adaptive == datagram_enabled /\ source # 0
        length == SendLength(IF adaptive THEN source ELSE StreamPayload)
        c == First(length)
        refused == adaptive /\ ~connection_datagrams  \* SendDatagramError::Disabled
    IN  IF length < Len(taken.bytes) /\ retained_chunks >= ReplayChunkLimit
        THEN /\ PutBack
             /\ datagram_enabled' = adaptive
             /\ UNCHANGED <<replay, replay_timer, flushed_offset, wire_queue, datagrams>>
        ELSE \/ adaptive /\ SendDatagram(c, length)
             \/ adaptive /\ QueueFull(c, length)
             \/ (~adaptive \/ refused) /\ SendReliably(c, length)

\* DATAGRAM is required and the path has no room for one.
Unusable(source) == datagram_enabled /\ source = 0 /\ adaptive_required

ProcessOutbound(source) ==
    /\ ~send_stopped /\ phase = "outbound"
    /\ LET blocked == taken.offset >= peer_max_offset
       IN  \/ /\ \/ /\ blocked /\ PutBack
                    /\ UNCHANGED <<datagram_enabled, replay, replay_timer, flushed_offset,
                                   wire_queue, datagrams>>
                 \/ ~blocked /\ ~Unusable(source) /\ SendTaken(source)
              /\ phase' = "idle" /\ taken' = NoChunk
              /\ UNCHANGED <<lifeVars, data_end, feedback_stopped>>
           \/ ~blocked /\ Unusable(source) /\ FailTask(FALSE)
    /\ UNCHANGED <<writeVars, peer_max_offset, targetVars, shutdown_done, replay_stage,
                   replay_cursor, fin_queued, connectionVars, data_stream,
                   data_stopped, feedback_stream, feedback_end>>
-----------------------------------------------------------------------------
(***************************************************************************)
(* poll_replay: FEC repair, then one DATAGRAM replay of every chunk, then  *)
(* the reliable stream.                                                    *)
(***************************************************************************)

\* ReplayBuffer::next_chunk_after.
After(cursor) == {c \in replay : c.offset > cursor}
NextAfter(cursor) == CHOOSE c \in After(cursor) : \A d \in After(cursor) : c.offset <= d.offset

\* The timer is due.  The flow follows the connection's switch first.
ReplayDue ==
    /\ Running /\ replay_timer
    /\ datagram_enabled' = (datagram_enabled /\ connection_datagrams)
    /\ phase' = "replay"
    /\ UNCHANGED <<retainedVars, writeVars, peer_max_offset, targetVars, doneVars, lifeVars,
                   replay, wire_queue, ladderVars, fin_queued, taken,
                   connectionVars, channelVars>>

\* Nothing is left to replay.
ReplayNothing ==
    /\ replay = {}
    /\ replay_timer' = FALSE /\ replay_stage' = "Repair" /\ replay_cursor' = NoOffset
    /\ UNCHANGED <<wire_queue, datagram_enabled, datagrams>>

\* No new loss was seen, or repair symbols were sent: wait one more timeout.
ReplayRepair ==
    /\ replay # {} /\ replay_stage = "Repair" /\ datagram_enabled
    /\ replay_stage' = "SourceReplay"
    /\ UNCHANGED <<replay_cursor, replay_timer, wire_queue, datagram_enabled, datagrams>>

\* Bug: after the last chunk the replay starts over instead of falling back.
ReplayForever ==
    /\ replay # {} /\ replay_stage # "ReliableFallback" /\ datagram_enabled
    /\ IF After(replay_cursor) # {}
       THEN /\ connection_datagrams
            /\ datagrams' = datagrams \cup {NextAfter(replay_cursor)}
            /\ replay_cursor' = NextAfter(replay_cursor).offset
       ELSE /\ replay_cursor' = NoOffset
            /\ UNCHANGED datagrams
    /\ UNCHANGED <<replay_stage, replay_timer, wire_queue, datagram_enabled>>

\* Replays the next chunk; without one, the reliable stream is next.  In the
\* Repair stage this is the case in which no repair symbol could be sent.
ReplaySource ==
    /\ replay # {} /\ replay_stage # "ReliableFallback" /\ datagram_enabled
    /\ IF After(replay_cursor) # {}
       THEN /\ connection_datagrams
            /\ datagrams' = datagrams \cup {NextAfter(replay_cursor)}
            /\ replay_cursor' = NextAfter(replay_cursor).offset
            /\ UNCHANGED replay_stage
       ELSE /\ replay_stage' = "ReliableFallback" /\ replay_cursor' = NoOffset
            /\ UNCHANGED datagrams
    /\ UNCHANGED <<replay_timer, wire_queue, datagram_enabled>>

\* One chunk at a time, when the wire is idle; after the last one the flow
\* stays on the reliable stream.
ReplayReliably(adaptive) ==
    /\ replay # {} /\ (replay_stage = "ReliableFallback" \/ ~adaptive)
    /\ IF wire_queue # <<>>
       THEN /\ datagram_enabled' = adaptive
            /\ UNCHANGED <<ladderVars, wire_queue>>
       ELSE IF After(replay_cursor) # {}
       THEN /\ wire_queue' = Append(wire_queue, StreamDataFrame(NextAfter(replay_cursor), FALSE))
            /\ replay_cursor' = NextAfter(replay_cursor).offset
            /\ datagram_enabled' = adaptive
            /\ UNCHANGED <<replay_stage, replay_timer>>
       ELSE /\ datagram_enabled' = FALSE
            /\ replay_stage' = "Repair" /\ replay_cursor' = NoOffset /\ replay_timer' = FALSE
            /\ UNCHANGED wire_queue
    /\ UNCHANGED datagrams

\* The DATAGRAM queue is full.
ReplayQueueFull ==
    /\ "full" \in Events
    /\ replay # {} /\ replay_stage # "ReliableFallback" /\ datagram_enabled
    /\ After(replay_cursor) # {} /\ connection_datagrams
    /\ UNCHANGED <<ladderVars, wire_queue, datagram_enabled, datagrams>>

\* The connection's switch went off after the flow looked at it: a repair falls
\* back to the reliable stream, a source replay fails the task.
RefusedRepair == replay_stage = "Repair" /\ datagram_enabled /\ ~connection_datagrams
RefusedReplay ==
    /\ replay_stage # "ReliableFallback" /\ datagram_enabled
    /\ ~connection_datagrams /\ After(replay_cursor) # {}

PollReplay ==
    /\ ~send_stopped /\ phase = "replay"
    /\ \/ /\ \/ ReplayNothing
             \/ ReplayRepair
             \/ ReplaySource
             \/ ReplayQueueFull
             \/ ReplayReliably(datagram_enabled /\ ~RefusedRepair)
          /\ phase' = "idle"
          /\ UNCHANGED <<retainedVars, lifeVars, replay, taken, data_end, feedback_stopped>>
       \/ RefusedReplay /\ FailTask(FALSE)
    /\ UNCHANGED <<writeVars, peer_max_offset, targetVars, doneVars, fin_queued,
                   connectionVars, data_stream, data_stopped, feedback_stream,
                   feedback_end>>
-----------------------------------------------------------------------------
(***************************************************************************)
(* queue_terminal_frames, poll_wire and finish_send_if_ready.              *)
(***************************************************************************)

\* Bug: FIN does not wait for the acknowledgement of what was sent.
FinBeforeAck ==
    /\ Running /\ shutdown_target # NoOffset /\ ~fin_queued /\ outbound = <<>>
    /\ wire_queue' = Append(wire_queue, FinFrame(shutdown_target))
    /\ fin_queued' = TRUE
    /\ UNCHANGED <<retainedVars, writeVars, peer_max_offset, targetVars, doneVars, lifeVars,
                   replay, datagram_enabled, ladderVars, phase, taken,
                   connectionVars, channelVars>>

\* FIN waits until every byte was acknowledged.
QueueTerminalFrames ==
    /\ Running /\ shutdown_target # NoOffset /\ ~fin_queued /\ outbound = <<>>
    /\ IF replay = {}
       THEN /\ wire_queue' = Append(wire_queue, FinFrame(shutdown_target))
            /\ fin_queued' = TRUE
            /\ UNCHANGED replay_timer
       ELSE /\ replay_timer' = (replay_timer \/ datagram_enabled)
            /\ UNCHANGED <<wire_queue, fin_queued>>
    /\ UNCHANGED <<retainedVars, writeVars, peer_max_offset, targetVars, doneVars, lifeVars,
                   replay, datagram_enabled, replay_stage, replay_cursor, phase, taken,
                   connectionVars, channelVars>>

\* A frame is written when QUIC flow control has room for it.
PollWire ==
    /\ Running /\ wire_queue # <<>>
    /\ LET frame == Head(wire_queue)
       IN  \/ /\ Len(data_stream) < StreamCapacity
              /\ data_stream' = Append(data_stream, frame)
              /\ wire_queue' = Tail(wire_queue)
              /\ flushed_offset' = IF frame.type = "StreamData"
                                   THEN Larger(flushed_offset, EndOf(frame))
                                   ELSE flushed_offset
              /\ UNCHANGED <<retainedVars, lifeVars, replay, datagram_enabled, ladderVars,
                             phase, taken, data_end, feedback_stopped>>
           \* WriteError::Stopped
           \/ data_stopped /\ FailTask(FALSE) /\ UNCHANGED data_stream
    /\ UNCHANGED <<writeVars, peer_max_offset, targetVars, shutdown_done, fin_queued,
                   connectionVars, datagrams, data_stopped, feedback_stream, feedback_end>>

\* The frames of the other direction that also hold up shutdown are not modelled.
FinishSend ==
    /\ Running /\ fin_queued /\ wire_queue = <<>> /\ ~shutdown_done
    /\ shutdown_done' = TRUE
    /\ UNCHANGED <<retainedVars, writeVars, peer_max_offset, targetVars, flushed_offset,
                   lifeVars, taskVars, connectionVars, channelVars>>

\* disable_datagrams: the connection's driver met a send error it tolerates.
DisableDatagrams ==
    /\ "disable" \in Events
    /\ connection_datagrams /\ ~adaptive_required
    /\ connection_datagrams' = FALSE
    /\ UNCHANGED <<adaptive_required, retainedVars, writeVars, peer_max_offset, targetVars,
                   doneVars, lifeVars, taskVars, channelVars>>
-----------------------------------------------------------------------------
\* What the sender retains: everything accepted and not acknowledged.
SenderHolds == Covered({outbound[i] : i \in DOMAIN outbound} \cup replay \cup {taken})

\* The bytes retained_bytes and retained_chunks count are exactly the chunks
\* queued, in the task's hands, or in the replay buffer; a checked_sub on them
\* never underflows, whichever way the application's reset interleaves with the
\* task.  And ReplayBuffer::retain never refuses what process_outbound hands it after it
\* was sent: the limits enqueue_ready and the split enforce are enough.
RetainedExact ==
    /\ ~send_stopped =>
           /\ retained_bytes = QueuedBytes(outbound) + ChunkBytes(replay) + Len(taken.bytes)
           /\ retained_chunks = Len(outbound) + Cardinality(replay)
                                  + (IF phase = "outbound" THEN 1 ELSE 0)
    /\ phase = "outbound" =>
           \A length \in 1 .. Len(taken.bytes) :
               \/ length < Len(taken.bytes) /\ retained_chunks >= ReplayChunkLimit
               \/ RetainOk(First(length))
=============================================================================
