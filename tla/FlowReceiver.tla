---------------------------- MODULE FlowReceiver ----------------------------
(***************************************************************************)
(* The receiving half of a flow against a sender that may send anything:   *)
(* overlapping, contradictory or oversized chunks, bytes beyond the credit *)
(* or the final offset, several final offsets, by DATAGRAM and STREAM_DATA *)
(* in any order.  What the receiver promises here does not depend on the   *)
(* sender's honesty.                                                       *)
(***************************************************************************)
EXTENDS FlowReceive

CONSTANTS MaxPeerOffset,  \* bound on the offsets the sender names
          PeerBytes       \* byte values it sends

ASSUME ReceiverAssumption == MaxPeerOffset \in Nat

receiverVars == <<recvVars, channelVars>>

ReceiverInit == ReceiveInit /\ ChannelInit

SomeChunk ==
    {c \in {Chunk(o, [i \in 1 .. n |-> b]) :
              o \in 0 .. MaxPeerOffset, n \in 1 .. (MaxFramePayload + 1), b \in PeerBytes} :
       EndOf(c) <= MaxPeerOffset}

\* An empty or an oversized chunk is refused whatever else the frame says.
BadChunk == {Chunk(0, <<>>)} \cup {c \in SomeChunk : c.offset = 0 /\ Len(c.bytes) > MaxFramePayload}
SomeFrame ==
    {StreamDataFrame(c, fin) :
       c \in {c \in SomeChunk : Len(c.bytes) <= MaxFramePayload}, fin \in BOOLEAN}
      \cup {StreamDataFrame(c, FALSE) : c \in BadChunk}
      \cup {FinFrame(o) : o \in 0 .. MaxPeerOffset}

\* What it sends after the receiver stopped reading is discarded by QUIC.
PeerSends ==
    /\ data_end = "open" /\ ~data_stopped /\ Len(data_stream) < StreamCapacity
    /\ \E frame \in SomeFrame : data_stream' = Append(data_stream, frame)
    /\ UNCHANGED <<recvVars, datagrams, data_end, data_stopped,
                   feedback_stream, feedback_end, feedback_stopped>>

PeerReadsFeedback ==
    /\ feedback_stream # <<>>
    /\ feedback_stream' = Tail(feedback_stream)
    /\ UNCHANGED <<recvVars, datagrams, data_stream, data_end, data_stopped,
                   feedback_end, feedback_stopped>>

PeerEndsData ==
    /\ data_end = "open" /\ ~data_stopped
    /\ data_end' \in {"finished", "reset"}
    /\ UNCHANGED <<recvVars, datagrams, data_stream, data_stopped,
                   feedback_stream, feedback_end, feedback_stopped>>

\* decode_source_record refuses an empty record.
Driver ==
    \E c \in SomeChunk, fin \in BOOLEAN, pressure \in MemoryPressure :
        DeliverDatagram(c, fin, pressure)

ReceiveTask ==
    \/ \E pressure \in MemoryPressure : ReceiveFrame(pressure)
    \/ DataEnded
    \/ \E ack_due \in BOOLEAN : QueueFeedback(ack_due)
    \/ WriteFeedback
    \/ StopReceive

ReceiverNext ==
    \/ Driver \/ ReceiveTask \/ \E length \in ReadSizes : ReadFlow(length)
    \/ PeerSends \/ PeerReadsFeedback \/ PeerEndsData

ReceiverSpec == ReceiverInit /\ [][ReceiverNext]_receiverVars
-----------------------------------------------------------------------------
ReceiverHolds == Covered(rx.chunks)

\* What was acknowledged was read already or is in the buffer, and only that.
ReceivedExact == Offsets(received) = (0 .. (rx.next_offset - 1)) \cup ReceiverHolds
=============================================================================
