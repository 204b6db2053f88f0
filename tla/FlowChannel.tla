---------------------------- MODULE FlowChannel -----------------------------
(***************************************************************************)
(* What the two ends of one direction of a QUICP flow share: the DATAGRAMs *)
(* of the connection and the flow's reliable control stream.  External:    *)
(* QUIC (the noq crate) provides both; they are modelled from how          *)
(* src/src/flow.rs uses them.                                              *)
(***************************************************************************)
EXTENDS Chunks

CONSTANT StreamCapacity   \* frames QUIC flow control lets a stream hold

ASSUME StreamAssumption == StreamCapacity \in Nat \ {0}

VARIABLES
    datagrams,        \* chunks sent as SOURCE records
    data_stream,      \* control frames from the sender to the receiver
    data_end,         \* how the sender's half of the stream ended, or "open"
    data_stopped,     \* the receiver stopped reading (STOP_SENDING)
    feedback_stream,  \* control frames from the receiver to the sender
    feedback_end,
    feedback_stopped

channelVars == <<datagrams, data_stream, data_end, data_stopped,
                 feedback_stream, feedback_end, feedback_stopped>>

\* The post-admission frames of the control stream (wire.rs, ControlFrame).
StreamDataFrame(c, fin) ==
    [type |-> "StreamData", offset |-> c.offset, bytes |-> c.bytes, fin |-> fin]
FinFrame(offset) == [type |-> "Fin", offset |-> offset]
AckFrame(ack) == [type |-> "Ack", contiguous |-> ack.contiguous, ranges |-> ack.ranges]
MaxOffsetFrame(offset) == [type |-> "MaxOffset", offset |-> offset]

(***************************************************************************)
(* A DATAGRAM may be lost, delayed, reordered, recovered from a repair     *)
(* symbol, or replayed by the sender: every chunk ever sent stays in       *)
(* `datagrams`, and the receiver may get it any number of times or never.  *)
(***************************************************************************)
ChannelInit ==
    /\ datagrams = {}
    /\ data_stream = <<>> /\ feedback_stream = <<>>
    /\ data_end = "open" /\ feedback_end = "open"
    /\ data_stopped = FALSE /\ feedback_stopped = FALSE
=============================================================================
