------------------------------ MODULE FlowLink ------------------------------
(***************************************************************************)
(* One direction of a QUICP flow, end to end: the sending half of one      *)
(* endpoint (FlowSend), the receiving half of the other (FlowReceive), and *)
(* what the network does to the DATAGRAMs and the control stream between   *)
(* them (FlowChannel).                                                     *)
(***************************************************************************)
EXTENDS FlowSend, FlowReceive

ASSUME LinkAssumption ==
    /\ MaxAckRanges = MaxReceiveRanges /\ StreamPayload = MaxFramePayload

linkVars == <<sendVars, recvVars, channelVars>>

LinkInit == SendInit /\ ReceiveInit /\ ChannelInit

SendApplication ==
    \/ \E n \in WriteSizes, nodelay \in Nodelays : Write(n, nodelay)
    \/ Flush
    \/ Shutdown
    \/ RequestReset
    \/ DropHandle

SendTask ==
    \/ ReceiveFeedback \/ FeedbackEnded
    \/ TakeOutbound \/ \E source \in SourcePayloads : ProcessOutbound(source)
    \/ ReplayDue \/ PollReplay
    \/ QueueTerminalFrames \/ PollWire \/ FinishSend
    \/ StopTask

ReceiveApplication ==
    \/ \E length \in ReadSizes : ReadFlow(length)
    \/ "reset" \in Events /\ ResetByReader
    \/ "drop" \in Events /\ DropReader

ReceiveTask ==
    \/ \E pressure \in MemoryPressure : ReceiveFrame(pressure)
    \/ DataEnded
    \/ \E ack_due \in BOOLEAN : QueueFeedback(ack_due)
    \/ WriteFeedback
    \/ StopReceive

Driver ==
    \E c \in datagrams, pressure \in MemoryPressure : DeliverDatagram(c, FALSE, pressure)

LinkNext ==
    \/ (SendApplication \/ SendTask \/ DisableDatagrams) /\ UNCHANGED recvVars
    \/ (ReceiveApplication \/ ReceiveTask \/ Driver) /\ UNCHANGED sendVars

LinkSpec == LinkInit /\ [][LinkNext]_linkVars

(***************************************************************************)
(* FlowTask::poll runs every one of its steps in every turn and is polled  *)
(* again while it makes progress, is woken or has a timer: a step that is  *)
(* enabled between the others again and again is taken.  The reader keeps  *)
(* reading.  Nothing is assumed of the writer, nor of the Driver: every    *)
(* DATAGRAM may be lost.                                                   *)
(***************************************************************************)
Sender(A) == A /\ UNCHANGED recvVars
Receiver(A) == A /\ UNCHANGED sendVars

Fairness ==
    /\ SF_linkVars(Sender(ReceiveFeedback))
    /\ SF_linkVars(Sender(TakeOutbound))
    /\ SF_linkVars(Sender(ReplayDue))
    /\ SF_linkVars(Sender(QueueTerminalFrames \/ PollWire \/ FinishSend))
    /\ WF_linkVars(Sender(PollReplay \/ \E source \in SourcePayloads : ProcessOutbound(source)))
    /\ WF_linkVars(Receiver(\E pressure \in MemoryPressure : ReceiveFrame(pressure)))
    /\ WF_linkVars(Receiver(\E ack_due \in BOOLEAN : QueueFeedback(ack_due)))
    /\ WF_linkVars(Receiver(WriteFeedback))
    /\ WF_linkVars(Receiver(\E length \in ReadSizes : ReadFlow(length)))

FairSpec == LinkSpec /\ Fairness
-----------------------------------------------------------------------------
\* No accepted byte is lost: until the flow fails or is reset, every byte the
\* application wrote is in the handle's buffer, retained by the sender or held by
\* the receiver.
NoByteLost ==
    send_error = "none" /\ ~send_stopped =>
        /\ written = next_send_offset + Len(send_buffer)
        /\ 0 .. (next_send_offset - 1) \subseteq SenderHolds \cup Offsets(received)

\* A shutdown that poll_shutdown reports as complete means that the receiver
\* holds every byte.  (A reset that overtakes the task may leave shutdown_done set,
\* but poll_shutdown then reports the reset.)
ShutdownConfirmed ==
    shutdown_done /\ send_error = "none" => 0 .. (written - 1) \subseteq Offsets(received)
-----------------------------------------------------------------------------
Failed == send_error # "none" \/ recv_error # "none"

\* Whatever DATAGRAMs the network loses, every byte the flow has taken in reaches
\* the reader, or the flow fails: repair, replay and the reliable fallback leave
\* no gap open for good.  (What is taken in is bounded, so that the reader catching up
\* again and again means that every byte arrives.)
Arrives == []<>(Len(delivered) = next_send_offset \/ Failed)

\* A shutdown completes, and the reader sees the end of the flow, or it fails.
ShutdownCompletes == []<>(shutdown_target # NoOffset => (shutdown_done /\ eof) \/ Failed)

\* A flush completes, or the flow fails.
FlushCompletes == flush_target # NoOffset ~> flushed_offset >= flush_target \/ Failed

\* No end of the flow fails that nobody reset, dropped or starved of memory.
Survives == send_error # "failed" /\ recv_error # "failed"

\* A completed flush means that every byte flushed was sent at least once.
FlushMeansSent ==
    \A o \in SenderHolds : o < flushed_offset => o \in Covered(replay)

\* The direction is an ordered pipe.
Pipe == INSTANCE FlowPipe WITH
    closed <- shutdown_target # NoOffset, ended <- eof, broken <- recv_error # "none"

\* Under loss, reordering, duplication, repair, replay and fallback, the reader
\* gets what the writer wrote, in order, once, and the end at the end.
IsPipe == Pipe!Spec
=============================================================================
