----------------------------- MODULE FlowSender -----------------------------
(***************************************************************************)
(* The sending half of a flow against a receiver that may answer anything: *)
(* acknowledge what it never received, lower the credit, stop reading, end *)
(* or reset the stream at any time.  What the sender promises here does    *)
(* not depend on the receiver's honesty.                                   *)
(***************************************************************************)
EXTENDS FlowSend

CONSTANT MaxFeedbackOffset   \* bound on the offsets the receiver names

ASSUME SenderAssumption == MaxFeedbackOffset \in Nat

senderVars == <<sendVars, channelVars>>

SenderInit == SendInit /\ ChannelInit

\* A frame that decode_control or apply_control refuses whatever the state.
MalformedFrame == [type |-> "Malformed"]

AnyRange == {r \in [start : 0 .. MaxFeedbackOffset, end : 0 .. MaxFeedbackOffset] : r.start < r.end}
AnyFeedback ==
    {AckFrame([contiguous |-> c, ranges |-> {}]) : c \in 0 .. MaxFeedbackOffset}
      \cup {AckFrame([contiguous |-> c, ranges |-> {r}]) :
              c \in 0 .. MaxFeedbackOffset, r \in AnyRange}
      \cup {MaxOffsetFrame(o) : o \in 0 .. MaxFeedbackOffset}
      \cup {MalformedFrame}

PeerAnswers ==
    /\ feedback_end = "open" /\ Len(feedback_stream) < StreamCapacity
    /\ \E frame \in AnyFeedback : feedback_stream' = Append(feedback_stream, frame)
    /\ UNCHANGED <<sendVars, datagrams, data_stream, data_end, data_stopped,
                   feedback_end, feedback_stopped>>

PeerReadsData ==
    /\ data_stream # <<>>
    /\ data_stream' = Tail(data_stream)
    /\ UNCHANGED <<sendVars, datagrams, data_end, data_stopped,
                   feedback_stream, feedback_end, feedback_stopped>>

PeerStops ==
    /\ ~data_stopped
    /\ data_stopped' = TRUE
    /\ UNCHANGED <<sendVars, datagrams, data_stream, data_end,
                   feedback_stream, feedback_end, feedback_stopped>>

PeerEndsFeedback ==
    /\ feedback_end = "open"
    /\ feedback_end' \in {"finished", "reset"}
    /\ UNCHANGED <<sendVars, datagrams, data_stream, data_end, data_stopped,
                   feedback_stream, feedback_stopped>>

\* Flush and DropHandle are left to FlowLink: a flush only names a target, and a
\* drop stops the task as a reset does.
Application ==
    \/ \E n \in WriteSizes, nodelay \in Nodelays : Write(n, nodelay)
    \/ Shutdown
    \/ RequestReset

SendTask ==
    \/ ReceiveFeedback \/ FeedbackEnded
    \/ TakeOutbound \/ \E source \in SourcePayloads : ProcessOutbound(source)
    \/ ReplayDue \/ PollReplay
    \/ QueueTerminalFrames \/ PollWire \/ FinishSend
    \/ StopTask

SenderNext ==
    \/ Application \/ SendTask \/ DisableDatagrams
    \/ PeerAnswers \/ PeerReadsData \/ PeerStops \/ PeerEndsFeedback

SenderSpec == SenderInit /\ [][SenderNext]_senderVars
-----------------------------------------------------------------------------
\* The sender retains accepted bytes until a logical ACK covers them, or until
\* the flow ends or is reset.
HeldUntilAcknowledged ==
    [][send_error' = "none" /\ ~send_stopped' =>
         \/ SenderHolds \subseteq SenderHolds'
         \/ /\ feedback_stream # <<>> /\ Head(feedback_stream).type = "Ack"
            /\ SenderHolds \ SenderHolds' \subseteq Offsets(Head(feedback_stream))]_senderVars
=============================================================================
