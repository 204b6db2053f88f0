---------------------------- MODULE FlowReceive -----------------------------
(***************************************************************************)
(* The receiving half of a QUICP flow (src/src/flow.rs): bytes arrive from *)
(* the connection's DATAGRAM driver and from the flow's control stream,    *)
(* the application reads them, and the flow's task answers with logical    *)
(* ACKs and MAX_OFFSET credit.                                             *)
(*                                                                         *)
(* The driver, the task and the application run concurrently; each of the  *)
(* actions below is what one of them does while it holds the flow's mutex. *)
(***************************************************************************)
EXTENDS FlowChannel, Reassembler

CONSTANTS ReceiveWindow,      \* receive_window
          MaxReceiveRanges,   \* max_ack_ranges of `received`
          MaxFramePayload,    \* max_stream_payload
          ReadSizes,          \* sizes of the application's read buffers
          MemoryPressure      \* the values `the endpoint's memory is exhausted` may take

ASSUME ReceiveAssumption ==
    /\ ReceiveWindow \in Nat \ {0} /\ MaxReceiveRanges \in Nat \ {0}
    /\ MaxFramePayload \in Nat \ {0} /\ ReadSizes \subseteq Nat \ {0}
    /\ MemoryPressure \subseteq BOOLEAN

VARIABLES
    rx,                  \* receive: the Reassembler
    received,            \* AckRanges
    max_receive_offset, credit_dirty,
    ack_pending,         \* whether bytes or FIN arrived since the last ACK
    pending_ack,         \* <<>> or <<the ACK to write next>>
    pending_credit,      \* NoOffset or the MAX_OFFSET to write next
    recv_error, recv_dropped, recv_stopped,
    delivered,           \* history: the bytes the application has read
    eof                  \* history: the application has seen the end

feedbackVars == <<ack_pending, credit_dirty, pending_ack, pending_credit>>
recvLifeVars == <<recv_error, recv_dropped, recv_stopped>>
readVars == <<delivered, eof>>
recvVars == <<rx, received, max_receive_offset, feedbackVars, recvLifeVars, readVars>>

ReceiveInit ==
    /\ rx = EmptyReassembler /\ received = EmptyAck
    /\ max_receive_offset = ReceiveWindow /\ credit_dirty = TRUE
    /\ ack_pending = FALSE /\ pending_ack = <<>> /\ pending_credit = NoOffset
    /\ recv_error = "none" /\ recv_dropped = FALSE /\ recv_stopped = FALSE
    /\ delivered = <<>> /\ eof = FALSE
-----------------------------------------------------------------------------
(***************************************************************************)
(* insert_bytes and set_final_offset.                                      *)
(***************************************************************************)

\* Whether c would be held on in memory; only then can memory run out.
NeedsMemory(c) ==
    EndOf(c) > rx.next_offset /\ Gaps(rx.chunks, Unread(rx, c)) # {}

InsertBytesResult(c, fin, pressure) ==
    IF EndOf(c) > max_receive_offset THEN "FlowControl"
    ELSE IF ~ValidRange(c.offset, EndOf(c)) THEN "InvalidRange"
    ELSE IF ~ValidateInsert(received, MaxReceiveRanges, c.offset, EndOf(c)) THEN "RangeCapacity"
    ELSE LET result == InsertResult(rx, c, fin)
         IN  IF result = "ok" /\ pressure /\ NeedsMemory(c) THEN "Capacity" ELSE result

\* Bug: the gap below the record is acknowledged with it.
InsertBytesOverGap(c, fin) ==
    /\ rx' = InsertRecord(rx, c, fin)
    /\ received' = Insert(received, 0, EndOf(c))
    /\ ack_pending' = TRUE

InsertBytes(c, fin) ==
    /\ rx' = InsertRecord(rx, c, fin)
    /\ received' = Insert(received, c.offset, EndOf(c))
    /\ ack_pending' = TRUE

FinalOffsetResult(final) ==
    IF final > max_receive_offset THEN "FlowControl"
    ELSE IF ~FinalOffsetOk(rx, final) THEN "FinalOffset"
    ELSE "ok"
-----------------------------------------------------------------------------
(***************************************************************************)
(* The end of the task; see FlowSend.                                      *)
(***************************************************************************)
EndReceive(error, end) ==
    /\ recv_stopped' = TRUE
    /\ recv_error' = error
    /\ feedback_end' = end
    /\ data_stopped' = TRUE
    /\ pending_ack' = <<>> /\ pending_credit' = NoOffset
    /\ UNCHANGED <<rx, received, max_receive_offset, credit_dirty, ack_pending,
                   recv_dropped, readVars, datagrams, data_end, feedback_stream,
                   feedback_stopped>>

FailReceive(violation) ==
    EndReceive(IF recv_error = "none" THEN "failed" ELSE recv_error,
               IF violation THEN "reset" ELSE "finished")

StopReceive ==
    /\ ~recv_stopped
    /\ recv_error = "reset" \/ recv_dropped
    /\ EndReceive(recv_error, IF recv_error = "reset" THEN "reset" ELSE "finished")
    /\ UNCHANGED data_stream

\* request_reset and reject_protocol on this end.
ResetReceive ==
    IF recv_stopped \/ recv_error # "none"
    THEN UNCHANGED recvLifeVars
    ELSE recv_error' = "reset" /\ UNCHANGED <<recv_dropped, recv_stopped>>
-----------------------------------------------------------------------------
(***************************************************************************)
(* The connection's DATAGRAM driver: dispatch_reserved_source and          *)
(* dispatch_recovered insert a record of a registered flow.  A record that *)
(* does not fit is dropped; any other error resets the flow.               *)
(***************************************************************************)
DeliverDatagram(c, fin, pressure) ==
    /\ ~recv_stopped
    /\ \E result \in {InsertBytesResult(c, fin, pressure)} :
           \/ /\ result = "ok"
              /\ InsertBytes(c, fin)
              /\ UNCHANGED recvLifeVars
           \/ /\ result \in {"Capacity", "RangeCapacity"}
              /\ UNCHANGED <<rx, received, ack_pending, recvLifeVars>>
           \/ /\ result \notin {"ok", "Capacity", "RangeCapacity"}
              /\ ResetReceive
              /\ UNCHANGED <<rx, received, ack_pending>>
    /\ UNCHANGED <<max_receive_offset, credit_dirty, pending_ack, pending_credit, readVars,
                   channelVars>>

(***************************************************************************)
(* The task: poll_receive and apply_control.                               *)
(***************************************************************************)
FrameResult(frame, pressure) ==
    IF frame.type = "Fin" THEN FinalOffsetResult(frame.offset)
    ELSE IF Len(frame.bytes) > MaxFramePayload THEN "Limit"
    ELSE InsertBytesResult(Chunk(frame.offset, frame.bytes), frame.fin, pressure)

ReceiveFrame(pressure) ==
    /\ ~recv_stopped /\ data_stream # <<>>
    /\ data_stream' = Tail(data_stream)
    /\ \E frame \in {Head(data_stream)} : \E result \in {FrameResult(frame, pressure)} :
           \/ /\ result = "ok"
              /\ \/ /\ frame.type = "StreamData"
                    /\ InsertBytes(Chunk(frame.offset, frame.bytes), frame.fin)
                 \/ /\ frame.type = "Fin"
                    /\ rx' = SetFinalOffset(rx, frame.offset)
                    /\ ack_pending' = TRUE
                    /\ UNCHANGED received
              /\ UNCHANGED <<max_receive_offset, credit_dirty, pending_ack, pending_credit,
                             recvLifeVars, readVars, datagrams, data_end, data_stopped,
                             feedback_stream, feedback_end, feedback_stopped>>
           \/ result # "ok" /\ FailReceive(result # "Capacity")

\* The sender's half of the stream ended: by a reset, or without a FIN.
DataEnded ==
    /\ ~recv_stopped
    /\ \/ data_end = "reset" /\ FailReceive(FALSE)
       \/ /\ data_end = "finished" /\ data_stream = <<>>
          /\ rx.final_offset = NoOffset
          /\ FailReceive(TRUE)
    /\ UNCHANGED data_stream

\* queue_pending_feedback: an ACK once it is due, credit as soon as it grew.
QueueFeedback(ack_due) ==
    /\ ~recv_stopped
    /\ ack_due => ack_pending
    /\ ack_due \/ credit_dirty
    /\ pending_ack' = IF ack_due THEN <<received>> ELSE pending_ack
    /\ ack_pending' = (ack_pending /\ ~ack_due)
    /\ pending_credit' = IF credit_dirty THEN max_receive_offset ELSE pending_credit
    /\ credit_dirty' = FALSE
    /\ UNCHANGED <<rx, received, max_receive_offset, recvLifeVars, readVars, channelVars>>

\* poll_wire: the ACK first, then the credit.
WriteFeedback ==
    /\ ~recv_stopped
    /\ pending_ack # <<>> \/ pending_credit # NoOffset
    /\ \/ /\ Len(feedback_stream) < StreamCapacity
          /\ IF pending_ack # <<>>
             THEN /\ feedback_stream' = Append(feedback_stream, AckFrame(pending_ack[1]))
                  /\ rx' = AcknowledgeConsumed(rx, pending_ack[1].contiguous)
                  /\ pending_ack' = <<>>
                  /\ UNCHANGED pending_credit
             ELSE /\ feedback_stream' = Append(feedback_stream, MaxOffsetFrame(pending_credit))
                  /\ pending_credit' = NoOffset
                  /\ UNCHANGED <<rx, pending_ack>>
          /\ UNCHANGED <<recvLifeVars, data_stopped, feedback_end>>
       \* WriteError::Stopped
       \/ feedback_stopped /\ FailReceive(FALSE)
    /\ UNCHANGED <<received, max_receive_offset, credit_dirty, ack_pending, readVars,
                   datagrams, data_stream, data_end, feedback_stopped>>
-----------------------------------------------------------------------------
(***************************************************************************)
(* The application.  read reports an error before it looks at the buffer;  *)
(* bytes read raise the credit.                                            *)
(***************************************************************************)
Credit(count) ==
    IF count = 0 THEN max_receive_offset
    ELSE Larger(max_receive_offset, rx.next_offset + count + ReceiveWindow)

\* Bug: bytes are handed out after the flow failed.
ReadFailedFlow(length) ==
    /\ ~recv_dropped
    /\ LET count == ReadLength(rx, length)
       IN  /\ count # 0
           /\ rx' = Read(rx, count)
           /\ delivered' = delivered \o ReadBytes(rx, count)
           /\ max_receive_offset' = Credit(count)
           /\ credit_dirty' = (credit_dirty \/ max_receive_offset' # max_receive_offset)
    /\ UNCHANGED <<received, ack_pending, pending_ack, pending_credit, recvLifeVars, eof, channelVars>>

ReadFlow(length) ==
    /\ ~recv_dropped /\ recv_error = "none"
    /\ LET count == ReadLength(rx, length)
       IN  /\ count # 0 \/ IsFinished(rx)
           /\ rx' = Read(rx, count)
           /\ delivered' = delivered \o ReadBytes(rx, count)
           /\ eof' = (eof \/ count = 0)
           /\ max_receive_offset' = Credit(count)
           /\ credit_dirty' = (credit_dirty \/ max_receive_offset' # max_receive_offset)
    /\ UNCHANGED <<received, ack_pending, pending_ack, pending_credit, recvLifeVars, channelVars>>

ResetByReader ==
    /\ ~recv_dropped
    /\ ~recv_stopped /\ recv_error = "none"
    /\ ResetReceive
    /\ UNCHANGED <<rx, received, max_receive_offset, feedbackVars, readVars, channelVars>>

\* drop_handle.  Once the task ended, or was told to, a drop changes nothing more.
DropReader ==
    /\ ~recv_dropped /\ ~recv_stopped /\ recv_error = "none"
    /\ recv_dropped' = TRUE
    /\ UNCHANGED <<rx, received, max_receive_offset, feedbackVars, recv_error, recv_stopped,
                   readVars, channelVars>>
=============================================================================
