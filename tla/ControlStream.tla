---------------------------- MODULE ControlStream ----------------------------
(***************************************************************************)
(* One direction of a flow's control stream, read by one end of it         *)
(* (flow.rs).  Admission reads a frame at a time and nothing beyond it:    *)
(* CAPABILITIES, then OPEN or EARLY_OPEN on the accepting end and STATUS   *)
(* on the opening one.  The flow's task then reads what there is, in       *)
(* pieces, and decodes the frames that are complete.                       *)
(*                                                                         *)
(* The stream is QUIC's: reliable and in order, cut anywhere.  The other   *)
(* end runs the same code, with a configuration of its own.                *)
(***************************************************************************)
EXTENDS WireFormat
LOCAL INSTANCE SequencesExt
LOCAL INSTANCE FiniteSetsExt

CONSTANTS
    LocalCapabilities,      \* what either end may be configured with, as the
                            \* fields of its CAPABILITIES frame
    FrameOffsets, Ports, TokenLengths, InitialLengths,   \* what the other end sends
    MaxTaskFrames,          \* bounds the frames of its task
    FlowBufferBytes,        \* flow_buffer_bytes of the accepting end
    MAX_OPEN_FRAME_BYTES, MAX_EARLY_OPEN_OVERHEAD,
    PayloadOverhead,        \* the REPAIR header and the SOURCE overhead
    CONTROL_DECODE_BATCH, CONTROL_READ_CHUNK

\* The longest host makes the longest OPEN, and the longest token the longest EARLY_OPEN.
ASSUME ControlAssumption ==
    /\ LocalCapabilities \subseteq Seq(Nat)
    /\ MAX_OPEN_FRAME_BYTES = 3 + Max({Len(host) : host \in Hosts})
    /\ MAX_EARLY_OPEN_OVERHEAD >= 18 + MaxTokenLength + MAX_OPEN_FRAME_BYTES
    /\ TokenLengths \subseteq 1 .. MaxTokenLength /\ InitialLengths \subseteq 1 .. FlowBufferBytes
    /\ CONTROL_DECODE_BATCH \in Nat \ {0} /\ CONTROL_READ_CHUNK \in Nat \ {0}

VARIABLES
    ends,       \* the configuration of this end and of the other
    opener,     \* whether this end opened the flow
    sent,       \* the frames the other end has written
    stream,     \* the bytes of them that are not yet read
    stage,      \* of this end: capabilities, answer, task or failed
    input,      \* what it has read and not yet decoded
    negotiated, \* its negotiated capabilities, once it has the other's
    got         \* the frames it has decoded

controlVars == <<ends, opener, sent, stream, stage, input, negotiated, got>>

ControlInit ==
    /\ ends \in [{"local", "peer"} -> LocalCapabilities]
    /\ opener \in BOOLEAN
    /\ stage = "capabilities"
    /\ sent = <<>> /\ stream = <<>> /\ input = <<>> /\ negotiated = <<>> /\ got = <<>>

-----------------------------------------------------------------------------
(* The limits of each end.                                                 *)

\* Capabilities::intersect; the flags that both ends have.
intersect(mine, theirs) ==
    <<Max({flags \in CapabilityFlags :
           \A bit \in {1, 2, 8} : (flags \div bit) % 2 = 1 =>
                                      (mine[1] \div bit) % 2 = 1 /\ (theirs[1] \div bit) % 2 = 1})>>
        \o [i \in 1 .. 4 |-> Min({mine[i + 1], theirs[i + 1]})]

active_capabilities == IF negotiated = <<>> THEN ends["local"] ELSE negotiated

max_ack_ranges(active) == active[5]
max_stream_payload(active) == Max({active[2] - PayloadOverhead, 1})

\* Bug: the header of an ACK is not counted.
InputLimitOfRanges(payload, ranges) == Max({payload + 16, ranges * 16})

control_input_limit(payload, ranges) == Max({payload + 16, ranges * 16 + 16})

early_open_frame_limit == FlowBufferBytes + MAX_EARLY_OPEN_OVERHEAD

\* The limit of the frame that admission reads next, on an accepting end that takes early data.
FrameLimit ==
    IF stage = "answer" /\ ~opener THEN early_open_frame_limit ELSE MAX_OPEN_FRAME_BYTES + 16

-----------------------------------------------------------------------------
(* The other end.                                                          *)

Frame(kind, fields) == [kind |-> kind, fields |-> fields]
Filled(n) == [i \in 1 .. n |-> 1]

Opens == {Frame(FRAME_OPEN, <<host, port>>) : host \in Hosts, port \in Ports}
EarlyOpens ==
    {Frame(FRAME_EARLY_OPEN, <<Filled(token), Filled(8), host, port, Filled(initial)>>) :
         token \in TokenLengths, host \in Hosts, port \in Ports, initial \in InitialLengths}

\* Ranges of one byte with one byte between them, the last one at the largest offset.
FullAck(ranges) ==
    LET start(i) == MAX_WIRE_OFFSET - 2 * (ranges - i) - 1
    IN  Frame(FRAME_ACK, <<start(1) - 1, ranges>>
                             \o FlattenSeq([i \in 1 .. ranges |-> <<start(i), start(i) + 1>>]))

\* What its task sends, by what it has negotiated: the largest ACK, credit, FIN, a full
\* frame of data and a last frame of one byte.
TaskFrames(active) ==
    {FullAck(max_ack_ranges(active))}
        \cup {Frame(kind, <<offset>>) : kind \in {FRAME_MAX_OFFSET, FRAME_FIN}, offset \in FrameOffsets}
        \cup {Frame(FRAME_STREAM_DATA, <<offset, last, Filled(IF last = 1 THEN 1 ELSE max_stream_payload(active))>>) :
                  offset \in FrameOffsets, last \in {0, 1}}

\* A frame that its place in the stream does not allow.
Misplaced(i, frame) ==
    CASE i = 1 -> frame.kind # FRAME_CAPABILITIES
      [] i = 2 -> frame.kind \notin (IF opener THEN {FRAME_STATUS} ELSE {FRAME_OPEN, FRAME_EARLY_OPEN})
      [] OTHER -> frame.kind \in {FRAME_CAPABILITIES, FRAME_OPEN, FRAME_STATUS, FRAME_EARLY_OPEN}

\* Its task begins after the answer; that of an opening end when it has this end's.
InPlace ==
    CASE Len(sent) = 0 -> {Frame(FRAME_CAPABILITIES, ends["peer"])}
      [] Len(sent) = 1 -> IF opener THEN {Frame(FRAME_STATUS, <<0>>)} ELSE Opens \cup EarlyOpens
      [] OTHER -> IF opener \/ stage = "task" THEN TaskFrames(intersect(ends["peer"], ends["local"])) ELSE {}

\* An end that has another view of the flow's state writes a frame out of place.
OutOfPlace == {Frame(IF Len(sent) < 2 THEN FRAME_FIN ELSE FRAME_STATUS, <<0>>)}

\* write_control, and queue_control of the task.
write_control(frame) ==
    /\ Len(sent) < 2 + MaxTaskFrames
    /\ \A i \in DOMAIN sent : ~Misplaced(i, sent[i])
    /\ sent' = Append(sent, frame)
    /\ stream' = stream \o encode_control(frame)
    /\ UNCHANGED <<ends, opener, stage, input, negotiated, got>>

-----------------------------------------------------------------------------
(* This end.                                                               *)

\* A read of n bytes, after those kept.
TakeBytes(kept, n) ==
    /\ input' = kept \o SubSeq(stream, 1, n)
    /\ stream' = SubSeq(stream, n + 1, Len(stream))

Admitting == stage \in {"capabilities", "answer"}

\* What the stage takes: an ordinary or an early OPEN, or the STATUS of this end's own.
Expected ==
    CASE stage = "capabilities" -> {FRAME_CAPABILITIES}
      [] stage = "answer" -> IF opener THEN {FRAME_STATUS} ELSE {FRAME_OPEN, FRAME_EARLY_OPEN}
      [] stage = "task" -> {FRAME_ACK, FRAME_MAX_OFFSET, FRAME_FIN, FRAME_STREAM_DATA}

\* read_control_bytes: read_exact takes a part of what it is to have.
read_control_bytes ==
    /\ Admitting
    /\ LET target == control_frame_read_target(input, FrameLimit)
       IN  /\ target.error = "none"
           /\ \E n \in 1 .. Min({target.target - Len(input), Len(stream)}) : TakeBytes(input, n)
    /\ UNCHANGED <<ends, opener, sent, stage, negotiated, got>>

\* read_admission_control and read_open_control, once they have the frame or an error.
read_admission_control ==
    /\ Admitting
    /\ \E target \in {control_frame_read_target(input, FrameLimit)},
          result \in {decode_control(input, max_ack_ranges(active_capabilities), FrameLimit)} :
           /\ target.error = "none" => target.target = Len(input)
           /\ IF target.error = "none" /\ result.error = "none" /\ result.frame.kind \in Expected
              THEN /\ got' = Append(got, result.frame)
                   /\ stage' = IF stage = "answer" THEN "task" ELSE "answer"
                   /\ negotiated' = IF stage = "answer" THEN negotiated
                                    ELSE intersect(ends["local"], result.frame.fields)
                   /\ input' = <<>>
              ELSE stage' = "failed" /\ UNCHANGED <<input, negotiated, got>>
    /\ UNCHANGED <<ends, opener, sent, stream>>

max_input ==
    control_input_limit(max_stream_payload(active_capabilities), max_ack_ranges(active_capabilities))

\* The checks of apply_control that do not depend on the flow's state.
apply_control(frame) ==
    /\ frame.kind \in Expected
    /\ frame.kind = FRAME_STREAM_DATA => Len(frame.fields[3]) <= max_stream_payload(active_capabilities)

\* The frames that poll_receive decodes: it stops at an error, and at the end of its batch.
DecodeOne(state, i) ==
    LET result == decode_control(state.input, max_ack_ranges(active_capabilities), max_input)
    IN  IF state.error # "none" THEN state
        ELSE IF result.error # "none" THEN [state EXCEPT !.error = result.error]
        ELSE IF ~apply_control(result.frame) THEN [state EXCEPT !.error = "refused"]
        ELSE [state EXCEPT !.frames = Append(@, result.frame),
                           !.input = SubSeq(@, result.consumed + 1, Len(@))]

DecodeBatch ==
    FoldLeft(DecodeOne, [input |-> input, frames |-> <<>>, error |-> "none"],
             [i \in 1 .. CONTROL_DECODE_BATCH |-> i])

\* poll_receive: decode, then read once unless the batch was full.
poll_receive ==
    /\ stage = "task"
    /\ \E decoded \in {DecodeBatch} :
       LET room == max_input - Len(decoded.input)
           available == Min({room, CONTROL_READ_CHUNK, Len(stream)})
       IN  /\ got' = got \o decoded.frames
           /\ \/ /\ decoded.error = "none"
                 /\ input' = decoded.input
                 /\ UNCHANGED <<stage, stream>>
              \/ /\ decoded.error \notin {"none", "Truncated"} \/ (decoded.error = "Truncated" /\ room <= 0)
                 /\ stage' = "failed" /\ input' = decoded.input
                 /\ UNCHANGED stream
              \/ /\ decoded.error = "Truncated" /\ room > 0
                 /\ \E n \in 0 .. available : (n = 0 => stream = <<>>) /\ TakeBytes(decoded.input, n)
                 /\ UNCHANGED stage
    /\ UNCHANGED <<ends, opener, sent, negotiated>>

ControlNext ==
    \/ \E frame \in InPlace \cup OutOfPlace : write_control(frame)
    \/ read_control_bytes
    \/ read_admission_control
    \/ poll_receive

ControlSpec == ControlInit /\ [][ControlNext]_controlVars

-----------------------------------------------------------------------------
Encoded(frames) == FlattenSeq([i \in DOMAIN frames |-> encode_control(frames[i])])

\* Between ends of any two configurations that accept each other, wherever the stream is
\* cut: the frames decoded (decode_control) are the frames written, in order, and no byte
\* is taken twice, lost, or taken by admission and missed by the task; no limit
\* (control_input_limit, early_open_frame_limit) refuses a frame the other end may send,
\* so only a frame out of place ends the flow, and it is not applied; and when all is
\* read, all is decoded.
FramesExact ==
    /\ IsPrefix(got, sent)
    /\ Encoded(got) \o input \o stream = Encoded(sent)
    /\ \A i \in DOMAIN got : ~Misplaced(i, got[i])
    /\ stage = "failed" => Len(got) < Len(sent) /\ Misplaced(Len(got) + 1, sent[Len(got) + 1])
    /\ stream = <<>> /\ input = <<>> => got = sent
    /\ stage = "task" /\ stream = <<>> /\ input # <<>> =>
           DecodeBatch.frames # <<>> \/ DecodeBatch.error # "Truncated"
=============================================================================
