----------------------------- MODULE WireFormat -----------------------------
(***************************************************************************)
(* The wire syntax (wire.rs): variable-length integers, control frames,    *)
(* and the SOURCE and REPAIR datagrams, as encoders and decoders over      *)
(* sequences of bytes.                                                     *)
(*                                                                         *)
(* A byte has Width bits, 8 in the code; everything that follows from the  *)
(* width (the four lengths of an integer, the largest offset) follows from *)
(* it here as well.  A frame is its type and the values of its fields, in  *)
(* the order they are written; a host, a token and data are bytes.         *)
(***************************************************************************)
EXTENDS Integers, Sequences
LOCAL INSTANCE SequencesExt

CONSTANTS
    Width,                      \* bits of a byte
    Hosts,                      \* what CanonicalHost::parse accepts
    MaxTokenLength,             \* 128 in the code
    MinSymbolSize, MaxSpan, DecoderWindows, MaxRangeCount,  \* limits of CAPABILITIES
    SOURCE_DATAGRAM, REPAIR_DATAGRAM,
    MaxSourceRecords,           \* MAX_SOURCE_RECORDS
    MaxSymbolLength             \* max_symbol_bytes

Base == 2 ^ Width
Byte == 0 .. Base - 1

ASSUME WireAssumption ==
    /\ Width \in 4 .. 8
    /\ {MaxTokenLength, MaxRangeCount, SOURCE_DATAGRAM, REPAIR_DATAGRAM, MaxSourceRecords} \subseteq Byte
    /\ \A host \in Hosts : host \in Seq(Byte) /\ Len(host) \in Byte \ {0}

FRAME_CAPABILITIES == 1
FRAME_OPEN == 2
FRAME_STATUS == 3
FRAME_ACK == 4
FRAME_MAX_OFFSET == 5
FRAME_FIN == 6
FRAME_STREAM_DATA == 8
FRAME_EARLY_OPEN == 9

\* Any of the bits 0x01, 0x02 and 0x08 (CAPABILITY_MASK).
CapabilityFlags == {0, 1, 2, 3, 8, 9, 10, 11}
OpenStatuses == 0 .. 6

\* What 8 bytes without the two bits of the length hold.
MAX_WIRE_OFFSET == 2 ^ (8 * Width - 2) - 1

-----------------------------------------------------------------------------
(* Integers.                                                               *)

to_be_bytes(value, size) == [i \in 1 .. size |-> (value \div Base ^ (size - i)) % Base]
from_be_bytes(bytes) == FoldLeft(LAMBDA value, byte : value * Base + byte, 0, bytes)

\* The two high bits of the first byte select the length.
Quarter == 2 ^ (Width - 2)
Minimum(length) == IF length = 1 THEN 0 ELSE 2 ^ ((length \div 2) * Width - 2)
Selector(length) == CHOOSE n \in 0 .. 3 : 2 ^ n = length

encode_varint(value) ==
    LET length == CHOOSE n \in {1, 2, 4, 8} :
                      /\ Minimum(n) <= value
                      /\ \A m \in {1, 2, 4, 8} : m > n => value < Minimum(m)
    IN  [to_be_bytes(value, length) EXCEPT ![1] = @ + Selector(length) * Quarter]

\* Bug: any length is accepted for a value.
DecodeAnyLength(input) ==
    IF input = <<>> THEN [error |-> "Truncated"]
    ELSE LET length == 2 ^ (input[1] \div Quarter)
         IN  IF Len(input) < length THEN [error |-> "Truncated"]
             ELSE [error |-> "none", length |-> length,
                   value |-> from_be_bytes(<<input[1] % Quarter>> \o SubSeq(input, 2, length))]

decode_varint(input) ==
    IF input = <<>> THEN [error |-> "Truncated"]
    ELSE LET length == 2 ^ (input[1] \div Quarter)
             value == from_be_bytes(<<input[1] % Quarter>> \o SubSeq(input, 2, length))
         IN  IF Len(input) < length THEN [error |-> "Truncated"]
             ELSE IF value < Minimum(length) THEN [error |-> "NonCanonical"]
             ELSE [error |-> "none", value |-> value, length |-> length]

-----------------------------------------------------------------------------
(* A cursor has the fields read so far, or the first error met.            *)

Cursor(input) == [error |-> "none", fields |-> <<>>, rest |-> input]
Stop(cursor, error) == [cursor EXCEPT !.error = error]
Beyond(cursor, n) == SubSeq(cursor.rest, n + 1, Len(cursor.rest))

\* The ? operator: an error is returned, and anything else is gone on with.
Try(result, Then(_)) ==
    CHOOSE outcome \in {IF r.error = "none" THEN Then(r) ELSE r : r \in {result}} : TRUE

\* An early return with an error, unless the fields read so far pass.
Require(cursor, Passes(_), error) ==
    Try(cursor, LAMBDA c : IF Passes(c.fields) THEN c ELSE Stop(c, error))

take(cursor, n) ==
    IF Len(cursor.rest) < n THEN Stop(cursor, "Truncated")
    ELSE [cursor EXCEPT !.fields = Append(@, SubSeq(cursor.rest, 1, n)), !.rest = Beyond(cursor, n)]

remaining(cursor) == take(cursor, Len(cursor.rest))

\* u8, u16 and u32 are integers of one, two and four bytes; a size of Varint is varint.
Varint == 0
integer(input, size) ==
    IF size = Varint THEN decode_varint(input)
    ELSE IF Len(input) < size THEN [error |-> "Truncated"]
    ELSE [error |-> "none", value |-> from_be_bytes(SubSeq(input, 1, size)), length |-> size]

read(cursor, size) ==
    CHOOSE outcome \in
        {IF result.error # "none" THEN Stop(cursor, result.error)
         ELSE [cursor EXCEPT !.fields = Append(@, result.value), !.rest = Beyond(cursor, result.length)]
             : result \in {integer(cursor.rest, size)}} : TRUE

\* A run of integers.
integers(cursor, sizes) ==
    FoldLeft(LAMBDA at, size : Try(at, LAMBDA c : read(c, size)), cursor, sizes)

\* A loop that reads count items.
Repeat(cursor, count, Item(_)) ==
    FoldLeft(LAMBDA at, i : Try(at, Item), cursor, [i \in 1 .. count |-> i])

Flag(fields) == Last(fields) \in {0, 1}

\* A decoder that must have read everything.
Finish(cursor) ==
    Try(cursor, LAMBDA c : IF c.rest = <<>> THEN c ELSE Stop(c, "TrailingBytes"))

-----------------------------------------------------------------------------
(* The payloads of the control frames.                                     *)

open_fields(host, port) == <<Len(host)>> \o host \o to_be_bytes(port, 2)

encode_payload(kind, f) ==
    CASE kind = FRAME_CAPABILITIES ->
             encode_varint(f[1]) \o to_be_bytes(f[2], 2) \o to_be_bytes(f[3], 2)
                                 \o to_be_bytes(f[4], 2) \o <<f[5]>>
      [] kind = FRAME_OPEN -> open_fields(f[1], f[2])
      [] kind = FRAME_STATUS -> f
      [] kind = FRAME_ACK ->
             encode_varint(f[1]) \o <<f[2]>>
                 \o FlattenSeq([i \in 1 .. Len(f) - 2 |-> encode_varint(f[i + 2])])
      [] kind \in {FRAME_MAX_OFFSET, FRAME_FIN} -> encode_varint(f[1])
      [] kind = FRAME_STREAM_DATA -> encode_varint(f[1]) \o <<f[2]>> \o f[3]
      [] kind = FRAME_EARLY_OPEN ->
             <<Len(f[1])>> \o f[1] \o f[2] \o open_fields(f[3], f[4]) \o f[5]

encode_control(frame) ==
    LET payload == encode_payload(frame.kind, frame.fields)
    IN  <<frame.kind>> \o encode_varint(Len(payload)) \o payload

\* OpenRequest::decode adds a host and a port; its callers report one error for all of its.
decode_open(cursor) ==
    LET length == IF cursor.rest = <<>> THEN 0 ELSE Head(cursor.rest)
        host == SubSeq(cursor.rest, 2, length + 1)
    IN  IF length = 0 \/ Len(cursor.rest) < length + 3 \/ host \notin Hosts
        THEN Stop(cursor, "InvalidField")
        ELSE Require(read([cursor EXCEPT !.fields = Append(@, host), !.rest = Beyond(cursor, length + 1)], 2),
                     LAMBDA fields : Last(fields) # 0, "InvalidField")

capabilities(cursor) ==
    Try(Require(read(cursor, Varint), LAMBDA f : f[1] \in CapabilityFlags, "InvalidField"),
        LAMBDA flagged :
            Require(integers(flagged, <<2, 2, 2, 1>>),
                    LAMBDA f : /\ f[2] >= MinSymbolSize /\ f[3] \in 1 .. MaxSpan
                               /\ f[4] \in DecoderWindows /\ f[5] \in 1 .. MaxRangeCount,
                    "InvalidField"))

\* The ranges increase, from the contiguous prefix on.
ack_range(cursor) ==
    Require(integers(cursor, <<Varint, Varint>>),
            LAMBDA f : LET n == Len(f)
                           previous == IF n = 4 THEN f[1] ELSE f[n - 2]
                       IN  previous <= f[n - 1] /\ f[n - 1] < f[n] /\ f[n] <= MAX_WIRE_OFFSET,
            "InvalidField")

ack(cursor, max_ack_ranges) ==
    Try(Require(integers(cursor, <<Varint, 1>>), LAMBDA f : f[2] <= max_ack_ranges, "Limit"),
        LAMBDA counted : Repeat(counted, counted.fields[2], ack_range))

\* The token, the nonce's bytes, the request and what is left, which is not nothing.
early_open(cursor) ==
    LET sized == Require(read(cursor, 1), LAMBDA f : f[1] \in 1 .. MaxTokenLength, "Limit")
        token == Try(sized, LAMBDA c : take([c EXCEPT !.fields = <<>>], c.fields[1]))
        nonce == Try(token, LAMBDA c : take(c, 8))
    IN  Require(Try(Try(nonce, decode_open), remaining), LAMBDA f : Last(f) # <<>>, "InvalidField")

decode_payload(kind, cursor, max_ack_ranges) ==
    CASE kind = FRAME_CAPABILITIES -> capabilities(cursor)
      [] kind = FRAME_OPEN -> decode_open(cursor)
      [] kind = FRAME_STATUS ->
             Require(read(cursor, 1), LAMBDA f : f[1] \in OpenStatuses, "InvalidField")
      [] kind = FRAME_ACK -> ack(cursor, max_ack_ranges)
      [] kind \in {FRAME_MAX_OFFSET, FRAME_FIN} -> read(cursor, Varint)
      [] kind = FRAME_STREAM_DATA ->
             Try(Require(integers(cursor, <<Varint, 1>>), Flag, "InvalidField"), remaining)
      [] kind = FRAME_EARLY_OPEN -> early_open(cursor)
      [] OTHER -> Stop(cursor, "UnknownType")

\* control_payload_range: where the payload begins and ends.
control_payload_range(input, max_frame_bytes) ==
    IF input = <<>> THEN [error |-> "Truncated"]
    ELSE Try(decode_varint(Tail(input)),
             LAMBDA length :
                 LET end == 1 + length.length + length.value
                 IN  IF end > max_frame_bytes THEN [error |-> "Limit"]
                     ELSE [error |-> "none", start |-> 1 + length.length, end |-> end])

\* control_frame_read_target: how many bytes to have before looking again.
control_frame_read_target(input, max_frame_bytes) ==
    LET needed == IF Len(input) < 2 THEN 2 ELSE 1 + 2 ^ (input[2] \div Quarter)
    IN  CHOOSE outcome \in
            {IF range.error = "none" THEN [error |-> "none", target |-> range.end]
             ELSE IF range.error # "Truncated" THEN range
             ELSE IF needed > max_frame_bytes THEN [error |-> "Limit"]
             ELSE [error |-> "none", target |-> needed]
                 : range \in {control_payload_range(input, max_frame_bytes)}} : TRUE

decode_control(input, max_ack_ranges, max_frame_bytes) ==
    Try(control_payload_range(input, max_frame_bytes),
        LAMBDA range :
            IF Len(input) < range.end THEN [error |-> "Truncated"]
            ELSE Try(Finish(decode_payload(input[1], Cursor(SubSeq(input, range.start + 1, range.end)),
                                           max_ack_ranges)),
                     LAMBDA c : [error |-> "none", consumed |-> range.end,
                                 frame |-> [kind |-> input[1], fields |-> c.fields]]))

-----------------------------------------------------------------------------
(* The datagrams.  The fields of a SOURCE are its symbol and its records'. *)

validate_wire_range(offset, length) == offset + length <= MAX_WIRE_OFFSET

encode_source_record(r) ==
    encode_varint(r.flow_id) \o encode_varint(r.offset) \o <<r.fin>>
        \o encode_varint(Len(r.data)) \o r.data

\* What encode_source refuses to write.
EncodableSource(records) ==
    /\ Len(records) \in Byte \ {0}
    /\ \A i \in DOMAIN records :
           records[i].data # <<>> /\ validate_wire_range(records[i].offset, Len(records[i].data))

encode_source(symbol_id, records) ==
    <<SOURCE_DATAGRAM>> \o to_be_bytes(symbol_id, 4) \o <<Len(records)>>
        \o FlattenSeq([i \in DOMAIN records |-> encode_source_record(records[i])])

decode_source_record(cursor) ==
    LET flagged == Require(integers(cursor, <<Varint, Varint, 1>>), Flag, "InvalidField")
        sized == Require(Try(flagged, LAMBDA c : read(c, Varint)),
                         LAMBDA f : Last(f) # 0 /\ validate_wire_range(f[Len(f) - 2], Last(f)),
                         "InvalidField")
    IN  Try(sized, LAMBDA c : take([c EXCEPT !.fields = Front(@)], Last(c.fields)))

\* The symbol and the records of a decoded SOURCE.
SourceOf(fields) ==
    [symbol_id |-> fields[2],
     records |-> [i \in 1 .. fields[3] |->
                     [flow_id |-> fields[4 * i], offset |-> fields[4 * i + 1],
                      fin |-> fields[4 * i + 2], data |-> fields[4 * i + 3]]]]

decode_source_inner(input) ==
    LET kind == Require(read(Cursor(input), 1), LAMBDA f : f[1] = SOURCE_DATAGRAM, "UnknownType")
        counted == Require(Try(kind, LAMBDA c : integers(c, <<4, 1>>)),
                           LAMBDA f : f[3] \in 1 .. MaxSourceRecords, "Limit")
    IN  IF Len(input) > MaxSymbolLength THEN Stop(Cursor(input), "Limit")
        ELSE Try(counted, LAMBDA c : Repeat(c, c.fields[3], decode_source_record))

decode_source(input) == Finish(decode_source_inner(input))

\* Zeros fill a source up to the size of its symbol.
decode_source_padded(input) ==
    Try(decode_source_inner(input),
        LAMBDA c : IF \E i \in DOMAIN c.rest : c.rest[i] # 0 THEN Stop(c, "TrailingBytes") ELSE c)

EncodableRepair(r) == r.span \in 1 .. MaxSpan /\ r.symbol_size # 0 /\ Len(r.coded) = r.symbol_size

encode_repair(r) ==
    <<REPAIR_DATAGRAM>> \o to_be_bytes(r.repair_id, 4) \o to_be_bytes(r.first_symbol_id, 4)
        \o to_be_bytes(r.span, 2) \o to_be_bytes(r.symbol_size, 2) \o to_be_bytes(r.seed, 4) \o r.coded

RepairOf(f) ==
    [repair_id |-> f[2], first_symbol_id |-> f[3], span |-> f[4], symbol_size |-> f[5],
     seed |-> f[6], coded |-> f[7]]

decode_repair(input) ==
    LET kind == Require(read(Cursor(input), 1), LAMBDA f : f[1] = REPAIR_DATAGRAM, "UnknownType")
        header == Require(Try(kind, LAMBDA c : integers(c, <<4, 4, 2, 2, 4>>)),
                          LAMBDA f : f[4] \in 1 .. MaxSpan /\ f[5] \in 1 .. MaxSymbolLength,
                          "InvalidField")
    IN  Finish(Try(header, LAMBDA c : take(c, c.fields[5])))
=============================================================================
