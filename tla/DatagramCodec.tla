---------------------------- MODULE DatagramCodec ----------------------------
(***************************************************************************)
(* The bytes of one SOURCE or REPAIR datagram: as encoded, filled up with  *)
(* zeros as a repair symbol is, or otherwise than encoded in a few bytes,  *)
(* which is what the fuzzing entry points (fuzzing.rs) give the decoders.  *)
(***************************************************************************)
EXTENDS WireFormat
LOCAL INSTANCE SequencesExt

CONSTANTS
    SymbolIds, FlowIds, RecordOffsets, Payloads,    \* what a SOURCE is made of
    RecordCounts, Seeds, SymbolSizes,
    MaxChanges              \* bounds the changes

VARIABLES
    datagram,   \* what was encoded, if anything was yet
    bytes,      \* what the decoders are given
    changes     \* the changes made, other than padding

codecVars == <<datagram, bytes, changes>>

Records == [flow_id : FlowIds, offset : RecordOffsets, fin : {0, 1}, data : Payloads]

\* A second record is like the first, at the start of its flow.
Sources ==
    {[symbol_id |-> id,
      records |-> [i \in 1 .. count |-> IF i = 2 THEN [record EXCEPT !.offset = 0] ELSE record]] :
         id \in SymbolIds, record \in Records, count \in RecordCounts}

Repairs ==
    {[repair_id |-> id, first_symbol_id |-> first, span |-> span, symbol_size |-> Len(coded),
      seed |-> seed, coded |-> coded] :
         id \in SymbolIds, first \in SymbolIds, span \in {1, MaxSpan}, seed \in Seeds, coded \in Payloads}

IsSource(d) == "records" \in DOMAIN d
Encodable(d) == IF IsSource(d) THEN EncodableSource(d.records) ELSE EncodableRepair(d)
Encoding(d) == IF IsSource(d) THEN encode_source(d.symbol_id, d.records) ELSE encode_repair(d)

CodecInit == datagram = <<>> /\ bytes = <<>> /\ changes = 0

\* encode_source or encode_repair.
Encode(d) ==
    /\ datagram = <<>>
    /\ Encodable(d)
    /\ datagram' = d /\ bytes' = Encoding(d)
    /\ UNCHANGED changes

\* A source is a symbol of the size of its repairs.
Pad(size) ==
    /\ Len(bytes) \in 1 .. size - 1
    /\ bytes' = bytes \o [i \in 1 .. size - Len(bytes) |-> 0]
    /\ UNCHANGED <<datagram, changes>>

Changed ==
    {[bytes EXCEPT ![i] = byte] : i \in DOMAIN bytes, byte \in {0, 1, Base \div 4, Base - 1}}
        \cup {Append(bytes, 1), Front(bytes)}

Change ==
    /\ changes < MaxChanges /\ bytes # <<>>
    /\ bytes' \in Changed \ {bytes}
    /\ changes' = changes + 1
    /\ UNCHANGED datagram

CodecNext ==
    \/ \E d \in Sources \cup Repairs : Encode(d)
    \/ \E size \in SymbolSizes : Pad(size)
    \/ Change

CodecSpec == CodecInit /\ [][CodecNext]_codecVars

-----------------------------------------------------------------------------
Zeros(s) == \A i \in DOMAIN s : s[i] = 0

\* What a decoder accepts has one encoding: decode_source and decode_repair accept no other
\* bytes than encode_source and encode_repair write for the datagram they return, and
\* decode_source_padded none but those and zeros; and what was encoded, padded or not, is
\* what is returned.
DatagramsExact ==
    datagram # <<>> =>
    LET source == decode_source(bytes)
        padded == decode_source_padded(bytes)
        repair == decode_repair(bytes)
        read_bytes(c) == SubSeq(bytes, 1, Len(bytes) - Len(c.rest))
        Exactly(c, decoded) == c.error = "none" => Encodable(decoded) /\ Encoding(decoded) = read_bytes(c)
    IN  /\ Exactly(source, SourceOf(source.fields)) /\ Exactly(padded, SourceOf(padded.fields))
        /\ Exactly(repair, RepairOf(repair.fields))
        /\ source.error = "none" => source.rest = <<>> /\ padded = source
        /\ padded.error = "none" => Zeros(padded.rest)
        /\ bytes = Encoding(datagram) =>
               IF IsSource(datagram)
               THEN source.error = "none" /\ SourceOf(source.fields) = datagram
               ELSE repair.error = "none" /\ RepairOf(repair.fields) = datagram
        /\ changes = 0 /\ IsSource(datagram) /\ Len(bytes) <= MaxSymbolLength =>
               padded.error = "none" /\ SourceOf(padded.fields) = datagram
=============================================================================
