------------------------------- MODULE FakeTcp -------------------------------
(***************************************************************************)
(* The sequence numbers of one FakeTCP path: the senders that share the    *)
(* outbound carrier (unix.rs FakeTcpSender, faketcp.rs FakeTcpCarrier) and *)
(* the acknowledgment the peer's inbound carrier derives from what it      *)
(* decodes.  A sender encodes a batch under the carrier's lock, and sends  *)
(* it later, as the raw socket allows; the network reorders, duplicates    *)
(* and loses packets.                                                      *)
(*                                                                         *)
(* Numbers are kept unwrapped, and taken modulo Modulus where the code     *)
(* reads them back.                                                        *)
(***************************************************************************)
EXTENDS Integers, Sequences, FiniteSets

CONSTANTS
    Senders,            \* one per connection, and the endpoint's
    Shapes,             \* <<segments, segment size>> of the transmits
    MaxTransmits,
    SEND_BATCH_SIZE,
    InitialSequence,
    Modulus             \* 2^32 in the code

VARIABLES
    carrier,            \* [send_sequence, sent_syn]
    senders,            \* [transmit, segments, size, segment, batch, sent]
    flight,             \* the packets that left, for the network to deliver or lose
    transmits,          \* the shapes of the transmits so far
    ok,                 \* the transmits poll_send reported sent
    unclean,            \* the transmits that found the sender mid-way in another
    newest,             \* the largest end the peer has decoded; 0 before the first
    acknowledgment      \* what the peer's carrier holds, wrapped

carrierVars == <<carrier, senders, flight, transmits, ok, unclean, newest, acknowledgment>>

Resting == [transmit |-> 0, segments |-> 0, size |-> 0, segment |-> 0, batch |-> <<>>, sent |-> 0]

CarrierInit ==
    /\ carrier = [send_sequence |-> InitialSequence, sent_syn |-> FALSE]
    /\ senders = [s \in Senders |-> Resting]
    /\ flight = {} /\ transmits = <<>> /\ ok = {} /\ unclean = {}
    /\ newest = 0 /\ acknowledgment = 0

-----------------------------------------------------------------------------
\* noq hands a new transmit to poll_send; segmentation is set up only if the sender is
\* not in the middle of one.
NewTransmit(s, shape) ==
    LET sender == senders[s]
        id == Len(transmits) + 1
    IN  /\ sender.transmit = 0 /\ id <= MaxTransmits
        /\ transmits' = Append(transmits, shape)
        /\ senders' = [senders EXCEPT ![s] =
               IF sender.segments = 0
               THEN [Resting EXCEPT !.transmit = id, !.segments = shape[1], !.size = shape[2]]
               ELSE [sender EXCEPT !.transmit = id]]
        /\ unclean' = IF sender.segments = 0 THEN unclean ELSE unclean \cup {id}
        /\ UNCHANGED <<carrier, flight, ok, newest, acknowledgment>>

\* Bug: the SYN takes no number of its own.
EncodedSynFree(sender, index) ==
    LET from == carrier.send_sequence + (index - 1) * sender.size
    IN  [from |-> from, to |-> from + sender.size + IF ~carrier.sent_syn /\ index = 1 THEN 1 ELSE 0,
         syn |-> ~carrier.sent_syn /\ index = 1,
         transmit |-> sender.transmit, segment |-> sender.segment + index]

\* encode_next_datagram_into: the first packet of a carrier is its SYN, which takes one
\* number more than its payload.
Encoded(sender, index) ==
    LET syn == ~carrier.sent_syn /\ index = 1
        from == carrier.send_sequence + (index - 1) * sender.size
                    + IF ~carrier.sent_syn /\ index > 1 THEN 1 ELSE 0
    IN  [from |-> from, to |-> from + sender.size + IF syn THEN 1 ELSE 0, syn |-> syn,
         transmit |-> sender.transmit, segment |-> sender.segment + index]

batch_count(sender) ==
    IF sender.segments - sender.segment < SEND_BATCH_SIZE
    THEN sender.segments - sender.segment ELSE SEND_BATCH_SIZE

\* A batch is encoded under the lock.
Encode(s) ==
    LET sender == senders[s]
        count == batch_count(sender)
        packets == [i \in 1 .. count |-> Encoded(sender, i)]
    IN  /\ sender.transmit # 0 /\ sender.batch = <<>>
        /\ senders' = [senders EXCEPT ![s].batch = packets, ![s].sent = 0]
        /\ carrier' = [send_sequence |-> packets[count].to, sent_syn |-> TRUE]
        /\ UNCHANGED <<flight, transmits, ok, unclean, newest, acknowledgment>>

\* send_batch puts some of the batch in flight; the transmit is reported sent with its
\* last segment.
Send(s, count) ==
    LET sender == senders[s]
        sent == sender.sent + count
        finished == sender.segment + count = sender.segments
    IN  /\ sender.transmit # 0 /\ sender.batch # <<>>
        /\ sent <= Len(sender.batch)
        /\ flight' = flight \cup {sender.batch[i] : i \in sender.sent + 1 .. sent}
        /\ senders' = [senders EXCEPT ![s] =
               IF finished THEN Resting
               ELSE [sender EXCEPT !.segment = @ + count,
                                   !.batch = IF sent = Len(@) THEN <<>> ELSE @,
                                   !.sent = IF sent = Len(sender.batch) THEN 0 ELSE sent]]
        /\ ok' = IF finished THEN ok \cup {sender.transmit} ELSE ok
        /\ UNCHANGED <<carrier, transmits, unclean, newest, acknowledgment>>

\* The socket fails with the path unavailable, and noq goes on with its next transmit; or
\* the socket is not writable and the endpoint forgets the response it was sending.  The
\* sender stays where it was.
NotSent(s) ==
    /\ senders[s].transmit # 0 /\ senders[s].batch # <<>>
    /\ senders' = [senders EXCEPT ![s].transmit = 0]
    /\ UNCHANGED <<carrier, flight, transmits, ok, unclean, newest, acknowledgment>>

\* decode_datagram_borrowed of the peer, on a packet the network delivers: once, again or
\* out of order.
advances(number) ==
    \/ acknowledgment = 0
    \/ (number - acknowledgment) % Modulus < Modulus \div 2

Decoded(packet) ==
    /\ packet \in flight
    /\ acknowledgment' = IF advances(packet.to) THEN packet.to % Modulus ELSE acknowledgment
    /\ newest' = IF packet.to > newest THEN packet.to ELSE newest
    /\ UNCHANGED <<carrier, senders, flight, transmits, ok, unclean>>

CarrierNext ==
    \/ \E s \in Senders :
           \/ \E shape \in Shapes : NewTransmit(s, shape)
           \/ Encode(s)
           \/ \E count \in 1 .. SEND_BATCH_SIZE : Send(s, count)
           \/ NotSent(s)
    \/ \E packet \in flight : Decoded(packet)

CarrierSpec == CarrierInit /\ [][CarrierNext]_carrierVars

-----------------------------------------------------------------------------
Unsent == UNION {{senders[s].batch[i] : i \in senders[s].sent + 1 .. Len(senders[s].batch)} : s \in Senders}

\* The packets in flight and those still in a sender's batch take every number once,
\* from the initial one to the carrier's next: no batch encoded while another sender is
\* blocked reuses or skips numbers, also after a send that failed or was forgotten.  A
\* transmit reported sent has every segment in flight, unless it followed one the sender
\* did not finish: the sender resumes the unfinished one and reports that.  The peer
\* acknowledges the newest number it has decoded, through reordering, duplication and the
\* wrap; a newest number that wraps to zero is the exception, for the carrier reads zero
\* as "none yet" and follows an older packet back.
NumbersTile ==
    LET packets == flight \cup Unsent
    IN  /\ \A number \in InitialSequence .. carrier.send_sequence - 1 :
               Cardinality({p \in packets : p.from <= number /\ number < p.to}) = 1
        /\ \A p \in packets : InitialSequence <= p.from /\ p.to <= carrier.send_sequence
        /\ flight \cap Unsent = {}
        /\ newest % Modulus # 0 => acknowledgment = newest % Modulus
        /\ \A id \in ok \ unclean : \A segment \in 1 .. transmits[id][1] :
               \E p \in flight : p.transmit = id /\ p.segment = segment
=============================================================================
