---------------------------- MODULE ReceivePath ----------------------------
(***************************************************************************)
(* How a connection receives (recovery.rs): its driver decodes a datagram, *)
(* reserves room for the records it carries, gives the source to the       *)
(* decoder, and hands every record to its flow or parks it until the flow  *)
(* is opened.  Flows are registered and end on other tasks, between any    *)
(* two locks the driver takes; the memory is shared by the endpoint.       *)
(***************************************************************************)
EXTENDS RepairDecoder

CONSTANTS
    Flows,              \* flow identities
    RecordsOf,          \* the flows of the records each source carries
    Repairs,            \* the coefficients of the repairs that are sent
    PreOpenSymbols,     \* pre_open_symbols: records parked before their flow opens
    FlowCapacity        \* what a flow's reassembler may retain

ASSUME ReceiveAssumption ==
    /\ RecordsOf \in [Symbols -> Seq(Flows) \ {<< >>}]
    /\ \A co \in Repairs : \E ids \in SUBSET Symbols \ {{}} : co \in [ids -> Coefficients]
    /\ PreOpenSymbols \in Nat
    /\ FlowCapacity \in Nat

VARIABLES
    decoder,            \* decoder
    used,               \* RecoveryMemoryBudget.used
    flows,              \* flows: "none" before it is registered, "live", "dead"
    pre_open,           \* pre_open: the records parked for each flow
    pre_open_count,     \* pre_open_count
    held,               \* the memory each flow's reassembler retains
    driver,             \* the locals of the driver's call of receive
    connection,         \* the connection: "open", "closed", "dropped"
    fault               \* whether an honest datagram was found invalid

flowVars == <<flows, pre_open, pre_open_count, held>>
inboundVars == <<decoder, used, flowVars, driver, connection, fault>>

\* The data of a record; what a record that is not copied keeps alive (the datagram);
\* a PendingSourceRecord; the vector dispatch_recovered allows for.
RecordBytes == 1
DatagramBytes == MaxSymbolBytes + 1
PendingUnit == 1
DispatchUnit == 1

IdleDriver == [step |-> "idle", symbol |-> 0, records |-> << >>, batch |-> EmptyBatch, overhead |-> 0]

InboundInit ==
    /\ decoder = EmptyDecoder
    /\ used = 0
    /\ flows = [f \in Flows |-> "none"]
    /\ pre_open = [f \in Flows |-> << >>]
    /\ pre_open_count = 0
    /\ held = [f \in Flows |-> 0]
    /\ driver = IdleDriver
    /\ connection = "open"
    /\ fault = FALSE

Charges(records) == Total([i \in DOMAIN records |-> records[i].charge])

Unresolved(records) == Len(SelectSeq(records, LAMBDA r : ~r.resolved))

TotalOver(S, f) == FoldSet(LAMBDA x, total : f[x] + total, 0, S)
-----------------------------------------------------------------------------
(* reserve_source_records *)

\* prune_pre_open
Pruned == [f \in Flows |-> SelectSeq(pre_open[f], LAMBDA r : ~r.expired)]

PrunedCount == TotalOver(Flows, [f \in Flows |-> Len(pre_open[f]) - Len(Pruned[f])])

PrunedBytes == TotalOver(Flows, [f \in Flows |-> Charges(pre_open[f]) - Charges(Pruned[f])])

\* Each record's flow, if it is registered, and the charge of a record that has none.
Resolve(records) ==
    [i \in DOMAIN records |->
        LET live == flows[records[i].flow] = "live"
        IN  [records[i] EXCEPT !.resolved = live,
                               !.charge = IF @ # 0 THEN @
                                          ELSE IF live THEN DatagramBytes ELSE RecordBytes]]

\* reserve_bounded
HasRoom(count, amount) == amount = 0 \/ count + amount <= PreOpenSymbols

\* Whether records can be reserved when so much is used, their own charges included.
CanReserve(records, spent) ==
    /\ HasRoom(pre_open_count - PrunedCount, Unresolved(Resolve(records)))
    /\ Fits(spent - PrunedBytes, Charges(Resolve(records)) - Charges(records))

\* The expired records are gone, and the given ones have their places.
reserve_source_records(records) ==
    /\ pre_open' = Pruned
    /\ pre_open_count' = pre_open_count - PrunedCount + Unresolved(records)
-----------------------------------------------------------------------------
(* receive: the driver's call, one step for each part that runs under its  *)
(* locks.                                                                  *)

Record(f, charge) == [flow |-> f, resolved |-> FALSE, charge |-> charge]

\* A single record is charged when it is reserved; several are copied from one
\* reservation, the rest of which is held until the call returns.
SourceRecords(id) ==
    [i \in DOMAIN RecordsOf[id] |->
        Record(RecordsOf[id][i], IF Len(RecordsOf[id]) = 1 THEN 0 ELSE RecordBytes)]

Overhead(id) ==
    IF Len(RecordsOf[id]) = 1 THEN 0
    ELSE Len(RecordsOf[id]) * (PendingUnit - RecordBytes) + Size[id]

\* receive_source and accept_source, up to the reservation.
ReceiveSource(id) ==
    LET records == SourceRecords(id)
        spent == used + Charges(records) + Overhead(id)
    IN  /\ connection = "open" /\ driver.step = "idle"
        /\ spent <= MemoryLimit
        /\ source_status(decoder, id, Payload[id]) = "new"
        /\ IF CanReserve(records, spent)
           THEN /\ reserve_source_records(Resolve(records))
                /\ used' = used - PrunedBytes + Charges(Resolve(records)) + Overhead(id)
                /\ driver' = [IdleDriver EXCEPT !.step = "add", !.symbol = id,
                                          !.records = Resolve(records),
                                          !.overhead = Overhead(id)]
           ELSE /\ reserve_source_records(<< >>)
                /\ used' = used - PrunedBytes
                /\ UNCHANGED driver
        /\ UNCHANGED <<decoder, flows, held, connection, fault>>

Invalid == {"contradictory", "size"}

\* accept_source, from the decoder on.  A source that it refuses takes its records with
\* it (release_source_reservations).
AcceptSource(enough) ==
    /\ driver.step = "add"
    /\ \E result \in {add_source(decoder, used, driver.symbol, enough)} :
        /\ decoder' = result.decoder
        /\ fault' = (fault \/ result.status \in Invalid)
        /\ IF result.status = "ok"
           THEN /\ driver' = [driver EXCEPT !.step = "dispatch", !.batch = result.batch]
                /\ used' = result.used
                /\ UNCHANGED pre_open_count
           ELSE /\ driver' = IdleDriver
                /\ used' = result.used - Charges(driver.records) - driver.overhead
                /\ pre_open_count' = pre_open_count - Unresolved(driver.records)
        /\ UNCHANGED <<flows, pre_open, held, connection>>

\* receive, for a repair.  A decoder without room for it closes the connection.
ReceiveRepair(co, enough) ==
    /\ connection = "open" /\ driver.step = "idle"
    /\ \E result \in {add_repair(decoder, used, RepairSymbol(co), enough)} :
        /\ decoder' = result.decoder
        /\ used' = result.used
        /\ fault' = (fault \/ result.status \in Invalid)
        /\ connection' = IF result.status = "rows" THEN "closed" ELSE connection
        /\ driver' = IF result.status = "ok"
                     THEN [IdleDriver EXCEPT !.step = "dispatch", !.batch = result.batch]
                     ELSE driver
        /\ UNCHANGED flowVars

\* insert_bytes_precharged: a flow keeps the record and its charge, or it refuses it
\* (it has no room for it, or has its bytes).  A flow that ended lives on for as long as
\* the driver has records resolved to it.
InsertCharged(f, charge, keep, left) ==
    LET ends == flows[f] = "dead" /\ ~ \E i \in DOMAIN left : left[i].resolved /\ left[i].flow = f
    IN  IF ends
        THEN /\ held' = [held EXCEPT ![f] = 0]
             /\ used' = used - held[f] - charge
        ELSE IF keep /\ held[f] + charge <= FlowCapacity
        THEN /\ held' = [held EXCEPT ![f] = @ + charge]
             /\ UNCHANGED used
        ELSE /\ used' = used - charge
             /\ UNCHANGED held

\* Bug: the flows are not looked at again when the record is parked.
DeliverableAsReserved(record) == record.resolved

\* A flow that was registered since the reservation takes the record too.
Deliverable(record) == record.resolved \/ flows[record.flow] = "live"

\* dispatch_reserved_source, for one record, which is parked if it has no flow yet.
Dispatch(keep) ==
    LET record == Head(driver.records)
        f == record.flow
        left == Tail(driver.records)
    IN  /\ driver.step = "dispatch" /\ driver.records # << >>
        /\ driver' = [driver EXCEPT !.records = left]
        /\ IF Deliverable(record)
           THEN /\ pre_open_count' = pre_open_count - (IF record.resolved THEN 0 ELSE 1)
                /\ InsertCharged(f, record.charge, keep, left)
                /\ UNCHANGED pre_open
           ELSE /\ pre_open' = [pre_open EXCEPT ![f] =
                                    Append(@, [charge |-> record.charge, expired |-> FALSE])]
                /\ UNCHANGED <<pre_open_count, held, used>>
        /\ UNCHANGED <<decoder, flows, connection, fault>>

\* Bug: what is left of the source's reservation is not released.
ReturnsWithoutOverhead ==
    /\ driver' = IdleDriver
    /\ used' = used - driver.batch.retained - driver.batch.dispatch

\* receive returns: what is left of the batch and of the reservation is released.
Returns ==
    /\ driver' = IdleDriver
    /\ used' = used - driver.batch.retained - driver.batch.dispatch - driver.overhead

DispatchBytes(items) ==
    Total([i \in DOMAIN items |-> Size[items[i].id]]) + DispatchUnit

\* dispatch_recovered: room for the whole batch, or none of it is delivered.
ReserveDispatch ==
    LET items == driver.batch.items
    IN  /\ driver.step = "dispatch" /\ driver.records = << >>
        /\ driver.batch.dispatch = 0
        /\ IF items # << >> /\ Fits(used, DispatchBytes(items))
           THEN /\ driver' = [driver EXCEPT !.batch.dispatch = DispatchBytes(items)]
                /\ used' = used + DispatchBytes(items)
           ELSE Returns
        /\ UNCHANGED <<decoder, flowVars, connection, fault>>

\* The loop of dispatch_recovered: the last recovered source is reserved, committed to
\* the decoder and dispatched, or its records are dropped.
PopRecovered ==
    LET batch == driver.batch
        item == Last(batch.items)
        records == [i \in DOMAIN RecordsOf[item.id] |->
                        Record(RecordsOf[item.id][i], RecordBytes)]
        popped == [batch EXCEPT !.items = Front(@), !.dispatch = @ - Charges(records)]
        result == commit_recovered(decoder, used - PrunedBytes, item)
    IN  /\ driver.step = "dispatch" /\ driver.records = << >>
        /\ batch.items # << >> /\ batch.dispatch # 0
        /\ IF CanReserve(records, used)
           THEN /\ decoder' = result.decoder
                /\ fault' = (fault \/ result.status \in Invalid)
                /\ IF result.status = "ok"
                   THEN /\ reserve_source_records(Resolve(records))
                        /\ used' = result.used
                        /\ driver' = [driver EXCEPT
                                        !.records = Resolve(records),
                                        !.batch = [popped EXCEPT !.retained = @ - item.retained]]
                   ELSE /\ reserve_source_records(<< >>)
                        /\ used' = result.used - Charges(records)
                        /\ driver' = [driver EXCEPT
                                        !.batch = [popped EXCEPT !.retained = @ - item.retained]]
           ELSE /\ reserve_source_records(<< >>)
                /\ used' = used - PrunedBytes - Charges(records)
                /\ driver' = [driver EXCEPT !.batch = popped]
                /\ UNCHANGED <<decoder, fault>>
        /\ UNCHANGED <<flows, held, connection>>

DispatchEnds ==
    /\ driver.step = "dispatch" /\ driver.records = << >>
    /\ driver.batch.items = << >> /\ driver.batch.dispatch # 0
    /\ Returns
    /\ UNCHANGED <<decoder, flowVars, connection, fault>>
-----------------------------------------------------------------------------
(* The other tasks.                                                        *)

\* register_flow: the flow takes the records parked for it, and inserts or drops each;
\* the insertions, which run without the locks, commute with the steps of the driver.
RegisterFlow(f) ==
    \E kept \in SUBSET DOMAIN pre_open[f] :
        LET charge(S) == TotalOver(S, [i \in S |-> pre_open[f][i].charge])
        IN  /\ connection # "dropped" /\ flows[f] = "none"
            /\ \A i \in kept : ~pre_open[f][i].expired
            /\ charge(kept) <= FlowCapacity
            /\ flows' = [flows EXCEPT ![f] = "live"]
            /\ held' = [held EXCEPT ![f] = charge(kept)]
            /\ used' = used - charge(DOMAIN pre_open[f] \ kept)
            /\ pre_open' = [pre_open EXCEPT ![f] = << >>]
            /\ pre_open_count' = pre_open_count - Len(pre_open[f])
            /\ UNCHANGED <<decoder, driver, connection, fault>>

\* A flow ends (unregister_flow) and its state is dropped with its last reference.
FlowEnds(f) ==
    LET referenced == \E i \in DOMAIN driver.records :
                        driver.records[i].resolved /\ driver.records[i].flow = f
    IN  /\ flows[f] = "live"
        /\ flows' = [flows EXCEPT ![f] = "dead"]
        /\ held' = [held EXCEPT ![f] = IF referenced THEN @ ELSE 0]
        /\ used' = used - (IF referenced THEN 0 ELSE held[f])
        /\ UNCHANGED <<decoder, pre_open, pre_open_count, driver, connection, fault>>

\* The application reads, and what the flow retained is released.
FlowReads(f) ==
    /\ flows[f] = "live" /\ held[f] > 0
    /\ held' = [held EXCEPT ![f] = 0]
    /\ used' = used - held[f]
    /\ UNCHANGED <<decoder, flows, pre_open, pre_open_count, driver, connection, fault>>

\* PRE_OPEN_TTL after it was parked, a record is expired.
Expire(f) ==
    \E i \in DOMAIN pre_open[f] :
        /\ \A j \in DOMAIN pre_open[f] : pre_open[f][j].expired <=> j < i
        /\ pre_open' = [pre_open EXCEPT ![f][i].expired = TRUE]
        /\ UNCHANGED <<decoder, used, flows, pre_open_count, held,
                       driver, connection, fault>>

\* The connection is dropped with its last flow, and the decoder and the parked records
\* with it.
LinkDropped ==
    /\ connection # "dropped" /\ driver.step = "idle" /\ \A f \in Flows : flows[f] # "live"
    /\ connection' = "dropped"
    /\ decoder' = EmptyDecoder
    /\ pre_open' = [f \in Flows |-> << >>]
    /\ pre_open_count' = 0
    /\ used' = used - RetainedBytes(decoder)
                    - TotalOver(Flows, [f \in Flows |-> Charges(pre_open[f])])
    /\ UNCHANGED <<flows, held, driver, fault>>

InboundNext ==
    \/ \E id \in Symbols : ReceiveSource(id)
    \/ \E enough \in BOOLEAN :
        \/ AcceptSource(enough)
        \/ \E co \in Repairs : ReceiveRepair(co, enough)
    \/ \E keep \in BOOLEAN : Dispatch(keep)
    \/ ReserveDispatch \/ PopRecovered \/ DispatchEnds
    \/ \E f \in Flows : RegisterFlow(f) \/ FlowEnds(f) \/ FlowReads(f) \/ Expire(f)
    \/ LinkDropped

InboundSpec == InboundInit /\ [][InboundNext]_inboundVars
-----------------------------------------------------------------------------
\* The budget counts exactly what is held, by whomever, and stays within its limit:
\* every path through receive, the refusals and the end of a flow or of the connection
\* included, releases what it reserved and transfers what it keeps.  pre_open_count counts
\* exactly the parked records and the places the driver reserved for records it has not
\* dispatched, whatever is registered meanwhile.
ChargesExact ==
    /\ used = RetainedBytes(decoder) + Charges(driver.records) + driver.overhead
              + driver.batch.retained + driver.batch.dispatch
              + TotalOver(Flows, [f \in Flows |->
                    held[f] + Charges(pre_open[f])])
    /\ used <= MemoryLimit
    /\ pre_open_count = TotalOver(Flows, [f \in Flows |-> Len(pre_open[f])])
                        + Unresolved(driver.records)
    /\ pre_open_count <= PreOpenSymbols

\* No record stays parked for a flow that is open: the driver and register_flow do not
\* miss each other.
NoneStranded == \A f \in Flows : flows[f] = "live" => pre_open[f] = << >>

\* The sources the rows mention, and the values those can have.
Pending == UNION {DOMAIN decoder.rows[i].co : i \in DOMAIN decoder.rows}

Solutions ==
    {value \in [Pending -> Elements] :
        \A i \in DOMAIN decoder.rows :
            Combination(decoder.rows[i].co, value) = decoder.rows[i].data}

\* From honest datagrams, in any order and with any of them missing, the decoder never
\* makes anything up: what it knows and what it recovers are the bytes that were sent,
\* and it finds no datagram invalid.  It recovers a source as soon as its equations
\* determine it: a source that a row still mentions can have two values.
Recovers ==
    /\ ~fault
    /\ \A i \in DOMAIN decoder.known : decoder.known[i].bytes = Payload[decoder.known[i].id]
    /\ \A i \in DOMAIN driver.batch.items :
            driver.batch.items[i].data = Payload[driver.batch.items[i].id]
    /\ \A id \in Pending : Cardinality({value[id] : value \in Solutions}) > 1
=============================================================================
