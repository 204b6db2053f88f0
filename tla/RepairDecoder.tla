--------------------------- MODULE RepairDecoder ---------------------------
(***************************************************************************)
(* The sliding-window repair code (fec.rs).  A repair symbol is a linear   *)
(* combination of the source symbols of a window; the decoder keeps the    *)
(* sources it knows and the equations it could not solve yet, and pays for *)
(* both from the endpoint's recovery memory.                               *)
(*                                                                         *)
(* A source is its identity and one byte, Payload[id]: every column of a   *)
(* row goes through the same operations.  Lengths are counted in units.    *)
(***************************************************************************)
EXTENDS GaloisField, SequencesExt

CONSTANTS
    Symbols,            \* the identities of the sources that are sent
    Payload,            \* the byte of each source
    Size,               \* the length of each source
    MaxSymbols,         \* max_symbols: known sources the decoder keeps
    MaxRows,            \* max_rows: equations the decoder keeps
    MaxSymbolBytes,     \* max_symbol_bytes
    MemoryLimit         \* the endpoint's recovery_memory_budget_bytes

ASSUME DecoderAssumption ==
    /\ Symbols \subseteq Nat
    /\ Payload \in [Symbols -> Elements]
    /\ Size \in [Symbols -> 1 .. MaxSymbolBytes]
    /\ MaxSymbols \in Nat \ {0} /\ MaxRows \in Nat \ {0} /\ MemoryLimit \in Nat

\* The sizes of a Row, of one of its coefficients and of an entry of a recovered batch.
RowUnit == 1
CoefficientUnit == 1
ItemUnit == 1

Total(s) == FoldSeq(LAMBDA n, total : n + total, 0, s)

\* try_reserve: whether the budget has room for so much more.
Fits(used, bytes) == used + bytes <= MemoryLimit

\* saturating_sub
Minus(a, b) == IF a > b THEN a - b ELSE 0
-----------------------------------------------------------------------------
(* The encoder.  A coefficient is a hash of the seed, the repair and the   *)
(* source: any element but zero.                                           *)

Coefficients == Elements \ {0}

Combination(co, value) ==
    FoldSet(LAMBDA id, sum : Plus[sum, Product[value[id], co[id]]], 0, DOMAIN co)

\* repair_symbol: the row for the sources co combines, of the longest one's length.
RepairSymbol(co) ==
    [co |-> co, data |-> Combination(co, Payload), len |-> Max({Size[id] : id \in DOMAIN co})]
-----------------------------------------------------------------------------
(* Rows.  A row has a coefficient for each source it still mentions.       *)

CoefficientOf(row, id) == IF id \in DOMAIN row.co THEN row.co[id] ELSE 0

scale_row(row, factor) ==
    [row EXCEPT !.co = [id \in DOMAIN row.co |-> Product[row.co[id], factor]],
                !.data = Product[row.data, factor]]

subtract_row(target, source, factor) ==
    LET value(id) == Plus[CoefficientOf(target, id), Product[CoefficientOf(source, id), factor]]
        ids == {id \in DOMAIN target.co \cup DOMAIN source.co : value(id) # 0}
    IN  [co |-> [id \in ids |-> value(id)],
         data |-> Plus[target.data, Product[source.data, factor]],
         len |-> Max({target.len, source.len})]

\* Bug: a known source leaves a row without its coefficient.
SubstituteUnscaled(row, id, value) ==
    [row EXCEPT !.co = [i \in DOMAIN row.co \ {id} |-> row.co[i]],
                !.data = Plus[@, value]]

\* A known source leaves a row that mentions it (xor_scaled).
Substitute(row, id, value) ==
    [row EXCEPT !.co = [i \in DOMAIN row.co \ {id} |-> row.co[i]],
                !.data = Plus[@, Product[value, row.co[id]]]]

Swap(rows, i, j) == [rows EXCEPT ![i] = rows[j], ![j] = rows[i]]

Lead(row) == Min(DOMAIN row.co)

\* One round of the elimination: the first row with the least leading source becomes
\* the pivot, and its source leaves every other row.
Pivot(rows, pivot) ==
    LET left == {i \in pivot .. Len(rows) : DOMAIN rows[i].co # {}}
        least == Min({Lead(rows[i]) : i \in left})
        candidate == Min({i \in left : Lead(rows[i]) = least})
        swapped == Swap(rows, pivot, candidate)
        source == scale_row(swapped[pivot], Reciprocal[swapped[pivot].co[least]])
    IN  [i \in DOMAIN rows |->
            IF i = pivot THEN source
            ELSE IF least \in DOMAIN swapped[i].co
                 THEN subtract_row(swapped[i], source, swapped[i].co[least])
                 ELSE swapped[i]]

RECURSIVE Eliminate(_, _)
Eliminate(rows, pivot) ==
    IF \E i \in pivot .. Len(rows) : DOMAIN rows[i].co # {}
    THEN Eliminate(Pivot(rows, pivot), pivot + 1)
    ELSE rows

Contradicts(rows) == \E i \in DOMAIN rows : DOMAIN rows[i].co = {} /\ rows[i].data # 0

Solved(rows) == {i \in DOMAIN rows : Cardinality(DOMAIN rows[i].co) = 1}

\* What a reduced matrix determines, by increasing identity (canonical_recovered: each
\* takes the room of its length).
Recovered(rows) ==
    SetToSortSeq({[id |-> Lead(rows[i]),
                   data |-> Product[rows[i].data, Reciprocal[rows[i].co[Lead(rows[i])]]],
                   retained |-> Size[Lead(rows[i])]] : i \in Solved(rows)},
                 LAMBDA a, b : a.id < b.id)

Unsolved(rows) == SelectSeq(rows, LAMBDA row : Cardinality(DOMAIN row.co) > 1)
-----------------------------------------------------------------------------
(* The decoder: [known, rows, row_bytes].  An operation has a decoder, the *)
(* memory used on the endpoint and an argument, and returns the same with  *)
(* what it recovered, whose memory the batch holds.                        *)

EmptyDecoder == [known |-> << >>, rows |-> << >>, row_bytes |-> 0]

EmptyBatch == [items |-> << >>, retained |-> 0, dispatch |-> 0]

Done(decoder, used, batch) ==
    [status |-> "ok", decoder |-> decoder, used |-> used, batch |-> batch]

\* An error leaves the decoder as it was and gives its scratch memory back.
Failing(decoder, used, status) ==
    [status |-> status, decoder |-> decoder, used |-> used, batch |-> EmptyBatch]

Known(decoder, id) == {i \in DOMAIN decoder.known : decoder.known[i].id = id}

\* source_status
source_status(decoder, id, bytes) ==
    IF Known(decoder, id) = {} THEN "new"
    ELSE IF \A i \in Known(decoder, id) : decoder.known[i].bytes = bytes
         THEN "duplicate" ELSE "contradictory"

KnownSource(id, bytes, retained) == [id |-> id, bytes |-> bytes, retained |-> retained]

\* insert_known: the oldest sources leave the window.
insert_known(known, source) ==
    LET longer == Append(known, source)
    IN  SubSeq(longer, Len(longer) - Min({Len(longer), MaxSymbols}) + 1, Len(longer))

evicted_known_bytes(decoder) ==
    IF Len(decoder.known) >= MaxSymbols THEN decoder.known[1].retained ELSE 0

\* known_memory_delta: what one more source reserves, and what it releases.
Growth(decoder, bytes) == Minus(bytes, evicted_known_bytes(decoder))

Release(decoder, bytes) == Minus(evicted_known_bytes(decoder), bytes)

matrix_coefficient_count(rows, additional) ==
    additional + Total([i \in DOMAIN rows |-> Cardinality(DOMAIN rows[i].co)])

\* scratch_memory_bytes: a copy of the matrix, of its pivot, and of all it may recover.
scratch_memory_bytes(rows, additional, columns, source) ==
    LET count == Len(rows) + additional
        row == RowUnit + MaxSymbolBytes + columns * CoefficientUnit
    IN  (count + 1) * row + count * (2 * MaxSymbolBytes + 2 * ItemUnit) + source

\* row_storage_bytes: rows keep the capacity they were copied with.
row_storage_bytes(rows, capacity, columns) ==
    capacity * RowUnit + Len(rows) * (MaxSymbolBytes + columns * CoefficientUnit)

\* validate_recovered
validate_recovered(decoder, items) ==
    \A i \in DOMAIN items : source_status(decoder, items[i].id, items[i].data) # "contradictory"

\* What add_source and add_repair do with the reduced matrix: the solved rows become a
\* batch, the others replace the decoder's, and the scratch memory pays for both.
Settle(decoder, used, reduced, columns, scratch, known, growth, release) ==
    LET items == Recovered(reduced)
        rows == Unsolved(reduced)
        row_bytes == row_storage_bytes(rows, Len(reduced), columns)
        retained == Len(items) * ItemUnit + Total([i \in DOMAIN items |-> items[i].retained])
        reservation == growth + Minus(row_bytes, decoder.row_bytes)
    IN  IF Contradicts(reduced) \/ ~validate_recovered(decoder, items)
        THEN Failing(decoder, used, "contradictory")
        ELSE IF ~Fits(used, Max({scratch, retained + reservation}))
        THEN Failing(decoder, used, "capacity")
        ELSE Done([known |-> known, rows |-> rows, row_bytes |-> row_bytes],
                  used + retained + reservation
                       - Minus(decoder.row_bytes, row_bytes) - release,
                  [EmptyBatch EXCEPT !.items = items, !.retained = retained])

\* try_reuse_oldest_source: the oldest source's storage, when it is long enough.
CanReuse(decoder, id) ==
    Len(decoder.known) >= MaxSymbols /\ decoder.known[1].retained >= Size[id]

Unsized(decoder, id) ==
    \E i \in DOMAIN decoder.rows :
        id \in DOMAIN decoder.rows[i].co /\ decoder.rows[i].len < Size[id]

\* add_source, for a source that is not known.  The work budget may not be enough for
\* the matrix.
add_source(decoder, used, id, enough) ==
    LET bytes == Payload[id]
        known == insert_known(decoder.known, KnownSource(id, bytes, Size[id]))
        growth == Growth(decoder, Size[id])
        release == Release(decoder, Size[id])
        columns == matrix_coefficient_count(decoder.rows, 0)
        scratch == scratch_memory_bytes(decoder.rows, 0, columns, Size[id])
        substituted == [i \in DOMAIN decoder.rows |->
                            IF id \in DOMAIN decoder.rows[i].co
                            THEN Substitute(decoder.rows[i], id, bytes)
                            ELSE decoder.rows[i]]
    IN  CASE decoder.rows = << >> /\ CanReuse(decoder, id) ->
                Done([decoder EXCEPT !.known =
                          insert_known(@, KnownSource(id, bytes, @[1].retained))],
                     used, EmptyBatch)
          [] decoder.rows = << >> /\ ~CanReuse(decoder, id) ->
                IF Fits(used, Max({Size[id], growth}))
                THEN Done([decoder EXCEPT !.known = known], used + growth - release, EmptyBatch)
                ELSE Failing(decoder, used, "capacity")
          [] decoder.rows # << >> ->
                IF ~enough \/ ~Fits(used, scratch) THEN Failing(decoder, used, "capacity")
                ELSE IF Unsized(decoder, id) THEN Failing(decoder, used, "size")
                ELSE Settle(decoder, used, Eliminate(substituted, 1), columns,
                            scratch, known, growth, release)

\* A repair row without the sources that are known.
WithoutKnown(decoder, row) ==
    FoldSet(LAMBDA id, left :
                Substitute(left, id, decoder.known[CHOOSE i \in Known(decoder, id) : TRUE].bytes),
            row, {id \in DOMAIN row.co : Known(decoder, id) # {}})

\* add_repair
add_repair(decoder, used, repair, enough) ==
    LET row == WithoutKnown(decoder, repair)
        columns == matrix_coefficient_count(decoder.rows, Cardinality(DOMAIN repair.co))
        scratch == scratch_memory_bytes(decoder.rows, 1, columns, 0)
    IN  IF Len(decoder.rows) = MaxRows THEN Failing(decoder, used, "rows")
        ELSE IF ~enough \/ ~Fits(used, scratch) THEN Failing(decoder, used, "capacity")
        ELSE IF \E id \in DOMAIN repair.co : Known(decoder, id) # {} /\ Size[id] > repair.len
        THEN Failing(decoder, used, "size")
        ELSE IF DOMAIN row.co = {}
        THEN IF row.data = 0 THEN Done(decoder, used, EmptyBatch)
                             ELSE Failing(decoder, used, "contradictory")
        ELSE Settle(decoder, used, Eliminate(Append(decoder.rows, row), 1), columns,
                    scratch, decoder.known, 0, 0)

\* commit_recovered_precharged: the source's charge becomes the decoder's, or is
\* released when the source is known.
commit_recovered(decoder, used, item) ==
    IF source_status(decoder, item.id, item.data) = "new"
    THEN Done([decoder EXCEPT !.known =
                   insert_known(@, KnownSource(item.id, item.data, item.retained))],
              used - evicted_known_bytes(decoder), EmptyBatch)
    ELSE IF source_status(decoder, item.id, item.data) = "duplicate"
    THEN Done(decoder, used - item.retained, EmptyBatch)
    ELSE Failing(decoder, used - item.retained, "contradictory")

\* What the decoder gives back when it is dropped.
RetainedBytes(decoder) ==
    Total([i \in DOMAIN decoder.known |-> decoder.known[i].retained]) + decoder.row_bytes
=============================================================================
