---------------------------- MODULE ValueTransfer ----------------------------
(***************************************************************************)
(* The values of one column of an attached table, from DuckDB to the       *)
(* server and back: an INSERT appends chunks to the pending column of its  *)
(* block and sends it, the server stores the rows, a scan reads them in    *)
(* slices of a block.  The statements work with the type the catalog has   *)
(* cached; another client may have changed the column since.               *)
(***************************************************************************)
EXTENDS ClickhouseConversion

CONSTANTS
    ColumnTypes,         \* types a column may be created with
    Changes,             \* <<t, u>>: another client may change t into u
    DuckValues(_),       \* what DuckDB may insert into a column of a type
    ForeignRows(_),      \* what other clients may store in a column of a type
    BlockSizes,          \* values of ch_insert_block_size
    MaxRows              \* bound: rows of the INSERT

ASSUME BlockSizesAssumption == BlockSizes \subseteq Nat \ {0}

VARIABLES
    cached,    \* the column's type in the catalog cache
    type,      \* its type on the server
    server,    \* its rows on the server
    block_size,
    phase,     \* of the INSERT
    pending,   \* the column of the block it fills, Null while there is none
    sunk       \* the rows it was given so far

vars == <<cached, type, server, block_size, phase, pending, sunk>>

Bound == ToDuckDB(cached)
Converted == GetWriteMode(cached) = "server conversion"

\* low_cardinality_allow_in_native_format = 0: the server sends plain columns.
RECURSIVE Plain(_)
Plain(t) ==
    IF t.name = "LowCardinality" THEN Plain(t.children[1])
    ELSE [t EXCEPT !.children = [i \in DOMAIN t.children |-> Plain(t.children[i])]]

Init ==
    /\ cached \in ColumnTypes
    /\ type \in {cached} \cup {change[2] : change \in {ch \in Changes : ch[1] = cached}}
    /\ server = <<>>
    /\ block_size \in BlockSizes
    /\ phase = "planned"
    /\ pending = Null
    /\ sunk = <<>>

OtherClientInserts(row) ==
    /\ phase = "planned"
    /\ server = <<>>
    /\ server' = <<row>>
    /\ UNCHANGED <<cached, type, block_size, phase, pending, sunk>>

\* GetInsertColumns() refuses an unsupported column.  The header describes the
\* column, or the input() of the conversion.
StartInsert(header) ==
    /\ phase = "planned"
    /\ GetWriteMode(cached) # "unsupported"
    /\ phase' = "inserting"
    /\ pending' = EmptyColumn(IF Converted THEN ServerInputType(cached) ELSE header)
    /\ UNCHANGED <<cached, type, server, block_size, sunk>>

\* Flush(): the server converts the block it is sent and stores its rows.
Flush(col, next) ==
    LET rows == RowsOf(col)
        stored == IF Converted
                    THEN [i \in DOMAIN rows |-> ServerConversion(cached, rows[i])]
                    ELSE rows
    IN  IF Refused \in ToSet(stored)
          THEN phase' = "failed" /\ UNCHANGED server
          ELSE phase' = next /\ server' = server \o stored

Sink(rows, layout) ==
    LET col == AppendVector(VectorOf(Bound, rows, layout), pending)
    IN  /\ phase = "inserting"
        /\ sunk' = sunk \o rows
        /\ CASE col = Refused -> phase' = "failed" /\ pending' = Null /\ UNCHANGED server
             [] col # Refused /\ Size(col) >= block_size ->
                    Flush(col, "inserting") /\ pending' = EmptyColumn(col.type)
             [] OTHER -> pending' = col /\ UNCHANGED <<phase, server>>
        /\ UNCHANGED <<cached, type, block_size>>

\* Finalize(): the rows that are left are sent.  Nothing is begun without rows.
Finalize ==
    /\ phase = "inserting" /\ sunk # <<>>
    /\ Flush(pending, "done")
    /\ pending' = Null
    /\ UNCHANGED <<cached, type, block_size, sunk>>

Chunks == UNION {[1 .. n -> DuckValues(cached)] : n \in 1 .. MaxRows - Len(sunk)}

Next ==
    \/ \E row \in ForeignRows(type) : OtherClientInserts(row)
    \/ \E header \in {type, Plain(type)} : StartInsert(header)
    \/ /\ phase = "inserting"
       /\ \E rows \in Chunks, layout \in Layouts : Sink(rows, layout)
    \/ Finalize

Spec == Init /\ [][Next]_vars

-----------------------------------------------------------------------------
\* The server's text of a stored value.
TextOf(t, row) ==
    CASE row = Null -> Null
      [] row # Null /\ t.name \in {"String", "FixedString"} -> row
      [] row # Null /\ IsDecimal(t) -> <<row, DecimalScale(t)>>
      [] OTHER -> <<row>>

Field(rows, f) == [i \in DOMAIN rows |-> rows[i][f]]

\* The server evaluates a read expression over the rows of a column.
RECURSIVE Evaluate(_, _, _)

EvaluateElements(expr, t, rows) ==
    LET flat == Evaluate(expr, t, FlattenSeq(rows))
        ends == [i \in 0 .. Len(rows) |-> Len(FlattenSeq(SubSeq(rows, 1, i)))]
    IN  IF flat = Refused THEN Refused
        ELSE [type |-> Array(flat.type),
              rows |-> [i \in DOMAIN rows |-> SubSeq(flat.rows, ends[i - 1] + 1, ends[i])]]

Evaluate(expr, t, rows) ==
    LET base == Unwrap(t)
        Result(name, values) ==
            [type |-> IF IsNullable(t) THEN Nullable(Scalar(name)) ELSE Scalar(name),
             rows |-> values]
    IN  CASE expr[1] = "as is" -> [type |-> Plain(t), rows |-> rows]
          [] expr[1] \in {"toString", "wkt", "toJSONString"} ->
                Result("String", [i \in DOMAIN rows |-> TextOf(base, rows[i])])
          [] expr[1] = "toFloat32" -> Result("Float32", rows)
          [] expr[1] = "arrayMap" ->
                IF base.name # "Array" THEN Refused
                ELSE EvaluateElements(expr[2][1], base.children[1], rows)
          [] expr[1] = "tuple" ->
                LET fields == [f \in DOMAIN expr[2] |->
                                  Evaluate(expr[2][f], base.children[f], Field(rows, f))]
                IN  IF base.name # "Tuple" \/ Refused \in ToSet(fields) THEN Refused
                    ELSE [type |-> Tuple([f \in DOMAIN fields |-> fields[f].type]),
                          rows |-> [i \in DOMAIN rows |->
                                       [f \in DOMAIN fields |-> fields[f].rows[i]]]]
          [] expr[1] = "arrayZip" ->
                LET part == [f \in 1 .. 2 |->
                                EvaluateElements(expr[2][f], base.children[f],
                                                 [i \in DOMAIN rows |-> Field(rows[i], f)])]
                IN  IF base.name # "Map" \/ Refused \in ToSet(part) THEN Refused
                    ELSE [type |-> Array(Tuple(<<part[1].type.children[1],
                                                 part[2].type.children[1]>>)),
                          rows |-> [i \in DOMAIN rows |-> [j \in DOMAIN rows[i] |->
                                       <<part[1].rows[i][j], part[2].rows[i][j]>>]]]

\* The column of the block a scan receives, and its answer for count rows from
\* offset on.
Block ==
    LET result == Evaluate(ReadExpression(cached), type, server)
    IN  IF result = Refused THEN Refused ELSE Encode(result.type, result.rows)

Read(column, offset, count) ==
    IF column = Refused THEN Refused ELSE ConvertColumn(column, Bound, offset, count)

-----------------------------------------------------------------------------
\* a, in ticks of precision pa, is b, in ticks of precision pb, rounded down
\* if pa is the coarser one.
FloorOf(a, pa, b, pb) ==
    /\ a * Step ^ pb <= b * Step ^ pa
    /\ IF pa < pb THEN b * Step ^ pa < (a + 1) * Step ^ pb
       ELSE a * Step ^ pb = b * Step ^ pa

\* DuckDB types whose integers are no numbers of their own: positions in a
\* dictionary, days, ticks.
NotNumbers == {"ENUM", "DATE"} \cup DOMAIN TickPrecision

\* The stored row and the DuckDB value are the same, but for the precision
\* the copy lacks: of the row if it was written from the value, of the value
\* if it was read from the row.
RECURSIVE Same(_, _, _, _, _)
Same(t, row, d, value, written) ==
    LET base == Unwrap(t)
        Each(u, e, rows, values) ==
            /\ Len(rows) = Len(values)
            /\ \A i \in DOMAIN rows : Same(u, rows[i], e, values[i], written)
    IN  IF row = Null \/ value = Null THEN row = value
        ELSE CASE base.name = "Array" -> Each(base.children[1], d.args[1], row, value)
               [] base.name = "Map" ->
                    Each(Tuple(base.children), Logical("STRUCT", d.args), row, value)
               [] base.name = "Tuple" ->
                    \A f \in DOMAIN row :
                        Same(base.children[f], row[f], d.args[f], value[f], written)
               [] base.name \in {"DateTime", "DateTime64", "Time", "Time64"} ->
                    IF written THEN FloorOf(row, TicksOf(base), value, TickPrecision[d.id])
                    ELSE FloorOf(value, TickPrecision[d.id], row, TicksOf(base))
               [] base.name \in {"Enum8", "Enum16"} -> <<value, row>> \in ToSet(base.literals)
               [] base.name = "FixedString" ->
                    /\ IsPrefix(value, row)
                    /\ \A i \in Len(value) + 1 .. Len(row) : written /\ row[i] = 0
               [] IsDecimal(base) ->
                    LET number == IF d.id = "DECIMAL" THEN <<value, d.args[2]>> ELSE value
                    IN  row * 10 ^ number[2] = number[1] * 10 ^ DecimalScale(base)
               [] base.name \in {"Date", "Date32"} -> d.id = "DATE" /\ value = row
               [] OTHER ->
                    CASE d.id = "VARCHAR" -> value = TextOf(base, row)
                      [] d.id = "BOOLEAN" -> value = 1 <=> row # 0
                      [] d.id = "DECIMAL" -> value = row * 10 ^ d.args[2]
                      [] d.id \in NotNumbers -> FALSE
                      [] OTHER -> value = row

\* DuckDB has a value for the row: its text is UTF-8, its times are within a
\* day, the keys of its maps are distinct.
RECURSIVE Representable(_, _)
Representable(t, row) ==
    LET base == Unwrap(t)
    IN  row # Null =>
            CASE base.name = "Array" ->
                    \A i \in DOMAIN row : Representable(base.children[1], row[i])
              [] base.name = "Tuple" ->
                    \A f \in DOMAIN row : Representable(base.children[f], row[f])
              [] base.name = "Map" ->
                    /\ \A i \in DOMAIN row : Representable(Tuple(base.children), row[i])
                    /\ \A i, j \in DOMAIN row : i # j => row[i][1] # row[j][1]
              [] base.name \in {"String", "FixedString"} -> \A i \in DOMAIN row : row[i] # BadByte
              [] base.name \in {"Time", "Time64"} ->
                    row >= 0 /\ row <= SecsPerDay * Step ^ TicksOf(base)
              [] OTHER -> TRUE

\* A column of type t has room for the value.
RECURSIVE Fits(_, _)
Fits(t, value) ==
    LET base == Unwrap(t)
    IN  IF value = Null THEN IsNullable(t)
        ELSE CASE base.name = "Array" ->
                    \A i \in DOMAIN value : Fits(base.children[1], value[i])
               [] base.name = "Tuple" ->
                    \A f \in DOMAIN value : Fits(base.children[f], value[f])
               [] base.name = "Map" ->
                    \A i \in DOMAIN value : Fits(Tuple(base.children), value[i])
               [] base.name = "Date" -> 0 <= value /\ value <= UInt16Max
               [] base.name = "Date32" -> MinDate <= value /\ value <= MaxDate
               [] base.name = "DateTime" -> 0 <= value /\ value < (UInt32Max + 1) * Step ^ Micros
               [] base.name = "DateTime64" ->
                    /\ MinMicros <= value /\ value <= MaxMicros
                    /\ value * Step ^ TicksOf(base) <= Int64Max * Step ^ Micros
               [] base.name = "FixedString" -> Len(value) <= base.literals[1]
               [] base.name \in {"Enum8", "Enum16"} ->
                    \E e \in ToSet(base.literals) : e[1] = value
               [] base.name = "Int256" ->
                    value # <<>> /\ value[1] <= Int256Max /\ value[1] >= -Int256Max - 1
               [] IsDecimal(base) /\ IsWide(base) ->
                    value # <<>> /\ value[1] * 10 ^ DecimalScale(base) % 10 ^ value[2] = 0
               [] base.name = "IPv4" -> value # <<>>
               [] OTHER -> TRUE

\* Values of DuckDB type d are let into a column of another type t, or of an
\* element of it: AppendNumeric() compares how DuckDB stores a value, not what
\* it means, and AppendDecimal() the scale, not the width.
RECURSIVE Mistaken(_, _)
Mistaken(t, d) ==
    LET base == Unwrap(t)
    IN  \/ /\ base.name \in NumericColumns /\ Accepts(base, d)
           /\ d.id \in NotNumbers \cup {"DECIMAL"}
        \/ /\ IsDecimal(base) /\ Accepts(base, d)
           /\ DecimalWidth(base) < d.args[1]
        \/ /\ d.id \in {"LIST", "STRUCT", "MAP"}
           /\ \E i \in DOMAIN base.children \cap DOMAIN d.args :
                 Mistaken(base.children[i], d.args[i])

Slices == {slice \in (0 .. Len(server)) \X (0 .. Len(server)) :
               slice[1] + slice[2] <= Len(server)}

\* The rows of a slice are those of the server.
ShowsRows(rows, offset, count) ==
    \A i \in 1 .. count : Same(type, server[offset + i], Bound, rows[i], FALSE)

-----------------------------------------------------------------------------
(***************************************************************************)
(* An INSERT that succeeds has stored the very rows it was given, however  *)
(* they came in chunks, NULLs, selections and nested lists: AppendVector() *)
(* never stores a NULL as a default or an element of another row.  With a  *)
(* stale type it is refused or has still stored the values, but for the    *)
(* stale types that pass for the column's (Mistaken): "the table changed   *)
(* since its metadata was cached" (ThrowMismatch()) is not said of those.  *)
(***************************************************************************)
StoredExactly ==
    phase = "done" /\ ~Mistaken(type, Bound) =>
        LET before == Len(server) - Len(sunk)
        IN  /\ before >= 0
            /\ \A i \in DOMAIN sunk : Same(type, server[before + i], Bound, sunk[i], TRUE)

(***************************************************************************)
(* An INSERT fails on a conversion only if a row has no place in the       *)
(* column (or the column changed): every range check and the server-side   *)
(* conversion let all values pass that the type can hold.                  *)
(***************************************************************************)
RefusedOnlyIfUnfit ==
    phase = "failed" => type # cached \/ \E i \in DOMAIN sunk : ~Fits(type, sunk[i])

(***************************************************************************)
(* ConvertColumn() returns for every slice of a block exactly the rows of  *)
(* the slice, and refuses it if and only if one of them, not merely a      *)
(* value under a NULL or in another slice, has no DuckDB value.            *)
(***************************************************************************)
ReadExactly ==
    phase # "inserting" /\ type = cached =>
        LET column == Block
        IN  \A slice \in Slices :
            LET rows == Read(column, slice[1], slice[2])
                readable == \A i \in 1 .. slice[2] :
                               Representable(type, server[slice[1] + i])
            IN  IF readable THEN rows # Refused /\ ShowsRows(rows, slice[1], slice[2])
                ELSE rows = Refused

(***************************************************************************)
(* "the table changed since its metadata was cached; run CALL              *)
(* clickhouse_clear_cache() and retry" (ThrowUnexpectedColumn()), "a SELECT *)
(* through ch's stale metadata fails" (insert.test): a scan with a stale   *)
(* column type is refused unless it shows the values all the same.         *)
(***************************************************************************)
StaleReadRefused ==
    phase # "inserting" /\ type # cached =>
        LET column == Block
        IN  \A slice \in Slices :
            LET rows == Read(column, slice[1], slice[2])
            IN  rows = Refused \/ ShowsRows(rows, slice[1], slice[2])
=============================================================================
