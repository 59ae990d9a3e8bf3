-------------------------- MODULE ClickhouseWriter --------------------------
(***************************************************************************)
(* ClickhouseWriter: the values of a DuckDB vector appended to a column of *)
(* the block an INSERT sends, and the conversion the server makes of those *)
(* that are sent as text.  Refused stands for the exception.               *)
(***************************************************************************)
EXTENDS ColumnFormats

CONSTANTS
    Step,                  \* ticks of one precision in a tick of the next lower
    Int32Max, Int64Max,    \* limits of the stored types, scaled down together:
    UInt16Max,             \*   days of a Date
    MinDate, MaxDate,      \*   days of a Date32, 1900-01-01 to 2299-12-31
    UInt32Max,             \*   seconds of a DateTime
    MinMicros, MaxMicros,  \*   microseconds of a DateTime64, the same years
    Int256Max

Int16Max == 32767

ASSUME LimitsAssumption ==
    /\ {Step, Int32Max, Int64Max, UInt16Max, UInt32Max, Int256Max} \subseteq Nat \ {0}
    /\ Int16Max < Int32Max /\ Int32Max < Int64Max
    /\ MinDate < 0 /\ MinMicros < 0 /\ MaxDate > 0 /\ MaxMicros > 0

\* ClickhouseUtils::ScaleTicks(): floors when precision is lost.
ScaleTicks(ticks, from, to) ==
    IF from <= to THEN ticks * Step ^ (to - from) ELSE ticks \div Step ^ (from - to)

TryRescaleTicks(ticks, from, to) ==
    LET result == ScaleTicks(ticks, from, to)
    IN  IF to <= from \/ result \in (-Int64Max - 1) .. Int64Max THEN result ELSE Refused

\* Decimal digits of a second in DuckDB's timestamp and time types.
TickPrecision == [TIMESTAMP_SEC |-> 0, TIMESTAMP_MS |-> 1, TIMESTAMP |-> 2,
                  TIMESTAMP_TZ |-> 2, TIMESTAMP_NS |-> 3, TIME |-> 2, TIME_NS |-> 3]
Timestamps == DOMAIN TickPrecision \ {"TIME", "TIME_NS"}

\* LogicalType::InternalType()
PhysicalType(d) ==
    LET Integer == [BOOLEAN |-> "BOOL", TINYINT |-> "INT8", SMALLINT |-> "INT16",
                    INTEGER |-> "INT32", DATE |-> "INT32", BIGINT |-> "INT64",
                    UTINYINT |-> "UINT8", ENUM |-> "UINT8", USMALLINT |-> "UINT16",
                    UINTEGER |-> "UINT32", UBIGINT |-> "UINT64", FLOAT |-> "FLOAT",
                    DOUBLE |-> "DOUBLE"]
    IN  CASE d.id = "DECIMAL" -> CASE d.args[1] <= 4 -> "INT16"
                                   [] d.args[1] \in 5 .. 9 -> "INT32"
                                   [] d.args[1] \in 10 .. 18 -> "INT64"
                                   [] OTHER -> "INT128"
          [] d.id \in DOMAIN TickPrecision -> "INT64"
          [] d.id \in DOMAIN Integer -> Integer[d.id]
          [] OTHER -> d.id

\* The columns of AppendNumeric(), and of AppendBool() for a UInt8 that is a Bool.
NumericColumns == {"Int8", "Int16", "Int32", "Int64", "UInt8", "UInt16", "UInt32",
                   "UInt64", "Float32", "Float64"}

\* The checks that end in ThrowMismatch(): may values of DuckDB type d be
\* appended to a scalar column of type t?
Accepts(t, d) ==
    CASE t.name = "Bool" -> d.id = "BOOLEAN"
      [] t.name \in NumericColumns ->
            \/ PhysicalType(d) = PhysicalType(Logical(ScalarTypes[t.name], <<>>))
            \/ t.name = "UInt8" /\ d.id = "BOOLEAN"
      [] t.name \in {"Int128", "UInt128", "UUID"} -> d.id = ScalarTypes[t.name]
      [] IsDecimal(t) -> d.id = "DECIMAL" /\ d.args[2] = DecimalScale(t)
      [] t.name \in {"String", "FixedString"} -> d.id = "VARCHAR"
      [] t.name \in {"Date", "Date32"} -> d.id = "DATE"
      [] t.name \in {"DateTime", "DateTime64"} -> d.id \in Timestamps
      [] t.name \in {"Time", "Time64"} -> d.id \in {"TIME", "TIME_NS"}
      [] t.name \in {"Enum8", "Enum16"} -> d.id = "ENUM"
      [] OTHER -> FALSE

\* The label and value pairs of an enum with a given label.
EntriesOf(t, label) == {e \in ToSet(t.literals) : e[1] = label}

\* static_cast of an integer to one of another width; 128 bits hold every
\* value of the model.
Wrapped(n, max) == ((n + max + 1) % (2 * (max + 1))) - max - 1

TruncatedTo(physical, n) ==
    LET limit == [INT16 |-> Int16Max, INT32 |-> Int32Max, INT64 |-> Int64Max]
    IN  IF physical \in DOMAIN limit THEN Wrapped(n, limit[physical]) ELSE n

\* ch::ColumnDecimal holds integers of 32, 64 or 128 bits; its Append(Int128)
\* casts to theirs.
DecimalStorage(t) ==
    IF DecimalWidth(t) <= 9 THEN "INT32" ELSE PhysicalType(ToDuckDB(t))

\* A vector of enum values holds their positions in the dictionary, from 0.
Position(d, label) == (CHOOSE p \in DOMAIN d.args : d.args[p] = label) - 1

\* AppendNumeric() and AppendDecimal(): the number the vector holds, whatever
\* it counts.
StoreNumber(t, d, value) ==
    CASE IsDecimal(t) -> TruncatedTo(DecimalStorage(t), value)
      [] ~IsDecimal(t) /\ d.id = "ENUM" -> Position(d, value)
      [] OTHER -> value

\* What one value is stored as.
Store(t, d, value) ==
    CASE t.name = "Date" -> IF value \in 0 .. UInt16Max THEN value ELSE Refused
      [] t.name = "Date32" -> IF value \in MinDate .. MaxDate THEN value ELSE Refused
      [] t.name = "DateTime" ->
            LET seconds == ScaleTicks(value, TickPrecision[d.id], 0)
            IN  IF seconds \in 0 .. UInt32Max THEN seconds ELSE Refused
      [] t.name = "DateTime64" ->
            LET micros == TryRescaleTicks(value, TickPrecision[d.id], Micros)
            IN  IF micros # Refused /\ micros \in MinMicros .. MaxMicros
                THEN TryRescaleTicks(value, TickPrecision[d.id], Precision(t))
                ELSE Refused
      [] t.name = "Time" -> ScaleTicks(value, TickPrecision[d.id], 0)
      [] t.name = "Time64" -> ScaleTicks(value, TickPrecision[d.id], Precision(t))
      [] t.name = "FixedString" ->
            IF Len(value) > t.literals[1] THEN Refused
            ELSE value \o [i \in 1 .. t.literals[1] - Len(value) |-> 0]
      [] t.name \in {"Enum8", "Enum16"} ->
            IF EntriesOf(t, value) = {} THEN Refused
            ELSE (CHOOSE e \in EntriesOf(t, value) : TRUE)[2]
      [] t.name \in NumericColumns \/ IsDecimal(t) -> StoreNumber(t, d, value)
      [] OTHER -> value

\* What goes under a NULL flag: an enum needs one of its values there.
Default(t) ==
    CASE t.name = "String" -> <<>>
      [] t.name = "FixedString" -> [i \in 1 .. t.literals[1] |-> 0]
      [] t.name \in {"Enum8", "Enum16"} -> EnumEntries(t)[1][2]
      [] OTHER -> 0

-----------------------------------------------------------------------------
\* AppendInput: rows sel of source; nulls_as_default if the NULL flags live in
\* an enclosing Nullable.
Index(input, i) == input.source.sel[input.sel[i]]
IsValid(input, i) == input.source.valid[Index(input, i)]
SomeNull(input) == \E i \in DOMAIN input.sel : ~IsValid(input, i)

\* ForEachValue() under the Append function of a scalar type.
AppendScalar(input, col) ==
    LET v == input.source
        values == [i \in DOMAIN input.sel |->
                      IF IsValid(input, i) THEN Store(col.type, v.type, v.data[Index(input, i)])
                      ELSE IF input.nulls_as_default THEN Default(col.type) ELSE Refused]
    IN  IF ~Accepts(col.type, v.type) \/ Refused \in ToSet(values) THEN Refused
        ELSE [col EXCEPT !.data = @ \o values]

RECURSIVE AppendRows(_, _)

ListEntry(input, i) ==
    IF IsValid(input, i) THEN input.source.data[Index(input, i)] ELSE [offset |-> 0, length |-> 0]

EndOffsetsFromZero(start, input) ==
    [i \in DOMAIN input.sel |->
        FoldLeft(LAMBDA n, j : n + ListEntry(input, j).length, 0, [j \in 1 .. i |-> j])]

\* The end offsets of the rows appended to an array that ends at start.
EndOffsets(start, input) ==
    [i \in DOMAIN input.sel |->
        FoldLeft(LAMBDA n, j : n + ListEntry(input, j).length, start, [j \in 1 .. i |-> j])]

\* Every element first, then one absolute end offset per row.
AppendListRows(input, array) ==
    LET element_sel ==
            FlattenSeq([i \in DOMAIN input.sel |->
                [k \in 1 .. ListEntry(input, i).length |-> ListEntry(input, i).offset + k]])
        elements == IF element_sel = <<>> THEN array.elements
                    ELSE AppendRows([source |-> input.source.child, sel |-> element_sel,
                                     nulls_as_default |-> FALSE], array.elements)
    IN  IF elements = Refused \/ (SomeNull(input) /\ ~input.nulls_as_default) THEN Refused
        ELSE [array EXCEPT !.elements = elements,
                           !.offsets = @ \o EndOffsets(Size(array.elements), input)]

AppendList(input, col) ==
    IF input.source.type.id # "LIST" THEN Refused ELSE AppendListRows(input, col)

\* ColumnMap does not expose its array: a new one is filled and appended.
AppendMap(input, col) ==
    LET array == IF input.source.type.id # "MAP" THEN Refused
                 ELSE AppendListRows(input, EmptyColumn(MapArray(col.type)))
    IN  IF array = Refused THEN Refused
        ELSE [col EXCEPT !.array = AppendColumn(@, array)]

AppendStruct(input, col) ==
    LET v == Flatten(input.source)
        fields == [f \in DOMAIN col.fields |->
                      AppendRows([input EXCEPT !.source = v.children[f]], col.fields[f])]
    IN  IF \/ input.source.type.id # "STRUCT"
           \/ Len(input.source.type.args) # Len(col.fields)
           \/ SomeNull([input EXCEPT !.source = v]) /\ ~input.nulls_as_default
           \/ Refused \in ToSet(fields)
        THEN Refused ELSE [col EXCEPT !.fields = fields]

AppendNullable(input, col) ==
    LET nested == AppendRows([input EXCEPT !.nulls_as_default = TRUE], col.nested)
    IN  IF nested = Refused THEN Refused
        ELSE [col EXCEPT !.nulls = @ \o [i \in DOMAIN input.sel |-> ~IsValid(input, i)],
                         !.nested = nested]

\* Fills a plain column, then dictionary-encodes it.
AppendLowCardinality(input, col) ==
    LET values == AppendRows(input, EmptyColumn(col.type.children[1]))
    IN  IF values = Refused THEN Refused
        ELSE [col EXCEPT !.values = AppendColumn(@, values)]

AppendRows(input, col) ==
    CASE col.type.name = "Nullable" -> AppendNullable(input, col)
      [] col.type.name = "LowCardinality" -> AppendLowCardinality(input, col)
      [] col.type.name = "Array" -> AppendList(input, col)
      [] col.type.name = "Tuple" -> AppendStruct(input, col)
      [] col.type.name = "Map" -> AppendMap(input, col)
      [] OTHER -> AppendScalar(input, col)

AppendVector(source, col) ==
    AppendRows([source |-> source, sel |-> [i \in DOMAIN source.sel |-> i],
                nulls_as_default |-> FALSE], col)

-----------------------------------------------------------------------------
\* The server's CAST of the text of an integer: wraps around.
CastInt256(n) == Wrapped(n, Int256Max)

CastUnchecked(type, text) ==
    CASE text = <<>> -> Refused
      [] type.name = "Int256" /\ text # <<>> -> CastInt256(text[1])
      [] IsDecimal(type) /\ text # <<>> ->
            IF text[2] <= DecimalScale(type)
            THEN text[1] * 10 ^ (DecimalScale(type) - text[2])
            ELSE text[1] \div 10 ^ (text[2] - DecimalScale(type))
      [] OTHER -> text[1]

ParseTextByLength(type, text) ==
    IF IsDecimal(type) /\ text # <<>> /\ text[2] > DecimalScale(type) THEN Refused
    ELSE CastUnchecked(type, text)

\* ParseText(): the CAST, which fails on text that is none of the type's (here
\* the empty one), under a check that it lost nothing: the integer prints back
\* as it was; no digit but 0 beyond the scale.  The text of an integer n is
\* <<n>>, that of n / 10^k is <<n, k>>.
ParseText(type, text) ==
    CASE type.name = "Int256" /\ text # <<>> ->
            IF CastInt256(text[1]) = text[1] THEN CastUnchecked(type, text) ELSE Refused
      [] IsDecimal(type) /\ text # <<>> ->
            IF \/ text[2] <= DecimalScale(type)
               \/ text[1] % 10 ^ (text[2] - DecimalScale(type)) = 0
            THEN CastUnchecked(type, text) ELSE Refused
      [] OTHER -> CastUnchecked(type, text)

\* Only NULLs skip the conversion; BFloat16 is cast from Float32.
ServerConversion(node, row) ==
    CASE Of(node).base.name = "BFloat16" -> row
      [] Of(node).base.name # "BFloat16" /\ row = Null -> Null
      [] OTHER -> ParseText(Of(node).base, row)
=============================================================================
