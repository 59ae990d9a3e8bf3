--------------------------- MODULE ClickhouseTypes ---------------------------
(***************************************************************************)
(* ClickhouseTypes: how a ClickHouse type, as the parser's tree of nodes,  *)
(* is shown to DuckDB, which expression reads a column of it from the      *)
(* server, and how values get into such a column.                          *)
(*                                                                         *)
(* Precisions count groups of three decimal digits of a second: 0, 3, 6    *)
(* and 9 digits are 0, 1, 2 and 3.                                         *)
(***************************************************************************)
EXTENDS Integers, Sequences, TLC

Micros == 2
Nanos == 3

\* ClickhouseTypeNode: name, literal arguments, child types.
Node(name, literals, children) ==
    [name |-> name, literals |-> literals, children |-> children]
Scalar(name) == Node(name, <<>>, <<>>)
Sized(name, literals) == Node(name, literals, <<>>)
Nullable(t) == Node("Nullable", <<>>, <<t>>)
LowCardinality(t) == Node("LowCardinality", <<>>, <<t>>)
Array(t) == Node("Array", <<>>, <<t>>)
Tuple(ts) == Node("Tuple", <<>>, ts)
Map(k, v) == Node("Map", <<>>, <<k, v>>)

\* A DuckDB LogicalType: its id, and its parameters or child types.
Logical(id, args) == [id |-> id, args |-> args]

-----------------------------------------------------------------------------
Wrappers == {"Nullable", "LowCardinality", "SimpleAggregateFunction"}
Inner(node) == node.children[Len(node.children)]

\* Strips the wrappers that do not change how values are decoded.
RECURSIVE Unwrap(_)
Unwrap(node) ==
    IF node.name \in Wrappers THEN Unwrap(Inner(node)) ELSE node

\* ClickhouseTypeWrappers::Of(): LowCardinality outside, Nullable inside.
Of(node) ==
    LET inner == IF node.name = "LowCardinality" THEN node.children[1] ELSE node
    IN  [nullable |-> inner.name = "Nullable",
         base     |-> IF inner.name = "Nullable" THEN inner.children[1] ELSE inner]

RECURSIVE IsNullable(_)
IsNullable(node) ==
    \/ node.name = "Nullable"
    \/ node.name \in Wrappers /\ IsNullable(Inner(node))

\* GetDecimalInfo(): width and scale, either given or implied by the name.
DecimalWidths == [Decimal32 |-> 9, Decimal64 |-> 18, Decimal128 |-> 38, Decimal256 |-> 76]
IsDecimal(node) == node.name = "Decimal" \/ node.name \in DOMAIN DecimalWidths
DecimalWidth(node) ==
    IF node.name = "Decimal" THEN node.literals[1] ELSE DecimalWidths[node.name]
DecimalScale(node) ==
    IF node.name = "Decimal" THEN node.literals[2] ELSE node.literals[1]

\* Decimal(P <= 38) is a DuckDB DECIMAL, wider ones are text.
IsWide(node) == DecimalWidth(node) > 38

\* DateTime64 and Time64 without a literal have millisecond precision.
Precision(node) == IF node.literals = <<>> THEN 1 ELSE node.literals[1]

\* ParseEnumEntries(): the literals are label and value pairs, sorted by value.
EnumEntries(node) == SortSeq(node.literals, LAMBDA a, b : a[2] < b[2])
Labels(node) == [i \in DOMAIN node.literals |-> EnumEntries(node)[i][1]]

SemiStructured == {"JSON", "Object", "Variant", "Dynamic"}
GeoTypes == {"Point", "Ring", "LineString", "MultiLineString", "Polygon",
             "MultiPolygon", "Geometry"}

\* The scalar types with a DuckDB type of their own.
ScalarTypes ==
    [Bool |-> "BOOLEAN", Int8 |-> "TINYINT", Int16 |-> "SMALLINT",
     Int32 |-> "INTEGER", Int64 |-> "BIGINT", UInt8 |-> "UTINYINT",
     UInt16 |-> "USMALLINT", UInt32 |-> "UINTEGER", UInt64 |-> "UBIGINT",
     Int128 |-> "HUGEINT", UInt128 |-> "UHUGEINT", Float32 |-> "FLOAT",
     BFloat16 |-> "FLOAT", Float64 |-> "DOUBLE", String |-> "VARCHAR",
     FixedString |-> "VARCHAR", Date |-> "DATE", Date32 |-> "DATE",
     DateTime |-> "TIMESTAMP_TZ", DateTime64 |-> "TIMESTAMP_TZ",
     Time |-> "TIME", UUID |-> "UUID"]

RECURSIVE ToDuckDB(_)
ToDuckDB(node) ==
    LET type == Unwrap(node)
        children == [i \in DOMAIN type.children |-> ToDuckDB(type.children[i])]
    IN  CASE type.name \in DOMAIN ScalarTypes -> Logical(ScalarTypes[type.name], <<>>)
          [] IsDecimal(type) ->
                IF IsWide(type) THEN Logical("VARCHAR", <<>>)
                ELSE Logical("DECIMAL", <<DecimalWidth(type), DecimalScale(type)>>)
          [] type.name = "Time64" ->
                Logical(IF Precision(type) > Micros THEN "TIME_NS" ELSE "TIME", <<>>)
          [] type.name \in {"Enum8", "Enum16"} -> Logical("ENUM", Labels(type))
          [] type.name = "Array" -> Logical("LIST", children)
          [] type.name = "Tuple" -> Logical("STRUCT", children)
          [] type.name = "Map" -> Logical("MAP", children)
          [] OTHER -> Logical("VARCHAR", <<>>)   \* JSON is text for the transfer

-----------------------------------------------------------------------------
\* The scalar types that are decoded straight from the native protocol.
NativeScalars ==
    (DOMAIN ScalarTypes \ {"BFloat16"}) \cup {"Time64", "Enum8", "Enum16", "Nothing"}

\* A read expression: the column itself, or a function over the expressions
\* that read its elements.
AsIs == <<"as is">>

RECURSIVE ReadExpression(_)
ReadExpression(node) ==
    LET type == Unwrap(node)
        elements == [i \in DOMAIN type.children |-> ReadExpression(type.children[i])]
    IN  CASE IsDecimal(type) -> IF IsWide(type) THEN <<"toString">> ELSE AsIs
          [] type.name \in NativeScalars -> AsIs
          [] type.name = "BFloat16" -> <<"toFloat32">>
          [] type.name \in GeoTypes -> <<"wkt">>
          [] type.name \in SemiStructured -> <<"toJSONString">>
          [] type.name = "Array" ->
                IF elements[1] = AsIs THEN AsIs ELSE <<"arrayMap", elements>>
          [] type.name = "Tuple" ->
                IF \A i \in DOMAIN elements : elements[i] = AsIs THEN AsIs
                ELSE <<"tuple", elements>>
          [] type.name = "Map" -> <<"arrayZip", elements>>
          [] OTHER -> <<"toString">>

-----------------------------------------------------------------------------
\* ClickhouseWriter::GetWriteMode()
WrittenNatively == (NativeScalars \ {"Nothing"})
ConvertedTypes == {"IPv4", "IPv6", "Int256", "UInt256", "BFloat16", "JSON"}
                      \cup (GeoTypes \ {"Geometry"})

RECURSIVE GetWriteMode(_)
GetWriteMode(node) ==
    LET type == Of(node).base
    IN  CASE IsDecimal(type) -> IF IsWide(type) THEN "server conversion" ELSE "native"
          [] type.name \in WrittenNatively -> "native"
          [] type.name \in ConvertedTypes -> "server conversion"
          [] type.name \in {"Array", "Tuple", "Map"} ->
                IF \A i \in DOMAIN type.children : GetWriteMode(type.children[i]) = "native"
                THEN "native" ELSE "unsupported"
          [] OTHER -> "unsupported"

\* ServerInputType(): what input() receives for a column the server converts.
ServerInputType(node) ==
    LET base == Scalar(IF Of(node).base.name = "BFloat16" THEN "Float32" ELSE "String")
    IN  IF IsNullable(node) THEN Nullable(base) ELSE base
=============================================================================
