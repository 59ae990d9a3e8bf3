------------------------ MODULE ClickhouseConversion ------------------------
(***************************************************************************)
(* ClickhouseConversion: count rows of a column of a ClickHouse block,     *)
(* from row offset on, as the rows of a DuckDB vector.  Rows count from 0. *)
(***************************************************************************)
EXTENDS ClickhouseWriter

CONSTANT SecsPerDay

ASSUME SecsPerDayAssumption == SecsPerDay \in Nat \ {0}

\* The checks that end in ThrowUnexpectedColumn(): the scalar columns that
\* are decoded as d.  Of a decimal, neither width nor scale is looked at.
Decodes(t, d) ==
    CASE d.id = "BOOLEAN" -> t.name \in {"Bool", "UInt8"}
      [] d.id = "DECIMAL" -> IsDecimal(t)
      [] d.id \in {"TIME", "TIME_NS"} -> t.name \in {"Time", "Time64"}
      [] d.id = "ENUM" -> t.name \in {"Enum8", "Enum16"} /\ ToSet(Labels(t)) \subseteq ToSet(d.args)
      [] OTHER -> t.name \in NativeScalars \cap DOMAIN ScalarTypes /\ ScalarTypes[t.name] = d.id

IsValidUtf8(text) == \A i \in DOMAIN text : text[i] # BadByte

TicksOf(t) == IF t.name \in {"DateTime", "Time"} THEN 0 ELSE Precision(t)

EnumByPosition(t, d, raw) ==
    IF raw \in DOMAIN d.args THEN d.args[raw] ELSE Refused

\* ConvertEnum(): from a value to the position of its label in the vector's
\* dictionary.
EnumByLabel(t, d, raw) ==
    LET entries == {e \in ToSet(t.literals) : e[2] = raw}
    IN  IF entries = {} THEN Refused
        ELSE d.args[CHOOSE p \in DOMAIN d.args : \E e \in entries : d.args[p] = e[1]]

\* One value; that of a decimal is cast to the vector's integer type.
Decode(t, d, raw) ==
    CASE d.id = "BOOLEAN" -> IF raw # 0 THEN 1 ELSE 0
      [] d.id = "DECIMAL" -> TruncatedTo(PhysicalType(d), raw)
      [] d.id = "VARCHAR" -> IF IsValidUtf8(raw) THEN raw ELSE Refused
      [] d.id = "TIMESTAMP_TZ" -> ScaleTicks(raw, TicksOf(t), Micros)
      [] d.id \in {"TIME", "TIME_NS"} ->
            IF raw \in 0 .. SecsPerDay * Step ^ TicksOf(t)
            THEN ScaleTicks(raw, TicksOf(t), TickPrecision[d.id]) ELSE Refused
      [] d.id = "ENUM" -> EnumByLabel(t, d, raw)
      [] OTHER -> raw

\* What lies under a NULL flag is not looked at.
ConvertScalar(col, d, offset, valid) ==
    LET values == [i \in DOMAIN valid |->
                      IF valid[i] THEN Decode(col.type, d, col.data[offset + i]) ELSE Null]
    IN  IF ~Decodes(col.type, d) \/ Refused \in ToSet(values) THEN Refused ELSE values

RECURSIVE ConvertColumn(_, _, _, _)

HasDuplicateKey(pairs) ==
    \E i, j \in DOMAIN pairs : i # j /\ pairs[i][1] = pairs[j][1]

ChildStartAtZero(array, offset, count) == 0

\* Where the elements of the converted rows begin.
ChildStart(array, offset, count) == IF count = 0 THEN 0 ELSE GetOffset(array, offset)

\* The entries are relative to the elements of these rows only.
ConvertList(col, d, offset, count) ==
    LET sizes == [i \in 1 .. count |-> GetSize(col, offset + i - 1)]
        ends == [i \in 0 .. count |-> FoldLeft(LAMBDA n, s : n + s, 0, SubSeq(sizes, 1, i))]
        element == IF d.id = "MAP" THEN Logical("STRUCT", d.args) ELSE d.args[1]
        elements == IF ends[count] = 0 THEN <<>>
                    ELSE ConvertColumn(col.elements, element, ChildStart(col, offset, count),
                                       ends[count])
        rows == [i \in 1 .. count |-> SubSeq(elements, ends[i - 1] + 1, ends[i])]
    IN  IF \/ col.type.name # "Array"
           \/ elements = Refused
           \/ d.id = "MAP" /\ \E i \in DOMAIN rows : HasDuplicateKey(rows[i])
        THEN Refused ELSE rows

ConvertStruct(col, d, offset, count) ==
    LET fields == [f \in DOMAIN d.args |-> ConvertColumn(col.fields[f], d.args[f], offset, count)]
    IN  IF \/ col.type.name # "Tuple"
           \/ Len(col.fields) # Len(d.args)
           \/ Refused \in ToSet(fields)
        THEN Refused ELSE [i \in 1 .. count |-> [f \in DOMAIN fields |-> fields[f][i]]]

ConvertColumn(col, d, offset, count) ==
    LET nullable == col.type.name = "Nullable"
        values == IF nullable THEN col.nested ELSE col
        valid == [i \in 1 .. count |-> nullable => ~col.nulls[offset + i]]
        rows == CASE d.id \in {"LIST", "MAP"} -> ConvertList(values, d, offset, count)
                  [] d.id = "STRUCT" -> ConvertStruct(values, d, offset, count)
                  [] OTHER -> ConvertScalar(values, d, offset, valid)
    IN  CASE values.type.name = "Nothing" -> [i \in 1 .. count |-> Null]
          [] values.type.name # "Nothing" /\ rows = Refused -> Refused
          [] OTHER -> [i \in 1 .. count |-> IF valid[i] THEN rows[i] ELSE Null]
=============================================================================
