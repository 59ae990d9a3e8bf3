---------------------------- MODULE ColumnFormats ----------------------------
(***************************************************************************)
(* The two column formats a transfer converts between: the columns of      *)
(* clickhouse-cpp and the vectors of DuckDB.  Both libraries are outside   *)
(* the repository; this is their layout as the conversions rely on it.     *)
(*                                                                         *)
(* A value is Null, a scalar, or a sequence (of list elements, of fields,  *)
(* or of key and value pairs).  Text is a sequence of symbols.             *)
(***************************************************************************)
EXTENDS ClickhouseTypes, SequencesExt

CONSTANTS Null, Refused

BadByte == 255     \* a symbol that is not valid UTF-8

\* The elements of a column of type Map: an Array(Tuple(K, V)).
MapArray(t) == Array(Tuple(t.children))

\* CreateColumnByType(), CloneEmpty()
RECURSIVE EmptyColumn(_)
EmptyColumn(t) ==
    CASE t.name = "Nullable" ->
            [type |-> t, nulls |-> <<>>, nested |-> EmptyColumn(t.children[1])]
      [] t.name = "LowCardinality" -> [type |-> t, values |-> EmptyColumn(t.children[1])]
      [] t.name = "Array" ->
            [type |-> t, offsets |-> <<>>, elements |-> EmptyColumn(t.children[1])]
      [] t.name = "Tuple" ->
            [type |-> t, fields |-> [i \in DOMAIN t.children |-> EmptyColumn(t.children[i])]]
      [] t.name = "Map" -> [type |-> t, array |-> EmptyColumn(MapArray(t))]
      [] OTHER -> [type |-> t, data |-> <<>>]

RECURSIVE Size(_)
Size(col) ==
    CASE col.type.name = "Nullable" -> Len(col.nulls)
      [] col.type.name = "LowCardinality" -> Size(col.values)
      [] col.type.name = "Array" -> Len(col.offsets)
      [] col.type.name = "Tuple" -> Size(col.fields[1])
      [] col.type.name = "Map" -> Size(col.array)
      [] OTHER -> Len(col.data)

\* ColumnArray: GetOffset() is the start of a row in the elements (rows count
\* from 0, as in the library), GetSize() its number of elements.
GetOffset(array, row) == IF row = 0 THEN 0 ELSE array.offsets[row]
GetSize(array, row) == array.offsets[row + 1] - GetOffset(array, row)

\* The rows a column stands for, as the server reads a block of them.
RECURSIVE RowsOf(_)
RowsOf(col) ==
    CASE col.type.name = "Nullable" ->
            LET rows == RowsOf(col.nested)
            IN  [i \in DOMAIN col.nulls |-> IF col.nulls[i] THEN Null ELSE rows[i]]
      [] col.type.name = "LowCardinality" -> RowsOf(col.values)
      [] col.type.name = "Array" ->
            LET rows == RowsOf(col.elements)
            IN  [i \in DOMAIN col.offsets |->
                    SubSeq(rows, GetOffset(col, i - 1) + 1, col.offsets[i])]
      [] col.type.name = "Tuple" ->
            LET rows == [f \in DOMAIN col.fields |-> RowsOf(col.fields[f])]
            IN  [i \in 1 .. Size(col) |-> [f \in DOMAIN rows |-> rows[f][i]]]
      [] col.type.name = "Map" -> RowsOf(col.array)
      [] OTHER -> col.data

\* What the server leaves under a NULL flag: any value, so one that could not
\* be read if it were not NULL.
Placeholder(t) ==
    CASE t.name \in {"String", "FixedString"} -> <<BadByte>>
      [] t.name \in {"Array", "Map"} -> <<>>
      [] OTHER -> -1

\* The column the server sends for rows of type t.
RECURSIVE Encode(_, _)
Encode(t, rows) ==
    CASE t.name = "Nullable" ->
            [type |-> t, nulls |-> [i \in DOMAIN rows |-> rows[i] = Null],
             nested |-> Encode(t.children[1],
                               [i \in DOMAIN rows |-> IF rows[i] = Null
                                                      THEN Placeholder(t.children[1])
                                                      ELSE rows[i]])]
      [] t.name = "LowCardinality" -> [type |-> t, values |-> Encode(t.children[1], rows)]
      [] t.name = "Array" ->
            [type |-> t,
             offsets |-> [i \in DOMAIN rows |-> Len(FlattenSeq(SubSeq(rows, 1, i)))],
             elements |-> Encode(t.children[1], FlattenSeq(rows))]
      [] t.name = "Tuple" ->
            [type |-> t,
             fields |-> [f \in DOMAIN t.children |->
                            Encode(t.children[f], [i \in DOMAIN rows |-> rows[i][f]])]]
      [] t.name = "Map" -> [type |-> t, array |-> Encode(MapArray(t), rows)]
      [] OTHER -> [type |-> t, data |-> rows]

\* Column::Append(): the rows of col after those of target.
AppendColumn(target, col) == Encode(target.type, RowsOf(target) \o RowsOf(col))

-----------------------------------------------------------------------------
\* A DuckDB vector in unified format: row i is data[sel[i]] if valid[sel[i]].
\* The data of a LIST or MAP are entries (offset from 0, length) into child;
\* the children of a STRUCT have its rows.
Layouts == {"flat", "gap", "dictionary"}

\* "gap" leaves an element no row refers to in front of the others, as a
\* filter or slice does; "dictionary" stores the rows in the other order.
\* NULL rows of a list have an arbitrary entry.
RECURSIVE VectorOf(_, _, _)
VectorOf(d, rows, layout) ==
    LET n == Len(rows)
        stored == IF layout = "dictionary" THEN Reverse(rows) ELSE rows
        sel == [i \in 1 .. n |-> IF layout = "dictionary" THEN n + 1 - i ELSE i]
        valid == [i \in 1 .. n |-> stored[i] # Null]
        lists == [i \in 1 .. n |-> IF valid[i] THEN stored[i] ELSE <<>>]
        front == IF layout = "gap" THEN <<Null>> ELSE <<>>
        element == IF d.id = "MAP" THEN Logical("STRUCT", d.args) ELSE d.args[1]
    IN  CASE d.id \in {"LIST", "MAP"} ->
                [type |-> d, sel |-> sel, valid |-> valid,
                 data |-> [i \in 1 .. n |->
                     IF valid[i]
                       THEN [offset |-> Len(front \o FlattenSeq(SubSeq(lists, 1, i - 1))),
                             length |-> Len(lists[i])]
                       ELSE [offset |-> 0, length |-> 1]],
                 child |-> VectorOf(element, front \o FlattenSeq(lists), layout)]
          [] d.id = "STRUCT" ->
                [type |-> d, sel |-> sel, valid |-> valid,
                 children |-> [f \in DOMAIN d.args |->
                     VectorOf(d.args[f], [i \in 1 .. n |-> IF valid[i] THEN stored[i][f] ELSE Null],
                              layout)]]
          [] OTHER -> [type |-> d, sel |-> sel, valid |-> valid, data |-> stored]

\* Vector::Flatten() of a STRUCT: its rows, and its children's, in row order.
Flatten(v) ==
    [type |-> v.type,
     sel |-> [i \in DOMAIN v.sel |-> i],
     valid |-> [i \in DOMAIN v.sel |-> v.valid[v.sel[i]]],
     children |-> [f \in DOMAIN v.children |->
         [v.children[f] EXCEPT !.sel = [i \in DOMAIN v.sel |-> v.children[f].sel[v.sel[i]]]]]]
=============================================================================
