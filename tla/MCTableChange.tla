--------------------------- MODULE MCTableChange ---------------------------
EXTENDS TableChange, TLC

ColumnOf(type, nullable, kind) ==
    [exists |-> TRUE, type |-> type, nullable |-> nullable, default_kind |-> kind,
     default |-> IF kind = "" THEN Null ELSE CHOOSE v \in Values : TRUE, in_key |-> FALSE]

MCTypes ==
    {IntegerType(b, TRUE) : b \in {8, 32, 64, 128}} \cup {IntegerType(b, FALSE) : b \in {16, 32, 64}}
      \cup {DecimalType(3, 0), DecimalType(10, 5), DecimalType(38, 19), DecimalType(38, 18)}
      \cup {Scalar(id) : id \in {"float", "bfloat16", "double", "date", "timestamp", "enum", "varchar", "list"}}

TablesOf(engines, columns, s, i) ==
    [engine : engines, column : columns, left : {[statements |-> s, inserts |-> i]}]

\* Columns of every type, of every kind, and none, where they matter.
MCTables == UNION {
    TablesOf({"Memory"}, {ColumnOf(t, FALSE, "") : t \in MCTypes}, 2, 1),
    TablesOf({"MergeTree"}, {ColumnOf(Scalar("date"), TRUE, "MATERIALIZED"),
                             ColumnOf(Scalar("bfloat16"), FALSE, "ALIAS"),
                             [ColumnOf(Scalar("enum"), FALSE, "") EXCEPT !.in_key = TRUE]}, 2, 1),
    TablesOf({"Memory", "Log", "MergeTree"}, {NoColumn}, 2, 2),
    TablesOf({"ReplicatedMergeTree"}, {NoColumn}, 3, 1),
    TablesOf({"ReplicatedMergeTree"}, {ColumnOf(IntegerType(32, TRUE), TRUE, "DEFAULT")}, 2, 2)}

\* Sessions behave alike and are never ordered.
Symmetry == Permutations(Sessions)
=============================================================================
