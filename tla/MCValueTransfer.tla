--------------------------- MODULE MCValueTransfer ---------------------------
(***************************************************************************)
(* ValueTransfer for TLC: one column type for every path through the       *)
(* conversions, values on both sides of every limit.                       *)
(***************************************************************************)
EXTENDS ValueTransfer

MCMinDate == -2
MCMinMicros == -20000

Int32 == Scalar("Int32")
String == Scalar("String")
Enum == Sized("Enum8", <<<<"b", 5>>, <<"a", 2>>>>)
WideEnum == Sized("Enum16", <<<<"b", 2>>, <<"a", 5>>, <<"c", 7>>>>)
SwappedEnum == Sized("Enum8", <<<<"b", 1>>, <<"a", 2>>>>)

ScalarColumns ==
    {Int32, Nullable(Int32), Scalar("Bool"), Scalar("BFloat16"),
     Scalar("Date"), Nullable(Scalar("Date32")), Scalar("DateTime"),
     Sized("DateTime64", <<0>>), Scalar("DateTime64"), Sized("DateTime64", <<3>>),
     Scalar("Time"), Nullable(Sized("Time64", <<3>>)), Nullable(Scalar("Time64")),
     Sized("FixedString", <<2>>), LowCardinality(Nullable(String)), Nullable(Enum),
     Sized("Decimal", <<4, 2>>), Sized("Decimal", <<18, 2>>), Nullable(Sized("Decimal", <<76, 1>>)),
     Nullable(Scalar("IPv4")), Scalar("Int256"), Nullable(Scalar("Nothing"))}

NestedColumns ==
    {Array(Nullable(Int32)), Array(Array(Int32)), Tuple(<<Int32, Nullable(String)>>),
     Array(Tuple(<<Int32, Array(Nullable(Enum))>>)), Map(String, Nullable(Int32)),
     Array(LowCardinality(String)), Map(Int32, Array(Nullable(Scalar("Date")))),
     Array(Nullable(Scalar("IPv4"))), Map(Int32, Tuple(<<Scalar("Int256"), Int32>>)),
     Tuple(<<Nullable(Scalar("Time")), Array(Scalar("BFloat16"))>>)}

MCColumnTypes == ScalarColumns \cup NestedColumns

\* The writer tells these types from the cached one, or needs not to.
NoticedChanges ==
    {<<Int32, Nullable(Int32)>>, <<Int32, Scalar("Int64")>>, <<Int32, String>>,
     <<Nullable(Int32), Int32>>, <<Scalar("Bool"), Scalar("UInt8")>>,
     <<Scalar("Date"), Scalar("Date32")>>, <<Scalar("DateTime"), Sized("DateTime64", <<3>>)>>,
     <<Sized("DateTime64", <<3>>), Scalar("DateTime")>>,
     <<Sized("FixedString", <<2>>), String>>, <<Nullable(Enum), WideEnum>>,
     <<Nullable(Enum), SwappedEnum>>, <<Scalar("Time"), Sized("Time64", <<3>>)>>,
     <<Array(Array(Int32)), Array(Int32)>>, <<Array(Nullable(Int32)), Array(Int32)>>,
     <<Tuple(<<Int32, Nullable(String)>>), Tuple(<<Int32>>)>>,
     <<Map(String, Nullable(Int32)), Array(Int32)>>}

\* It takes these for the cached one: the same integers mean something else
\* there, or are wider than the column's.
MistakenChanges ==
    {<<Nullable(Enum), Nullable(Scalar("UInt8"))>>, <<Scalar("Date"), Int32>>,
     <<Sized("Decimal", <<4, 2>>), Scalar("Int16")>>,
     <<Scalar("DateTime"), Scalar("Int64")>>, <<Scalar("Time"), Scalar("Int64")>>,
     <<Sized("Decimal", <<18, 2>>), Sized("Decimal", <<9, 2>>)>>,
     <<Array(Tuple(<<Int32, Array(Nullable(Enum))>>)),
       Array(Tuple(<<Int32, Array(Nullable(Scalar("UInt8")))>>))>>}

MCChanges == NoticedChanges \cup MistakenChanges

\* A decimal column that another client widens, or gives another scale.
DecimalTypes == {Sized("Decimal", <<4, 2>>), Sized("Decimal", <<9, 3>>)}
DecimalChanges == DecimalTypes \X DecimalTypes

-----------------------------------------------------------------------------
\* A decimal of more than nine digits may need more than 32 bits.
BeyondInt32(t) == IF DecimalWidth(t) > 9 THEN {Int32Max + 1} ELSE {}

\* Scalars on the DuckDB side, NULL aside.
Scalars(t) ==
    CASE t.name \in {"Int32", "Bool", "BFloat16"} -> {0, 1}
      [] t.name = "Date" -> {-1, 0, UInt16Max, UInt16Max + 1}
      [] t.name = "Date32" -> {MinDate - 1, MinDate, MaxDate, MaxDate + 1}
      [] t.name = "DateTime" ->
            {-1, 0, UInt32Max * Step ^ 2 + Step ^ 2 - 1, (UInt32Max + 1) * Step ^ 2}
      [] t.name = "DateTime64" ->
            {MinMicros - 1, MinMicros, -1, Int64Max \div Step, (Int64Max \div Step) + 1,
             MaxMicros, MaxMicros + 1}
      [] t.name \in {"Time", "Time64"} -> {0, 1, SecsPerDay * Step ^ 2}
      [] t.name \in {"String", "FixedString"} -> {<<>>, <<1>>, <<1, 2, 3>>}
      [] t.name \in {"Enum8", "Enum16"} -> {"a", "b"}
      [] t.name = "Int256" ->
            {<<>>, <<Int256Max>>, <<Int256Max + 1>>, <<-Int256Max - 1>>, <<-Int256Max - 2>>}
      [] IsDecimal(t) -> IF IsWide(t) THEN {<<>>, <<1, 0>>, <<-11, 1>>, <<10, 2>>, <<11, 2>>}
                         ELSE {0, -123, 9999} \cup BeyondInt32(t)
      [] t.name = "IPv4" -> {<<>>, <<1>>}
      [] OTHER -> {}

\* Fewer scalars and shorter lists the deeper they are nested.
Few(t, depth) ==
    CASE t.name = "String" -> {<<1>>, <<2>>}
      [] t.name \in {"IPv4", "Int256"} -> {<<1>>}
      [] t.name \in {"Enum8", "Enum16"} -> {"b"}
      [] OTHER -> IF depth = 1 THEN {0, 1} ELSE {1}

ListsOf(values, n) == UNION {[1 .. k -> values] : k \in 0 .. n}
DistinctKeys(m) == \A i, j \in DOMAIN m : i # j => m[i][1] # m[j][1]

RECURSIVE Nested(_, _)
Nested(t, depth) ==
    LET base == Unwrap(t)
        Child(i) == Nested(base.children[i], depth + 1)
        unfit == IF depth > 0 /\ ~IsNullable(base.children[1]) THEN {Null} ELSE {}
    IN  {Null} \cup
        CASE base.name = "Array" -> ListsOf(Child(1), IF depth = 0 THEN 2 ELSE 1)
          [] base.name = "Tuple" -> (Child(1) \ unfit) \X Child(2)
          [] base.name = "Map" ->
                {m \in ListsOf((Child(1) \ {Null}) \X Child(2), 2) : DistinctKeys(m)}
          [] OTHER -> Few(base, depth)

MCDuckValues(t) ==
    LET base == Unwrap(t)
    IN  IF base.name \in {"Array", "Tuple", "Map"} THEN Nested(t, 0)
        ELSE {Null} \cup Scalars(base)

-----------------------------------------------------------------------------
\* Rows of other clients: what DuckDB may store, and what it could not.
RECURSIVE Foreign(_)
Foreign(t) ==
    LET base == Unwrap(t)
        nothing == IF IsNullable(t) THEN {Null} ELSE {}
    IN  nothing \cup
        CASE base.name = "Array" -> ListsOf(Foreign(base.children[1]), 1)
          [] base.name = "Tuple" ->
                IF Len(base.children) = 1 THEN {<<v>> : v \in Foreign(base.children[1])}
                ELSE Foreign(base.children[1]) \X Foreign(base.children[2])
          [] base.name = "Map" ->
                LET pairs == Foreign(base.children[1]) \X Foreign(base.children[2])
                IN  {<<>>} \cup {<<p, p>> : p \in pairs} \cup {<<p>> : p \in pairs}
          [] base.name \in {"Time", "Time64"} -> {-1, 1, SecsPerDay * Step ^ 3 + 1}
          [] base.name = "String" -> {<<1>>, <<1, BadByte>>}
          [] base.name = "FixedString" -> {<<1, 0>>, <<1, BadByte>>}
          [] base.name \in {"Enum8", "Enum16"} -> {e[2] : e \in ToSet(base.literals)}
          [] base.name \in {"DateTime64", "DateTime"} -> {-1, 5}
          [] base.name = "Decimal" -> 
                {1234} \cup (IF DecimalWidth(base) > 4 THEN {40000} ELSE {}) \cup BeyondInt32(base)
          [] base.name = "UInt8" -> {0, 5}
          [] base.name = "Nothing" -> {}
          [] OTHER -> {3}
=============================================================================
