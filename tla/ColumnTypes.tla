----------------------------- MODULE ColumnTypes -----------------------------
(***************************************************************************)
(* Which changes of a column's type ClickhouseDdl accepts, and which of    *)
(* them keep every value.                                                  *)
(***************************************************************************)
EXTENDS Integers, Sequences

IntegerType(bits, signed) == [id |-> "integer", bits |-> bits, signed |-> signed]
DecimalType(width, scale) == [id |-> "decimal", width |-> width, scale |-> scale]
Scalar(id) == [id |-> id]

ColumnType == [id : {"integer"}, bits : {8, 16, 32, 64, 128}, signed : BOOLEAN]
              \cup [id : {"decimal"}, width : Nat, scale : Nat]
              \cup [id : STRING \ {"integer", "decimal"}]

IsInteger(type) == type.id = "integer"
IsNested(type) == type.id = "list"
CanBeNullable(type) == ~IsNested(type)

\* The type DuckDB reads the column as.
DuckDBType(type) == IF type.id = "bfloat16" THEN Scalar("float") ELSE type

IntegerDigits(bits, signed) ==
    CASE bits = 8 -> 3 [] bits = 16 -> 5 [] bits = 32 -> 10
      [] bits = 64 -> IF signed THEN 19 ELSE 20
      [] OTHER -> 39

KeepsEveryValue(source, target) ==
    CASE target.id = "varchar" -> IsInteger(source) \/ source.id \in {"date", "enum"}
      [] target.id = "float" -> IsInteger(source) /\ source.bits <= 16
      [] target.id = "double" -> source.id = "float" \/ (IsInteger(source) /\ source.bits <= 32)
      [] target.id = "decimal" ->
           LET digits == target.width - target.scale IN
           \/ IsInteger(source) /\ digits >= IntegerDigits(source.bits, source.signed)
           \/ /\ source.id = "decimal"
              /\ target.scale >= source.scale
              /\ digits >= source.width - source.scale
      [] target.id = "timestamp" -> source.id = "date"
      [] OTHER -> /\ IsInteger(source) /\ IsInteger(target)
                  /\ target.bits > source.bits
                  /\ target.signed \/ ~source.signed

-----------------------------------------------------------------------------
(* The reference: what the types hold.                                     *)

\* The product of a number and a factor.  Numbers are sequences of groups of
\* four decimal digits, the lowest one first.
Times(groups, factor) ==
    LET carry[i \in 0..Len(groups)] ==
            IF i = 0 THEN 0 ELSE (groups[i] * factor + carry[i - 1]) \div 10000
        lower == [i \in 1..Len(groups) |-> (groups[i] * factor + carry[i - 1]) % 10000]
    IN IF carry[Len(groups)] = 0 THEN lower ELSE Append(lower, carry[Len(groups)])

PowerOfTwo[n \in 0..128] == IF n <= 12 THEN <<2 ^ n>> ELSE Times(PowerOfTwo[n - 12], 4096)

\* How many decimal digits 2^n has.
Digits(n) ==
    LET power == PowerOfTwo[n] IN
    CHOOSE d \in 4 * Len(power) - 3 .. 4 * Len(power) :
        LET top == d - (4 * Len(power) - 3) IN
        10 ^ top <= power[Len(power)] /\ power[Len(power)] < 10 ^ (top + 1)

\* No value of the integer type is larger in magnitude than 2 to this power.
Magnitude(type) == IF type.signed THEN type.bits - 1 ELSE type.bits

\* IntegerDigits() is enough for every value.  No constant occurs in this: that
\* TLC evaluates it settles it.
ASSUME DigitsAssumption ==
    \A type \in [id : {"integer"}, bits : {8, 16, 32, 64, 128}, signed : BOOLEAN] :
        \A n \in 0..Magnitude(type) :
            Digits(n) \in 1..IntegerDigits(type.bits, type.signed)

\* Whether `target` holds every value of `source` exactly (as text for "varchar").
Fits(source, target) ==
    \/ source = target
    \/ source.id = "bfloat16" /\ target.id = "float"
    \/ source.id \in {"float", "bfloat16"} /\ target.id = "double"
    \/ source.id = "date" /\ target.id = "timestamp"
    \/ source.id \in {"date", "enum", "integer"} /\ target.id = "varchar"
    \/ /\ source.id = "decimal" /\ target.id = "decimal"
       /\ source.scale <= target.scale
       /\ source.width - source.scale <= target.width - target.scale
    \/ /\ IsInteger(source)
       /\ \/ target.id = "float" /\ Magnitude(source) <= 24
          \/ target.id = "double" /\ Magnitude(source) <= 53
          \/ /\ target.id = "decimal"
             /\ Digits(Magnitude(source)) <= target.width - target.scale
          \/ /\ IsInteger(target)
             /\ source.signed => target.signed
             /\ Magnitude(source) <= Magnitude(target)
=============================================================================
