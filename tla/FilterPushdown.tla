--------------------------- MODULE FilterPushdown ---------------------------
(***************************************************************************)
(* ClickhouseFilterPushdown: the filters of a scan, translated into the    *)
(* WHERE clause of its ClickHouse query.  A filter is an expression over   *)
(* one column, Ref(1).  Values are days; Representable are those a Date32  *)
(* column, and so toDate32(), can hold.                                    *)
(***************************************************************************)
EXTENDS Expressions

CONSTANT Representable

ASSUME RepresentableAssumption ==
    /\ Representable # {} /\ Representable \subseteq Int
    /\ \A a, b \in Representable : a..b \subseteq Representable

TransformConstant(value) == IF value \in Representable THEN Constant(value) ELSE Throw

FoldSwapped(column, comparison, below) ==
    IF \/ comparison = "!="
       \/ comparison \in {"<", "<="} /\ below
       \/ comparison \in {">", ">="} /\ ~below
      THEN Node("is_not_null", 0, <<column>>)
      ELSE Truth(FALSE)

\* A comparison with a constant no value of the column can reach is false, or
\* true unless the column is NULL.
FoldOutOfBoundsComparison(column, comparison, below) ==
    IF \/ comparison = "!="
       \/ comparison \in {"<", "<="} /\ ~below
       \/ comparison \in {">", ">="} /\ below
      THEN Node("is_not_null", 0, <<column>>)
      ELSE Truth(FALSE)

TryFoldUnrepresentableComparison(column, comparison, value) ==
    IF value \in Representable THEN Nothing
    ELSE FoldOutOfBoundsComparison(column, comparison, \A d \in Representable : value < d)

TransformComparison(column, comparison, value) ==
    LET folded == TryFoldUnrepresentableComparison(column, comparison, value) IN
    IF folded.op # "nothing" THEN folded
    ELSE IF column.op = "uuid" /\ comparison \in Ordered
      THEN Node(comparison, 0, <<Node("text", 0, <<column>>), Constant(value)>>)
    ELSE Node(comparison, 0, <<column, TransformConstant(value)>>)

\* Constants that no value of the column equals are dropped from the list.
TransformIn(column, e) ==
    LET values == {i \in DOMAIN e.args : i > 1 /\ TransformConstant(e.args[i].info).op # "throw"} IN
    IF \E i \in DOMAIN e.args : i > 1 /\ e.args[i].op # "constant" THEN Throw
    ELSE IF values = {} THEN Truth(e.op = "not_in")
    ELSE Node(e.op, 0, [i \in {1} \cup values |-> IF i = 1 THEN column ELSE e.args[i]])

\* AND leaves out the parts that do not restrict; the first part of an OR that
\* does not restrict, or throws, decides.
TransformConjunction(op, parts) ==
    LET stops == {i \in DOMAIN parts : parts[i].op = "throw" \/ (op = "or" /\ parts[i].op = "nothing")}
        kept == {i \in DOMAIN parts : parts[i].op # "nothing"}
    IN IF stops # {} THEN parts[CHOOSE i \in stops : \A j \in stops : i <= j]
       ELSE IF kept = {} THEN Nothing
       ELSE Node(op, 0, [i \in kept |-> parts[i]])

\* One level of TransformExpressionFilter(): parts are the arguments' results.
TransformExpression(column, e, parts) ==
    CASE e.op \in Hints -> Nothing
      [] e.op \in {"and", "or"} -> TransformConjunction(e.op, parts)
      [] e.op \in {"is_null", "is_not_null"} /\ e.args[1].op = "ref" -> Node(e.op, 0, <<column>>)
      [] e.op \in {"in", "not_in"} -> TransformIn(column, e)
      [] e.op \in Comparisons /\ e.args[1].op = "ref" /\ e.args[2].op = "constant" ->
           TransformComparison(column, e.op, e.args[2].info)
      [] OTHER -> Throw

TransformExpressionFilter(column, expr) ==
    LET transform[e \in Trees] ==
          TransformExpression(column, e, [i \in DOMAIN e.args |-> transform[e.args[i]]])
    IN transform[expr]
=============================================================================
