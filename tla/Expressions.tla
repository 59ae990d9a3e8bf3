---------------------------- MODULE Expressions ----------------------------
(***************************************************************************)
(* Expression trees and what they evaluate to.  The same trees stand for   *)
(* DuckDB's bound expressions, whose leaves refer to an output of the      *)
(* operator below, and for the ClickHouse SQL they are translated into,    *)
(* whose leaves are columns of the table.  Both systems evaluate them in   *)
(* three-valued logic; they differ in IN over NULL and in the order of     *)
(* UUIDs.  Both evaluators are external to this repository.                *)
(*                                                                         *)
(* What is defined by recursion over a tree is one level of it, given the  *)
(* results for the arguments, and a recursive function over Trees.         *)
(***************************************************************************)
EXTENDS Integers, Sequences

CONSTANTS
    Null,   \* SQL's NULL
    Labels, \* what an enum column can hold
    Trees   \* all expressions (AreExpressions)

ASSUME NullAssumption == Null \notin Int /\ Null \notin BOOLEAN

\* The arguments are a function of the positions that are left of a list.
Node(op, info, args) == [op |-> op, info |-> info, args |-> args]

Ref(i) == Node("ref", i, <<>>)         \* BOUND_REF
Constant(v) == Node("constant", v, <<>>)
Column(c) == Node("column", c, <<>>)   \* a ClickHouse column
Truth(b) == Node("truth", b, <<>>)     \* 1 = 1, 1 = 0

\* What a translation gives beside an expression: "" and NotImplementedException.
Nothing == Node("nothing", 0, <<>>)
Throw == Node("throw", 0, <<>>)

Ordered == {"<", ">", "<=", ">="}
Comparisons == {"=", "!="} \cup Ordered
Hints == {"optional", "runtime"}
Ops == {"ref", "constant", "column", "uuid", "enum", "text", "truth", "nothing", "throw", "other",
        "between", "is_null", "is_not_null", "not", "and", "or", "in", "not_in", "if", "coalesce"}
         \cup Comparisons \cup Hints
Infos == Int \cup BOOLEAN \cup {Null}

\* A node over finitely many expressions is one, and there are no others.
AreAllExpressions(S) ==
    /\ \A op \in Ops, info \in Infos, n \in Nat : \A at \in SUBSET (1..n) :
          \A args \in [at -> S] : Node(op, info, args) \in S
    /\ \A e \in S : \E n \in Nat : DOMAIN e.args \subseteq 1..n
    /\ \E depth \in [S -> Nat] : \A e \in S : \A i \in DOMAIN e.args :
          e.args[i] \in S /\ depth[e.args[i]] < depth[e]

AreExpressions == AreAllExpressions(Trees)

Not3(v) == IF v = Null THEN Null ELSE ~v
And3(values) == IF FALSE \in values THEN FALSE ELSE IF Null \in values THEN Null ELSE TRUE
Or3(values) == Not3(And3({Not3(v) : v \in values}))
Compare3(op, a, b) ==
    IF Null \in {a, b} THEN Null
    ELSE CASE op = "=" -> a = b
           [] op = "!=" -> a # b
           [] op = "<" -> a < b
           [] op = ">" -> a > b
           [] op = "<=" -> a <= b
           [] op = ">=" -> a >= b
In3(v, list) == Or3({Compare3("=", v, w) : w \in list})

\* DuckDB, a ClickHouse server, and one whose default profile has
\* transform_null_in = 1, where NULL [NOT] IN (...) is never NULL.
Systems == {"duckdb", "clickhouse", "null_in"}

\* The value of e over env, the values its leaves refer to, where its arguments
\* have the values v.  A hint never decides about a row; an "other" is a
\* function only DuckDB has.  ClickHouse fails a query that asks for an enum to
\* differ from what is not a label.
Apply(e, v, env, system) ==
    LET from(i) == {v[j] : j \in {k \in DOMAIN e.args : k >= i}}
        isIn == IF system = "null_in" THEN v[1] \in from(2) ELSE In3(v[1], from(2))
        present == {i \in DOMAIN e.args : v[i] # Null}
        fails == e.op = "!=" /\ e.args[1].op = "enum" /\ v[2] \notin Labels
    IN CASE e.op \in {"ref", "column", "uuid", "enum"} -> env[e.info]
         [] e.op \in {"constant", "truth"} -> e.info
         [] e.op \in Comparisons ->
              IF fails THEN Null
              ELSE IF e.op \in Ordered /\ e.args[1].op = "uuid"
                THEN Compare3(e.op, v[2], v[1]) ELSE Compare3(e.op, v[1], v[2])
         [] e.op = "between" -> And3({Compare3(">=", v[1], v[2]), Compare3("<=", v[1], v[3])})
         [] e.op = "is_null" -> v[1] = Null
         [] e.op = "is_not_null" -> v[1] # Null
         [] e.op = "not" -> Not3(v[1])
         [] e.op = "and" -> And3(from(1))
         [] e.op = "or" -> Or3(from(1))
         [] e.op = "in" -> isIn
         [] e.op = "not_in" -> Not3(isIn)
         [] e.op = "if" -> IF v[1] = TRUE THEN v[2] ELSE v[3]
         [] e.op = "coalesce" ->
              IF present = {} THEN Null ELSE v[CHOOSE i \in present : \A j \in present : i <= j]
         [] e.op = "text" -> v[1]
         [] e.op \in Hints -> TRUE
         [] e.op = "other" -> v[1] # Null

Eval(expr, env, system) ==
    LET value[e \in Trees] == Apply(e, [i \in DOMAIN e.args |-> value[e.args[i]]], env, system)
    IN value[expr]

\* WHERE keeps a row when the condition is true, neither false nor NULL.
Holds(e, env, system) == Eval(e, env, system) = TRUE
=============================================================================
