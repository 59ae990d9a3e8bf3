------------------------------ MODULE QueryPlan ------------------------------
(***************************************************************************)
(* What reaches ClickHouse of a DuckDB plan over one ClickHouse table: the *)
(* filters of a scan, the LIMIT ClickhouseOptimizer moves into it, and the *)
(* statements ClickhouseDml makes of DELETE and UPDATE.  DuckDB's planner  *)
(* is external: it puts a plan together operator by operator, from the     *)
(* scan (plan[1]) up.  Each property compares the rows and values DuckDB's *)
(* plan means with those ClickHouse computes.                              *)
(***************************************************************************)
EXTENDS ClickhouseExpression

CONSTANTS
    Values,         \* what a column holds beside NULL
    Scans,          \* a table and a scan of it: [table, get]
    Conditions,     \* what a filter may ask of a value: <<op, constants>>
    ScanConditions, \* what a filter of the scan may
    Lists,          \* the constants of IN lists that became joins
    MaxConditions,  \* bounds: the planner's steps that add a condition,
    MaxOperators,   \* its other ones, and
    MaxSteps        \* all of them

ASSUME ValuesAssumption == Values \subseteq Representable

VARIABLES
    table,
    plan,
    conditions, \* steps taken, of either kind
    operators

vars == <<table, plan, conditions, operators>>

-----------------------------------------------------------------------------
(* Columns.  0 is rowid, which always reads as NULL.  Beside "plain" ones  *)
(* there are UUIDs, which ClickHouse orders in its own way; enums, which   *)
(* DuckDB compares as text; floats, which no filter or order is pushed     *)
(* for; "coarse" ones (DateTime64(9)), of which DuckDB reads less than     *)
(* ClickHouse compares; and those DuckDB reads as text, which ClickHouse   *)
(* parses when it is assigned: a "text" one (IPv4) exactly or not at all,  *)
(* a "wide" one (Int256) to any value.                                     *)

Kind(c) == table.columns[c].kind
CanHoldNull(c) == table.columns[c].nullable
SupportsPushdown(c) == Kind(c) \in {"plain", "enum"}
SupportsFilterPushdown(c) == SupportsPushdown(c) \/ Kind(c) = "uuid"
IsComparedExactly(c) == Kind(c) # "coarse"
ConvertedOnServer(c) == Kind(c) \in {"text", "wide"}
ParsedFromTextExactly(c) == Kind(c) = "text"

Leaf(c) == IF Kind(c) \in {"uuid", "enum"} THEN Node(Kind(c), c, <<>>) ELSE Column(c)

\* An UPDATE or DELETE may refer to a column it compares as DuckDB does: an
\* enum as text.
ColumnSql(c) ==
    IF c = 0 \/ ~IsComparedExactly(c) THEN Throw
    ELSE IF Kind(c) = "enum" THEN Node("text", 0, <<Leaf(c)>>)
    ELSE Leaf(c)

Stored(c) == (IF Kind(c) = "coarse" THEN UNION {{v, v + 1} : v \in Values} ELSE Values)
               \cup (IF CanHoldNull(c) THEN {Null} ELSE {})
Rows == {row \in [DOMAIN table.columns -> UNION {Stored(c) : c \in DOMAIN table.columns}] :
           \A c \in DOMAIN row : row[c] \in Stored(c)}

\* What DuckDB reads.
Read(c, row) ==
    IF c = 0 \/ row[c] = Null THEN Null
    ELSE IF Kind(c) = "coarse" THEN 2 * (row[c] \div 2) ELSE row[c]

-----------------------------------------------------------------------------
(* Plans.  A map of outputs that is empty keeps all of them.               *)

Get(ids, map) == [type |-> "get", ids |-> ids, map |-> map, filters |-> <<>>]
Filter(e, map) == [type |-> "filter", exprs |-> <<e>>, map |-> map]
Projection(exprs) == [type |-> "projection", exprs |-> exprs]
\* x IN (constants) that DuckDB rewrote into a MARK join; `exact` if it has the
\* shape of InClauseRewriter's joins and no other condition.
Mark(left, constants, map, exact) ==
    [type |-> "mark", left |-> left, constants |-> constants, map |-> map, exact |-> exact]
Limit == [type |-> "limit"]
TopN(order) == [type |-> "top_n", order |-> order]
Empty == [type |-> "empty"]
Other == [type |-> "other"]

MapIgnored(map, i) == i

Mapped(map, i) == IF map = <<>> THEN i ELSE map[i]
Through(map, width) == IF map = <<>> THEN [i \in 1..width |-> i] ELSE map
Kept(map, below) == LET t == Through(map, Len(below)) IN [i \in DOMAIN t |-> below[t[i]]]

\* Per output of an operator, "value" or "truth", from those of the one below.
TypesOf(op, below) ==
    LET typeOf(e) == IF e.op = "ref" THEN below[e.info]
                     ELSE IF e.op \in {"constant", "coalesce"} THEN "value" ELSE "truth"
    IN CASE op.type = "get" -> [i \in DOMAIN Through(op.map, Len(op.ids)) |-> "value"]
         [] op.type = "filter" -> Kept(op.map, below)
         [] op.type = "projection" -> [i \in DOMAIN op.exprs |-> typeOf(op.exprs[i])]
         [] op.type = "mark" -> Append(Kept(op.map, below), "truth")
         [] OTHER -> below

Types(p) ==
    LET types[n \in 0..Len(p)] == IF n = 0 THEN <<>> ELSE TypesOf(p[n], types[n - 1]) IN types

\* The outputs of an operator for a row of the table.
OutputsOf(op, below, row) ==
    CASE op.type = "get" -> Kept(op.map, [i \in DOMAIN op.ids |-> Read(op.ids[i], row)])
      [] op.type = "filter" -> Kept(op.map, below)
      [] op.type = "projection" -> [i \in DOMAIN op.exprs |-> Eval(op.exprs[i], below, "duckdb")]
      [] op.type = "mark" ->
           Append(Kept(op.map, below),
                  In3(Eval(op.left, below, "duckdb"), {op.constants[i] : i \in DOMAIN op.constants}))
      [] OTHER -> below

Outputs(p, row) ==
    LET out[n \in 0..Len(p)] == IF n = 0 THEN <<>> ELSE OutputsOf(p[n], out[n - 1], row) IN out

\* Whether the row passes every filter of p.
Survives(p, row) ==
    \A n \in DOMAIN p :
        CASE p[n].type = "get" ->
               \A i \in DOMAIN p[n].filters : LET f == p[n].filters[i] IN
                   Holds(f.expr, <<Read(p[n].ids[f.position], row)>>, "duckdb")
          [] p[n].type = "filter" ->
               \A i \in DOMAIN p[n].exprs : Holds(p[n].exprs[i], Outputs(p, row)[n - 1], "duckdb")
          [] OTHER -> p[n].type # "empty"

-----------------------------------------------------------------------------
(* The scan's own query (BuildQuery()) and ClickhouseOptimizer.            *)

FilterPushdownEnabled == table.filter_pushdown

ResolvePushdownableColumn(position) ==
    LET c == plan[1].ids[position] IN
    IF c = 0 \/ ~FilterPushdownEnabled \/ ~SupportsFilterPushdown(c) THEN 0 ELSE c

Pushable(f) == ResolvePushdownableColumn(f.position) # 0

\* A condition that only this callback lets DuckDB leave to the scan.
PushdownExpression(position, condition) ==
    LET c == ResolvePushdownableColumn(position) IN
    /\ c # 0
    /\ \/ condition[1] \in {"is_null", "is_not_null"}
       \/ /\ condition[1] \in {"=", "!="}
          /\ Kind(c) = "enum"
          /\ condition[2][1] \in Labels

TransformFilter(f) == TransformExpressionFilter(Leaf(plan[1].ids[f.position]), f.expr)

EveryFilterTranslates ==
    \A i \in DOMAIN plan[1].filters : TransformFilter(plan[1].filters[i]).op # "throw"

\* A LIMIT must not move past a filter that ClickHouse does not apply.
AllFiltersPushed ==
    \A i \in DOMAIN plan[1].filters : LET f == plan[1].filters[i] IN
        Pushable(f) /\ TransformFilter(f).op # "throw"

\* The scan below plan[n], looking through projections.
FindClickhouseScan(n) == \A m \in 2..(n - 1) : plan[m].type = "projection"

\* The column output i of plan[n] is, from those of the outputs below, through
\* plain references; 0 if it is none or its order cannot be pushed.
StepColumn(n, i, below) ==
    LET op == plan[n] IN
    CASE op.type = "get" ->
           LET c == op.ids[Mapped(op.map, i)] IN IF c # 0 /\ SupportsPushdown(c) THEN c ELSE 0
      [] op.type = "projection" -> IF op.exprs[i].op = "ref" THEN below[op.exprs[i].info] ELSE 0
      [] OTHER -> 0

TraceColumns ==
    LET columns[n \in 0..Len(plan)] ==
          IF n = 0 THEN <<>> ELSE [i \in DOMAIN Types(plan)[n] |-> StepColumn(n, i, columns[n - 1])]
    IN columns

TraceColumn(n, i) == TraceColumns[n][i]

\* OptimizeRecursive() moves plan[n], a LIMIT or TOP N, into the scan.
PushesLimit(n) ==
    /\ plan[n].type \in {"limit", "top_n"}
    /\ FindClickhouseScan(n)
    /\ AllFiltersPushed
    /\ plan[n].type = "top_n" => TraceColumn(n - 1, plan[n].order) # 0

-----------------------------------------------------------------------------
(* ClickhouseDml: where a reference comes from, and the predicate.         *)

Step(kind, at, index) == [kind |-> kind, at |-> at, index |-> index]

\* Where output i of plan[n] comes from, one operator down.
StepReference(n, i) ==
    LET op == plan[n] IN
    CASE op.type = "get" -> Step("scan", n, op.ids[Mapped(op.map, i)])
      [] op.type = "filter" -> Step("pass", n - 1, Mapped(op.map, i))
      [] op.type = "projection" ->
           IF op.exprs[i].op = "ref" THEN Step("pass", n - 1, op.exprs[i].info)
                                     ELSE Step("expression", n, i)
      [] op.type = "mark" ->
           LET left == Len(Through(op.map, Len(Types(plan)[n - 1]))) IN
           IF ~op.exact THEN Step("throw", n, i)
           ELSE IF i = left + 1 THEN Step("mark", n, i)
           ELSE Step("pass", n - 1, Mapped(op.map, i))
      [] OTHER -> Step("unresolved", n, i)

TraceReferences ==
    LET traced[n \in 0..Len(plan)] ==
          IF n = 0 THEN <<>> ELSE [i \in DOMAIN Types(plan)[n] |->
            LET step == StepReference(n, i) IN
            IF step.kind = "pass" THEN traced[n - 1][step.index] ELSE step]
    IN traced

TraceReference(n, i) == TraceReferences[n][i]

\* The ClickHouse expressions of the outputs of each operator.
ResolveOutput ==
    LET sql[n \in 0..Len(plan)] ==
          IF n = 0 THEN <<>> ELSE [i \in DOMAIN Types(plan)[n] |->
            LET step == StepReference(n, i) IN
            CASE plan[n].type = "projection" -> Translate(plan[n].exprs[i], sql[n - 1])
              [] plan[n].type # "projection" /\ step.kind = "scan" -> ColumnSql(step.index)
              [] plan[n].type # "projection" /\ step.kind = "pass" -> sql[n - 1][step.index]
              [] OTHER -> Throw]
    IN sql

ExactInList(left, list, op) ==
    IF \/ left.op = "throw" \/ list = <<>>
       \/ \E i \in DOMAIN list : list[i].op = "throw" \/ IsNullConstant(list[i])
      THEN Throw ELSE InList(<<left>> \o list, op)

\* What the IN list of a MARK join becomes, and what other references do.
TranslateMark(mark, op) ==
    CASE mark.kind = "mark" -> LET join == plan[mark.at] IN
           ExactInList(Translate(join.left, ResolveOutput[mark.at - 1]),
                       [i \in DOMAIN join.constants |-> Literal(join.constants[i])], op)
      [] mark.kind = "throw" -> Throw
      [] OTHER -> Nothing

\* A filter over plan[n] that is a mark column, or NOT of one.
TranslateInListFilter(e, n) ==
    LET inner == IF e.op = "not" THEN e.args[1] ELSE e IN
    IF inner.op # "ref" THEN Nothing
    ELSE TranslateMark(TraceReference(n, inner.info), IF e.op = "not" THEN "not_in" ELSE "in")

OrElse(first, second) == IF first.op = "nothing" THEN second ELSE first

TranslateFilter(e, n) ==
    OrElse(TranslateInListFilter(e, n), Translate(e, ResolveOutput[n]))

\* The scan's filters are translated anew, exactly.
TranslateScanFilter(f) ==
    LET c == plan[1].ids[f.position] IN
    IF ColumnSql(c).op = "throw" THEN Throw ELSE TranslateTableFilterExpression(f.expr, ColumnSql(c))

\* What WHERE is made of: a conjunction.
Predicate ==
    LET ofScan == {TranslateScanFilter(plan[1].filters[i]) : i \in DOMAIN plan[1].filters}
        of(n) == {TranslateFilter(plan[n].exprs[i], n - 1) : i \in DOMAIN plan[n].exprs}
        sql == ofScan \cup UNION {of(n) : n \in {m \in DOMAIN plan : plan[m].type = "filter"}}
    IN {e \in sql : e.op # "nothing"}

Refused == [status |-> "refused", predicate |-> {}]
MatchesNothing == [status |-> "matches_nothing", predicate |-> {}]

\* The operators above the lowest one must be those a predicate can be made of.
TargetWith(predicate) ==
    LET others == {n \in DOMAIN plan : plan[n].type \notin {"projection", "filter", "mark"}}
        current == CHOOSE n \in others : \A m \in others : m <= n
        inList(n) == plan[n].type = "mark" => plan[n].exact
        refused == \/ \E n \in (current + 1)..Len(plan) : ~inList(n)
                   \/ plan[current].type \notin {"get", "empty"}
                   \/ plan[current].type = "get" /\ \E e \in predicate : e.op = "throw"
    IN IF refused THEN Refused
       ELSE IF plan[current].type = "empty" THEN MatchesNothing
       ELSE [status |-> "ok", predicate |-> predicate]

AnalyzeTarget == TargetWith(Predicate)

Matches(predicate, row, system) == \A e \in predicate : Holds(e, row, system)

\* Without a predicate the rows are TRUNCATEd, if the engine does that.
PlanDelete ==
    IF AnalyzeTarget.status = "ok" /\ AnalyzeTarget.predicate = {} /\ ~table.truncate_removes_rows
      THEN Refused ELSE AnalyzeTarget

-----------------------------------------------------------------------------
(* UPDATE t SET c = e, for an expression e over the outputs of the plan.   *)

NoCheck(c, e, source) == FALSE

\* Whether the new values must be checked for NULLs before the mutation.
CheckNulls(c, e, source) ==
    ~CanHoldNull(c) /\ (source = 0 \/ CanHoldNull(source))

\* The column a reference passes through unchanged, or 0.
UnchangedScanColumn(e) ==
    IF e.op # "ref" THEN 0
    ELSE LET traced == TraceReference(Len(plan), e.info) IN
         IF traced.kind = "scan" THEN traced.index ELSE 0

\* e, or the expression of a projection it refers to.
ResolveConstant(e) ==
    LET at(traced) == IF traced.kind = "expression" THEN plan[traced.at].exprs[traced.index] ELSE e
    IN IF e.op # "ref" THEN e ELSE at(TraceReference(Len(plan), e.info))

\* checks: what is evaluated first, where the mutation could fail: "nulls"
\* counts the NULLs among the new values, "value" converts the constant.
Assignment(action, value, checks) == [action |-> action, value |-> value, checks |-> checks]
NoAssignment(action) == Assignment(action, Nothing, {})

\* source and constant are what e is, value its translation.
Assigned(c, e, source, constant, value, target) ==
    LET isConstant == constant.op = "constant"
        nulls == CheckNulls(c, e, source)
        refused == \/ target = "refused"
                   \/ nulls /\ IsNullConstant(constant)
                   \/ value.op = "throw"
                   \/ /\ ConvertedOnServer(c) /\ ~IsNullConstant(constant)
                      /\ ~ParsedFromTextExactly(c) \/ ~isConstant
        checks == IF ConvertedOnServer(c) THEN IF IsNullConstant(constant) THEN {} ELSE {"value"}
                  ELSE IF nulls /\ ~isConstant THEN {"nulls"} ELSE {}
    IN IF target = "matches_nothing" THEN NoAssignment("none")
       ELSE IF target = "ok" /\ source = c THEN NoAssignment("keep")
       ELSE IF refused THEN NoAssignment("refused")
       ELSE Assignment("set", value, checks)

PlanUpdate(c, e) ==
    Assigned(c, e, UnchangedScanColumn(e), ResolveConstant(e),
             Translate(e, ResolveOutput[Len(plan)]), AnalyzeTarget.status)

-----------------------------------------------------------------------------
(* DuckDB's planner and optimizer, external.                               *)

ASSUME ScansAssumption ==
    \A s \in Scans :
        /\ DOMAIN s.table.columns \subseteq Nat \ {0}
        /\ s.get = Get(s.get.ids, s.get.map)
        /\ s.get.ids \in Seq({0} \cup DOMAIN s.table.columns) /\ s.get.ids # <<>>
        /\ s.get.map \in Seq(DOMAIN s.get.ids)

\* A condition has the constants its operator needs.
IsCondition(c, constants) ==
    /\ c[1] \in Comparisons \cup Hints \cup {"between", "in", "not_in", "is_null", "is_not_null", "other"}
    /\ c[2] \in Seq(constants)
    /\ c[1] \in Comparisons => Len(c[2]) >= 1
    /\ c[1] = "between" => Len(c[2]) >= 2

\* FilterCombiner leaves to a scan no comparison with NULL and no NOT IN.
ASSUME ConditionsAssumption ==
    /\ \A c \in Conditions : IsCondition(c, Int \cup {Null})
    /\ \A c \in ScanConditions : IsCondition(c, Int) /\ c[1] # "not_in"
    /\ Lists \subseteq Seq(Int \cup {Null})

Refs(type, n) ==
    LET types == Types(plan)[n] IN {Ref(i) : i \in {j \in DOMAIN types : types[j] = type}}
Top == Len(plan)

Condition(x, c) == Node(c[1], 0, <<x>> \o [i \in DOMAIN c[2] |-> Constant(c[2][i])])

\* Over the outputs of plan[n].
Predicates(n) ==
    {Condition(x, c) : x \in Refs("value", n), c \in Conditions}
      \cup Refs("truth", n)
      \cup {Node("not", 0, <<x>>) : x \in Refs("truth", n)}

Computed ==
    Refs("value", Top) \cup Refs("truth", Top) \cup {Constant(Null)}
      \cup UNION {{Node("coalesce", 0, <<x, Constant(0)>>), Node("is_null", 0, <<x>>)} :
                   x \in Refs("value", Top)}

\* Nothing grows on an operator that neither the optimizer nor ClickhouseDml
\* looks through.
Grow(newPlan) ==
    /\ plan[Top].type \notin {"limit", "top_n", "other"}
    /\ conditions + operators < MaxSteps
    /\ plan' = newPlan
    /\ UNCHANGED table

AsCondition(newPlan) ==
    /\ conditions < MaxConditions
    /\ conditions' = conditions + 1
    /\ Grow(newPlan)
    /\ UNCHANGED operators

AsOperator(newPlan) ==
    /\ operators < MaxOperators
    /\ operators' = operators + 1
    /\ Grow(newPlan)
    /\ UNCHANGED conditions

With(operator) == Append(plan, operator)
Replacing(operator) == [plan EXCEPT ![Top] = operator]

IsEnum(position) == plan[1].ids[position] # 0 /\ Kind(plan[1].ids[position]) = "enum"

\* FilterCombiner leaves a filter of one of its columns to the scan.
LeftToScan(position, c) ==
    c[1] \in {"is_null", "is_not_null"} \/ (IsEnum(position) /\ c[1] \notin Hints)
      => PushdownExpression(position, c)

PushFilter ==
    /\ Top = 1
    /\ \E position \in DOMAIN plan[1].ids, c \in ScanConditions :
        /\ LeftToScan(position, c)
        /\ \A i \in DOMAIN plan[1].filters : plan[1].filters[i].position # position
        /\ AsCondition(Replacing([plan[1] EXCEPT !.filters =
                Append(plan[1].filters, [position |-> position, expr |-> Condition(Ref(1), c)])]))

ExtendPushedFilter ==
    /\ Top = 1
    /\ \E i \in DOMAIN plan[1].filters, op \in {"and", "or"}, c \in ScanConditions :
        /\ LeftToScan(plan[1].filters[i].position, c)
        /\ AsCondition(Replacing([plan[1] EXCEPT !.filters[i].expr =
                Node(op, 0, <<plan[1].filters[i].expr, Condition(Ref(1), c)>>)]))

AddFilter == \E e \in Predicates(Top) : AsCondition(With(Filter(e, <<>>)))

\* A second expression, or a larger one.
ExtendFilter ==
    /\ plan[Top].type = "filter"
    /\ \E e \in Predicates(Top - 1) :
        \/ AsCondition(Replacing([plan[Top] EXCEPT !.exprs = Append(plan[Top].exprs, e)]))
        \/ AsCondition(Replacing([plan[Top] EXCEPT
                !.exprs[1] = Node("not", 0, <<Node("or", 0, <<plan[Top].exprs[1], e>>)>>)]))

AddProjection ==
    \E e \in Computed : AsOperator(With(Projection(<<Ref(Len(Types(plan)[Top])), e>>)))

AddMark == \E x \in Refs("value", Top), list \in Lists : AsOperator(With(Mark(x, list, <<>>, TRUE)))

\* A MARK join over constants with another condition.
AddOtherMark == \E x \in Refs("value", Top) : AsOperator(With(Mark(x, <<>>, <<>>, FALSE)))

\* An operator passes on only what those above it use.
RemoveUnusedColumns ==
    /\ plan[Top].type \in {"filter", "mark"} /\ plan[Top].map = <<>>
    /\ AsOperator(Replacing([plan[Top] EXCEPT !.map = <<Len(Types(plan)[Top - 1])>>]))

AddLimit == AsOperator(With(Limit))

AddTopN == \E x \in Refs("value", Top) : AsOperator(With(TopN(x.info)))

AddEmpty == AsOperator(With(Empty))

AddOther == AsOperator(With(Other))

Init ==
    /\ \E scan \in Scans : table = scan.table /\ plan = <<scan.get>>
    /\ conditions = 0 /\ operators = 0

Next ==
    \/ PushFilter \/ ExtendPushedFilter
    \/ AddFilter \/ ExtendFilter
    \/ AddProjection \/ RemoveUnusedColumns
    \/ AddMark \/ AddOtherMark
    \/ AddLimit \/ AddTopN
    \/ AddEmpty \/ AddOther

Spec == Init /\ [][Next]_vars

-----------------------------------------------------------------------------
(* Properties.                                                             *)

\* The condition the scan's query has for a filter keeps the row.
Returned(f, row) ==
    LET sql == TransformFilter(f) IN sql.op = "nothing" \/ Holds(sql, row, "clickhouse")
Passes(f, row) == Holds(f.expr, <<Read(plan[1].ids[f.position], row)>>, "duckdb")

\* A filter that DuckDB leaves to the scan keeps in ClickHouse exactly the rows
\* DuckDB would have kept, out-of-range dates, UUIDs, NULLs and hints
\* included (TransformFilter()): DuckDB does not apply it again.
PushedFilterExact ==
    \A i \in DOMAIN plan[1].filters : LET f == plan[1].filters[i] IN
        Pushable(f) /\ TransformFilter(f).op # "throw"
          => \A row \in Rows : Returned(f, row) <=> Passes(f, row)

\* A LIMIT or TOP N that ClickhouseOptimizer removed from the plan cuts, in
\* ClickHouse, the same rows in the same order (AllFiltersPushed(),
\* TraceColumn()): no filter is left to apply after it, and the key compares as
\* in DuckDB.
LimitOverExactRows ==
    \A n \in 2..Len(plan) : PushesLimit(n) =>
        LET below == SubSeq(plan, 1, n - 1)
            returned(row) == \A i \in DOMAIN plan[1].filters :
                                LET f == plan[1].filters[i] IN Pushable(f) => Returned(f, row)
            c == TraceColumn(n - 1, plan[n].order)
            key(row) == Outputs(below, row)[n - 1][plan[n].order]
        IN /\ \A row \in Rows : returned(row) <=> Survives(below, row)
           /\ plan[n].type = "top_n" => \A a, b \in Rows :
                Compare3("<", key(a), key(b)) = Eval(Node("<", 0, <<Leaf(c), Constant(b[c])>>), a, "clickhouse")

\* UUIDs compare in an UPDATE or DELETE as ClickHouse compares them.
NoUuid == \A c \in DOMAIN table.columns : Kind(c) # "uuid"

\* A DELETE that is not refused deletes exactly the rows DuckDB's plan selects,
\* whatever transform_null_in the server's default profile has
\* (AnalyzeTarget(), InList()).
DeleteRemovesExactly ==
    LET delete == PlanDelete IN
    NoUuid /\ delete.status # "refused" =>
        \A row \in Rows, system \in {"clickhouse", "null_in"} :
            Survives(plan, row) <=> delete.status = "ok" /\ Matches(delete.predicate, row, system)

\* What UPDATE t SET c = e may set.
SetValues == Refs("value", Top) \cup {Constant(Null), Constant(3)}

\* Every row of the table gets what DuckDB computes for it.
SetsExactly(c, e, set, predicate) ==
    LET new(row) == Eval(e, Outputs(plan, row)[Len(plan)], "duckdb") IN
    \A row \in Rows :
        CASE set.action = "refused" -> TRUE
          [] set.action = "none" -> ~Survives(plan, row)
          [] set.action = "keep" -> new(row) = Read(c, row)
          [] set.action = "set" -> \A system \in {"clickhouse", "null_in"} :
               /\ Survives(plan, row) <=> Matches(predicate, row, system)
               /\ Survives(plan, row) => Eval(set.value, row, system) = new(row)

\* An UPDATE that is not refused changes exactly the rows DuckDB's plan selects,
\* to the value DuckDB computes; a column it leaves out of the statement would
\* keep its value (PlanUpdate(), UnchangedScanColumn(), ResolveOutput()).
UpdateSetsExactly ==
    NoUuid /\ AnalyzeTarget.status # "refused" => \A c \in DOMAIN table.columns, e \in SetValues :
        SetsExactly(c, e, PlanUpdate(c, e), AnalyzeTarget.predicate)

\* The conversion of a new value to the column's type fails.
Fails(c, value) ==
    IF value = Null THEN ~CanHoldNull(c) ELSE Kind(c) = "text" /\ value \notin Stored(c)

\* Each value whose conversion fails is one the checks look for.
FailuresChecked(c, set, predicate) ==
    LET covered(value) == (IF value = Null THEN "nulls" ELSE "value") \in set.checks
        safe(value) == Fails(c, value) => covered(value)
    IN set.action = "set" => \A row \in Rows :
           Matches(predicate, row, "clickhouse") => safe(Eval(set.value, row, "clickhouse"))

\* The value a row is given without a check first always converts to the
\* column's type: one that does not would leave the mutation stuck
\* (PlanUpdate(): check_nulls, null_check_sql, check_sql).
UncheckedUpdateNeverStuck ==
    AnalyzeTarget.status = "ok" => \A c \in DOMAIN table.columns, e \in SetValues :
        FailuresChecked(c, PlanUpdate(c, e), AnalyzeTarget.predicate)
=============================================================================
