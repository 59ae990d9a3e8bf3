-------------------------- MODULE QueryPlanProofs --------------------------
(***************************************************************************)
(* Proofs about QueryPlan and the translations it is made of.              *)
(***************************************************************************)
EXTENDS QueryPlan, SequenceTheorems, TLAPS

-----------------------------------------------------------------------------
(* What is defined by recursion satisfies its equation.                    *)

EvalStep(p, e, v) == Apply(e, v, p[1], p[2])
TransformStep(p, e, parts) == TransformExpression(p, e, parts)
TranslateStep(p, e, args) == TranslateExpression(e, args, p)
TableFilterStep(p, e, parts) == TranslateTableFilter(e, parts, p)

EvalOf == INSTANCE Recursion WITH Step <- EvalStep
TransformOf == INSTANCE Recursion WITH Step <- TransformStep
TranslateOf == INSTANCE Recursion WITH Step <- TranslateStep
TableFilterOf == INSTANCE Recursion WITH Step <- TableFilterStep

\* The depth of an expression is more than that of its arguments.
LEMMA TreesRanked ==
    ASSUME AreExpressions
    PROVE  \E depth : /\ EvalOf!IsRanked(Trees, depth)
                      /\ TransformOf!IsRanked(Trees, depth)
                      /\ TranslateOf!IsRanked(Trees, depth)
                      /\ TableFilterOf!IsRanked(Trees, depth)
BY Zenon DEF AreExpressions, AreAllExpressions, EvalOf!IsRanked, TransformOf!IsRanked, TranslateOf!IsRanked,
             TableFilterOf!IsRanked

\* The value of an expression is that of its top operator, over the values of
\* the arguments.
LEMMA EvalUnfold ==
    ASSUME AreExpressions, NEW e \in Trees, NEW env, NEW system
    PROVE  Eval(e, env, system)
             = Apply(e, [i \in DOMAIN e.args |-> Eval(e.args[i], env, system)], env, system)
<1> DEFINE is(f) == f = [x \in Trees |-> Apply(x, [i \in DOMAIN x.args |-> f[x.args[i]]], env, system)]
           rec == CHOOSE f : is(f)
<1>1. PICK p : p = <<env, system>>
  OBVIOUS
<1>2. \E f : EvalOf!IsRecursive(f, p, Trees)
  BY TreesRanked, EvalOf!RecursionExists
<1>3. p[1] = env /\ p[2] = system
  BY <1>1
<1>4. \E f : is(f)
  BY <1>2, <1>3, Zenon DEF EvalOf!IsRecursive, EvalStep
<1>5. is(rec)
  BY <1>4, Zenon
<1>6. \A x : Eval(x, env, system) = rec[x]
  BY Zenon DEF Eval
<1>7. rec[e] = Apply(e, [i \in DOMAIN e.args |-> rec[e.args[i]]], env, system)
  BY <1>5, Zenon
<1> HIDE DEF rec
<1> QED BY <1>6, <1>7, Zenon

\* So with the three translations: each is one level of itself.
LEMMA TransformUnfold ==
    ASSUME AreExpressions, NEW e \in Trees, NEW column
    PROVE  TransformExpressionFilter(column, e)
             = TransformExpression(column, e,
                   [i \in DOMAIN e.args |-> TransformExpressionFilter(column, e.args[i])])
<1> DEFINE is(f) == f = [x \in Trees |->
                           TransformExpression(column, x, [i \in DOMAIN x.args |-> f[x.args[i]]])]
           rec == CHOOSE f : is(f)
<1>2. \E f : TransformOf!IsRecursive(f, column, Trees)
  BY TreesRanked, TransformOf!RecursionExists
<1>4. \E f : is(f)
  BY <1>2, Zenon DEF TransformOf!IsRecursive, TransformStep
<1>5. is(rec)
  BY <1>4, Zenon
<1>6. \A x : TransformExpressionFilter(column, x) = rec[x]
  BY Zenon DEF TransformExpressionFilter
<1>7. rec[e] = TransformExpression(column, e, [i \in DOMAIN e.args |-> rec[e.args[i]]])
  BY <1>5, Zenon
<1> HIDE DEF rec
<1> QED BY <1>6, <1>7, Zenon

LEMMA TranslateUnfold ==
    ASSUME AreExpressions, NEW e \in Trees, NEW inputs
    PROVE  Translate(e, inputs)
             = TranslateExpression(e, [i \in DOMAIN e.args |-> Translate(e.args[i], inputs)], inputs)
<1> DEFINE is(f) == f = [x \in Trees |->
                           TranslateExpression(x, [i \in DOMAIN x.args |-> f[x.args[i]]], inputs)]
           rec == CHOOSE f : is(f)
<1>2. \E f : TranslateOf!IsRecursive(f, inputs, Trees)
  BY TreesRanked, TranslateOf!RecursionExists
<1>4. \E f : is(f)
  BY <1>2, Zenon DEF TranslateOf!IsRecursive, TranslateStep
<1>5. is(rec)
  BY <1>4, Zenon
<1>6. \A x : Translate(x, inputs) = rec[x]
  BY Zenon DEF Translate
<1>7. rec[e] = TranslateExpression(e, [i \in DOMAIN e.args |-> rec[e.args[i]]], inputs)
  BY <1>5, Zenon
<1> HIDE DEF rec
<1> QED BY <1>6, <1>7, Zenon

LEMMA TableFilterUnfold ==
    ASSUME AreExpressions, NEW e \in Trees, NEW column
    PROVE  TranslateTableFilterExpression(e, column)
             = TranslateTableFilter(e,
                   [i \in DOMAIN e.args |-> TranslateTableFilterExpression(e.args[i], column)], column)
<1> DEFINE is(f) == f = [x \in Trees |->
                           TranslateTableFilter(x, [i \in DOMAIN x.args |-> f[x.args[i]]], column)]
           rec == CHOOSE f : is(f)
<1>2. \E f : TableFilterOf!IsRecursive(f, column, Trees)
  BY TreesRanked, TableFilterOf!RecursionExists
<1>4. \E f : is(f)
  BY <1>2, Zenon DEF TableFilterOf!IsRecursive, TableFilterStep
<1>5. is(rec)
  BY <1>4, Zenon
<1>6. \A x : TranslateTableFilterExpression(x, column) = rec[x]
  BY Zenon DEF TranslateTableFilterExpression
<1>7. rec[e] = TranslateTableFilter(e, [i \in DOMAIN e.args |-> rec[e.args[i]]], column)
  BY <1>5, Zenon
<1> HIDE DEF rec
<1> QED BY <1>6, <1>7, Zenon

-----------------------------------------------------------------------------
(* Expressions.                                                            *)

\* A node over expressions is one.
LEMMA TreeOver ==
    ASSUME AreExpressions, NEW op \in Ops, NEW info \in Infos, NEW n \in Nat, NEW at \in SUBSET (1..n),
           NEW args \in [at -> Trees]
    PROVE  Node(op, info, args) \in Trees
BY Zenon DEF AreExpressions, AreAllExpressions

LEMMA LeafTree ==
    ASSUME AreExpressions, NEW op \in Ops, NEW info \in Infos
    PROVE  Node(op, info, <<>>) \in Trees
<1>1. <<>> \in [{} -> Trees]
  OBVIOUS
<1> QED BY <1>1, TreeOver

LEMMA TreeOverOne ==
    ASSUME AreExpressions, NEW op \in Ops, NEW info \in Infos, NEW a \in Trees
    PROVE  Node(op, info, <<a>>) \in Trees
<1>1. <<a>> \in [1..1 -> Trees]
  OBVIOUS
<1> QED BY <1>1, TreeOver

LEMMA TreeOverTwo ==
    ASSUME AreExpressions, NEW op \in Ops, NEW info \in Infos, NEW a \in Trees, NEW b \in Trees
    PROVE  Node(op, info, <<a, b>>) \in Trees
<1>1. <<a, b>> \in [1..2 -> Trees]
  OBVIOUS
<1> QED BY <1>1, TreeOver

LEMMA TreeOverThree ==
    ASSUME AreExpressions, NEW op \in Ops, NEW info \in Infos, NEW a \in Trees, NEW b \in Trees,
           NEW c \in Trees
    PROVE  Node(op, info, <<a, b, c>>) \in Trees
<1>1. <<a, b, c>> \in [1..3 -> Trees]
  OBVIOUS
<1> QED BY <1>1, TreeOver

\* The arguments of a node that is written out.
LEMMA OneArgument == \A a : DOMAIN <<a>> = {1} /\ <<a>>[1] = a
OBVIOUS

LEMMA TwoArguments == \A a, b : DOMAIN <<a, b>> = {1, 2} /\ <<a, b>>[1] = a /\ <<a, b>>[2] = b
OBVIOUS

LEMMA ThreeArguments ==
    \A a, b, c : /\ DOMAIN <<a, b, c>> = {1, 2, 3}
                 /\ <<a, b, c>>[1] = a /\ <<a, b, c>>[2] = b /\ <<a, b, c>>[3] = c
OBVIOUS

\* The operators and constants the model writes out are those of an expression.
LEMMA NodeOps ==
    /\ Comparisons \subseteq Ops
    /\ {"constant", "truth", "is_null", "is_not_null", "and", "or", "in", "not_in", "if", "text"} \subseteq Ops
    /\ Int \cup BOOLEAN \cup {Null} \subseteq Infos
    /\ 0 \in Infos
<1>1. Comparisons \subseteq Ops
  BY Zenon DEF Ops
<1>2. {"constant", "truth", "is_null", "is_not_null", "and", "or", "in", "not_in", "if", "text"} \subseteq Ops
  BY DEF Ops
<1>3. Int \cup BOOLEAN \cup {Null} \subseteq Infos
  BY Zenon DEF Infos
<1>4. 0 \in Infos
  <2>1. 0 \in Int
    OBVIOUS
  <2> QED BY <2>1, Zenon DEF Infos
<1> QED BY <1>1, <1>2, <1>3, <1>4

-----------------------------------------------------------------------------
(* Three-valued logic.                                                     *)

Three == {TRUE, FALSE, Null}

\* AND and OR of SQL over the three values.
LEMMA And3Value ==
    ASSUME NEW values
    PROVE  /\ And3(values) \in Three
           /\ (FALSE \in values) => And3(values) = FALSE
           /\ values \subseteq Three => (And3(values) = TRUE <=> \A v \in values : v = TRUE)
<1>1. Null # TRUE /\ Null # FALSE
  BY NullAssumption
<1>2. And3(values) \in Three
  BY Zenon DEF And3, Three
<1>3. (FALSE \in values) => And3(values) = FALSE
  BY Zenon DEF And3
<1>4. ASSUME values \subseteq Three, And3(values) = TRUE, NEW v \in values PROVE v = TRUE
  <2>1. FALSE \notin values
    BY <1>4, <1>3, Zenon
  <2>2. Null \notin values
    BY <1>1, <1>4, <2>1, Zenon DEF And3
  <2> QED BY <1>4, <2>1, <2>2, Zenon DEF Three
<1>5. ASSUME \A v \in values : v = TRUE PROVE And3(values) = TRUE
  BY <1>1, <1>5, Zenon DEF And3
<1> QED BY <1>2, <1>3, <1>4, <1>5, Zenon

LEMMA Not3Value ==
    /\ Not3(TRUE) = FALSE /\ Not3(FALSE) = TRUE /\ Not3(Null) = Null
    /\ \A v \in Three : Not3(v) \in Three /\ (Not3(v) = TRUE <=> v = FALSE) /\ (Not3(v) = FALSE <=> v = TRUE)
<1>1. Null # TRUE /\ Null # FALSE
  BY NullAssumption
<1>2. Not3(TRUE) = FALSE /\ Not3(FALSE) = TRUE /\ Not3(Null) = Null
  BY <1>1, Zenon DEF Not3
<1>3. ASSUME NEW v \in Three
      PROVE Not3(v) \in Three /\ (Not3(v) = TRUE <=> v = FALSE) /\ (Not3(v) = FALSE <=> v = TRUE)
  <2>1. CASE v = TRUE
    BY <1>1, <1>2, <2>1, Zenon DEF Three
  <2>2. CASE v = FALSE
    BY <1>1, <1>2, <2>2, Zenon DEF Three
  <2>3. CASE v = Null
    BY <1>1, <1>2, <2>3, Zenon DEF Three
  <2> QED BY <2>1, <2>2, <2>3, Zenon DEF Three
<1> QED BY <1>2, <1>3, Zenon

LEMMA Or3Value ==
    ASSUME NEW values
    PROVE  /\ Or3(values) \in Three
           /\ (TRUE \in values) => Or3(values) = TRUE
           /\ values \subseteq Three => (Or3(values) = TRUE <=> TRUE \in values)
           /\ values \subseteq Three => (Or3(values) = FALSE <=> \A v \in values : v = FALSE)
<1> DEFINE not == {Not3(v) : v \in values}
<1>1. Or3(values) = Not3(And3(not))
  BY Zenon DEF Or3
<1>2. And3(not) \in Three /\ (FALSE \in not => And3(not) = FALSE)
  BY And3Value, Zenon
<1>3. Or3(values) \in Three
  BY <1>1, <1>2, Not3Value, Zenon
<1>4. ASSUME TRUE \in values PROVE Or3(values) = TRUE
  <2>1. FALSE \in not
    BY <1>4, Not3Value, Zenon
  <2> QED BY <1>1, <1>2, <2>1, Not3Value, Zenon
<1>5. ASSUME values \subseteq Three
      PROVE  /\ Or3(values) = TRUE => TRUE \in values
             /\ Or3(values) = FALSE <=> \A v \in values : v = FALSE
  <2>1. not \subseteq Three
    BY <1>5, Not3Value, Zenon
  <2>2. And3(not) = TRUE <=> \A w \in not : w = TRUE
    BY <2>1, And3Value, Zenon
  <2>3. (\A w \in not : w = TRUE) <=> (\A v \in values : v = FALSE)
    BY <1>5, Not3Value, Zenon
  <2>4. Or3(values) = FALSE <=> \A v \in values : v = FALSE
    BY <1>1, <1>2, <2>2, <2>3, Not3Value, Zenon
  <2>5. ASSUME Or3(values) = TRUE PROVE TRUE \in values
    <3>1. And3(not) = FALSE
      BY <1>1, <1>2, <2>5, Not3Value, Zenon
    <3>2. FALSE \in not
      <4>1. Null # FALSE
        BY NullAssumption
      <4> QED BY <3>1, <4>1, Zenon DEF And3
    <3>3. PICK v \in values : FALSE = Not3(v)
      BY <3>2
    <3>4. v \in Three
      BY <1>5
    <3> QED BY <3>3, <3>4, Not3Value, Zenon
  <2> QED BY <2>4, <2>5, Zenon
<1> QED BY <1>3, <1>4, <1>5, Zenon

\* A comparison is NULL if a side is, and else compares integers.
LEMMA EqualValue ==
    ASSUME NEW a, NEW b
    PROVE  /\ a = Null \/ b = Null => Compare3("=", a, b) = Null
           /\ a # Null /\ b # Null => Compare3("=", a, b) = (a = b)
<1>1. ASSUME a = Null \/ b = Null PROVE Compare3("=", a, b) = Null
  BY <1>1 DEF Compare3
<1>2. ASSUME a # Null, b # Null PROVE Compare3("=", a, b) = (a = b)
  BY <1>2 DEF Compare3
<1> QED BY <1>1, <1>2, Zenon

LEMMA CompareValue ==
    ASSUME NEW a \in Int, NEW b \in Int
    PROVE  /\ Compare3("=", a, b) = IF a = b THEN TRUE ELSE FALSE
           /\ Compare3("!=", a, b) = IF a # b THEN TRUE ELSE FALSE
           /\ Compare3("<", a, b) = IF a < b THEN TRUE ELSE FALSE
           /\ Compare3(">", a, b) = IF a > b THEN TRUE ELSE FALSE
           /\ Compare3("<=", a, b) = IF a <= b THEN TRUE ELSE FALSE
           /\ Compare3(">=", a, b) = IF a >= b THEN TRUE ELSE FALSE
<1>1. a # Null /\ b # Null
  BY NullAssumption
<1>2. Compare3("=", a, b) = IF a = b THEN TRUE ELSE FALSE
  BY <1>1 DEF Compare3
<1>3. Compare3("!=", a, b) = IF a # b THEN TRUE ELSE FALSE
  BY <1>1 DEF Compare3
<1>4. Compare3("<", a, b) = IF a < b THEN TRUE ELSE FALSE
  <2>1. Compare3("<", a, b) = (a < b)
    BY <1>1 DEF Compare3
  <2>2. (a < b) \in BOOLEAN
    OBVIOUS
  <2> QED BY <2>1, <2>2, Zenon
<1>5. Compare3(">", a, b) = IF a > b THEN TRUE ELSE FALSE
  <2>1. Compare3(">", a, b) = (a > b)
    BY <1>1 DEF Compare3
  <2>2. (a > b) \in BOOLEAN
    OBVIOUS
  <2> QED BY <2>1, <2>2, Zenon
<1>6. Compare3("<=", a, b) = IF a <= b THEN TRUE ELSE FALSE
  <2>1. Compare3("<=", a, b) = (a <= b)
    BY <1>1 DEF Compare3
  <2>2. (a <= b) \in BOOLEAN
    OBVIOUS
  <2> QED BY <2>1, <2>2, Zenon
<1>7. Compare3(">=", a, b) = IF a >= b THEN TRUE ELSE FALSE
  <2>1. Compare3(">=", a, b) = (a >= b)
    BY <1>1 DEF Compare3
  <2>2. (a >= b) \in BOOLEAN
    OBVIOUS
  <2> QED BY <2>1, <2>2, Zenon
<1> QED BY <1>2, <1>3, <1>4, <1>5, <1>6, <1>7, Zenon

LEMMA CompareNull ==
    ASSUME NEW op, NEW a, NEW b, a = Null \/ b = Null
    PROVE  Compare3(op, a, b) = Null
BY DEF Compare3

\* IN a list without NULLs decides, unless the value is NULL.
LEMMA In3Value ==
    ASSUME NEW v, NEW list, Null \notin list
    PROVE  /\ In3(v, list) \in Three
           /\ v # Null => (In3(v, list) = TRUE <=> v \in list)
           /\ v # Null => (In3(v, list) = FALSE <=> v \notin list)
           /\ v = Null => In3(v, list) # TRUE
           /\ v = Null /\ list # {} => In3(v, list) = Null
<1> DEFINE results == {Compare3("=", v, w) : w \in list}
<1>1. In3(v, list) = Or3(results)
  BY Zenon DEF In3
<1>2. CASE v = Null
  <2>1. \A w \in list : Compare3("=", v, w) = Null
    BY <1>2, EqualValue, Zenon
  <2>2. results \subseteq Three
    BY <2>1, Zenon DEF Three
  <2>3. ASSUME list # {} PROVE In3(v, list) = Null
    <3>1. results = {Null}
      BY <2>1, <2>3, Zenon
    <3>2. TRUE \notin results /\ FALSE \notin results
      BY <3>1, NullAssumption
    <3>3. Or3(results) # TRUE /\ Or3(results) # FALSE
      <4>1. Null \in results
        BY <3>1
      <4> QED BY <2>2, <3>2, <4>1, Or3Value, Zenon
    <3> QED BY <1>1, <3>3, Or3Value, Zenon DEF Three
  <2>4. In3(v, list) \in Three
    BY <1>1, Or3Value, Zenon
  <2>5. In3(v, list) # TRUE
    <3>1. Null # TRUE
      BY NullAssumption
    <3>2. TRUE \notin results
      BY <2>1, <3>1, Zenon
    <3> QED BY <1>1, <2>2, <3>2, Or3Value, Zenon
  <2> QED BY <1>2, <2>3, <2>4, <2>5
<1>3. CASE v # Null
  <2>1. ASSUME NEW w \in list PROVE Compare3("=", v, w) = (v = w)
    <3>1. w # Null
      OBVIOUS
    <3> HIDE DEF results
    <3> QED BY ONLY <1>3, <3>1, EqualValue
  <2>2. results \subseteq Three
    BY <2>1, Zenon DEF Three
  <2>3. TRUE \in results <=> v \in list
    BY <2>1, Zenon
  <2>4. (\A r \in results : r = FALSE) <=> v \notin list
    BY <2>1, Zenon
  <2> QED BY <1>1, <1>3, <2>2, <2>3, <2>4, Or3Value, Zenon
<1> QED BY <1>2, <1>3

-----------------------------------------------------------------------------
(* One operator.                                                           *)

\* Apply(), operator by operator.
LEMMA ApplyLeaf ==
    ASSUME NEW e, e.op \in {"ref", "column", "uuid", "enum"}, NEW v, NEW env, NEW system
    PROVE  Apply(e, v, env, system) = env[e.info]
BY DEF Apply, Comparisons, Ordered, Hints

LEMMA ApplyConstant ==
    ASSUME NEW e, e.op \in {"constant", "truth"}, NEW v, NEW env, NEW system
    PROVE  Apply(e, v, env, system) = e.info
BY DEF Apply, Comparisons, Ordered, Hints

LEMMA ApplyComparison ==
    ASSUME NEW e, e.op \in Comparisons, NEW v, NEW env, NEW system,
           ~(e.op \in Ordered /\ e.args[1].op = "uuid"),
           ~(e.op = "!=" /\ e.args[1].op = "enum" /\ v[2] \notin Labels)
    PROVE  Apply(e, v, env, system) = Compare3(e.op, v[1], v[2])
BY DEF Apply, Comparisons, Ordered, Hints

LEMMA ApplyBetween ==
    ASSUME NEW e, e.op = "between", NEW v, NEW env, NEW system
    PROVE  Apply(e, v, env, system) = And3({Compare3(">=", v[1], v[2]), Compare3("<=", v[1], v[3])})
BY DEF Apply, Comparisons, Ordered, Hints

LEMMA ApplyIsNull ==
    ASSUME NEW e, e.op = "is_null", NEW v, NEW env, NEW system
    PROVE  Apply(e, v, env, system) = (v[1] = Null)
BY DEF Apply, Comparisons, Ordered, Hints

LEMMA ApplyIsNotNull ==
    ASSUME NEW e, e.op = "is_not_null", NEW v, NEW env, NEW system
    PROVE  Apply(e, v, env, system) = (v[1] # Null)
BY DEF Apply, Comparisons, Ordered, Hints

LEMMA ApplyAnd ==
    ASSUME NEW e, e.op = "and", NEW v, NEW env, NEW system
    PROVE  Apply(e, v, env, system) = And3({v[j] : j \in {k \in DOMAIN e.args : k >= 1}})
BY DEF Apply, Comparisons, Ordered, Hints

LEMMA ApplyOr ==
    ASSUME NEW e, e.op = "or", NEW v, NEW env, NEW system
    PROVE  Apply(e, v, env, system) = Or3({v[j] : j \in {k \in DOMAIN e.args : k >= 1}})
BY DEF Apply, Comparisons, Ordered, Hints

LEMMA ApplyIn ==
    ASSUME NEW e, NEW v, NEW env, NEW system, system # "null_in"
    PROVE  LET list == {v[j] : j \in {k \in DOMAIN e.args : k >= 2}} IN
           /\ e.op = "in" => Apply(e, v, env, system) = In3(v[1], list)
           /\ e.op = "not_in" => Apply(e, v, env, system) = Not3(In3(v[1], list))
BY DEF Apply, Comparisons, Ordered, Hints

ListOf(e, v) == {v[j] : j \in {k \in DOMAIN e.args : k >= 2}}

LEMMA ApplyNullIn ==
    ASSUME NEW e, NEW v, NEW env
    PROVE  /\ e.op = "in" /\ v[1] \in ListOf(e, v) => Apply(e, v, env, "null_in") = TRUE
           /\ e.op = "in" /\ ~(v[1] \in ListOf(e, v)) => Apply(e, v, env, "null_in") = FALSE
           /\ e.op = "not_in" /\ v[1] \in ListOf(e, v) => Apply(e, v, env, "null_in") = FALSE
           /\ e.op = "not_in" /\ ~(v[1] \in ListOf(e, v)) => Apply(e, v, env, "null_in") = TRUE
<1>1. /\ e.op = "in" => Apply(e, v, env, "null_in") = (v[1] \in ListOf(e, v))
      /\ e.op = "not_in" => Apply(e, v, env, "null_in") = Not3(v[1] \in ListOf(e, v))
  BY DEF Apply, Comparisons, Ordered, Hints, ListOf
<1>3. CASE v[1] \in ListOf(e, v)
  <2>1. (v[1] \in ListOf(e, v)) = TRUE
    BY <1>3, Zenon
  <2>2. /\ e.op = "in" => Apply(e, v, env, "null_in") = TRUE
        /\ e.op = "not_in" => Apply(e, v, env, "null_in") = Not3(TRUE)
    BY <1>1, <2>1, Zenon
  <2> QED BY <1>3, <2>2, Not3Value, Zenon
<1>4. CASE ~(v[1] \in ListOf(e, v))
  <2>1. (v[1] \in ListOf(e, v)) = FALSE
    BY ONLY <1>4, SMT
  <2>2. /\ e.op = "in" => Apply(e, v, env, "null_in") = FALSE
        /\ e.op = "not_in" => Apply(e, v, env, "null_in") = Not3(FALSE)
    BY <1>1, <2>1, Zenon
  <2> QED BY <1>4, <2>2, Not3Value, Zenon
<1> QED BY <1>3, <1>4

LEMMA ApplyIf ==
    ASSUME NEW e, e.op = "if", NEW v, NEW env, NEW system
    PROVE  Apply(e, v, env, system) = IF v[1] = TRUE THEN v[2] ELSE v[3]
BY DEF Apply, Comparisons, Ordered, Hints

LEMMA ApplyText ==
    ASSUME NEW e, e.op = "text", NEW v, NEW env, NEW system
    PROVE  Apply(e, v, env, system) = v[1]
BY DEF Apply, Comparisons, Ordered, Hints

LEMMA ApplyHint ==
    ASSUME NEW e, e.op \in Hints, NEW v, NEW env, NEW system
    PROVE  Apply(e, v, env, system) = TRUE
BY DEF Apply, Comparisons, Ordered, Hints

\* Eval(), operator by operator.
LEMMA EvalLeaf ==
    ASSUME AreExpressions, NEW e \in Trees, e.op \in {"ref", "column", "uuid", "enum"}, NEW env, NEW system
    PROVE  Eval(e, env, system) = env[e.info]
<1> DEFINE v == [i \in DOMAIN e.args |-> Eval(e.args[i], env, system)]
<1>1. Eval(e, env, system) = Apply(e, v, env, system)
  BY EvalUnfold, Zenon
<1> HIDE DEF v
<1>2. Apply(e, v, env, system) = env[e.info]
  BY ApplyLeaf
<1> QED BY <1>1, <1>2, Zenon

LEMMA EvalConstant ==
    ASSUME AreExpressions, NEW e \in Trees, e.op \in {"constant", "truth"}, NEW env, NEW system
    PROVE  Eval(e, env, system) = e.info
<1> DEFINE v == [i \in DOMAIN e.args |-> Eval(e.args[i], env, system)]
<1>1. Eval(e, env, system) = Apply(e, v, env, system)
  BY EvalUnfold, Zenon
<1> HIDE DEF v
<1>2. Apply(e, v, env, system) = e.info
  BY ApplyConstant
<1> QED BY <1>1, <1>2, Zenon

LEMMA EvalComparison ==
    ASSUME AreExpressions, NEW e \in Trees, e.op \in Comparisons, {1, 2} \subseteq DOMAIN e.args,
           NEW env, NEW system,
           ~(e.op \in Ordered /\ e.args[1].op = "uuid"),
           ~(e.op = "!=" /\ e.args[1].op = "enum" /\ Eval(e.args[2], env, system) \notin Labels)
    PROVE  Eval(e, env, system) = Compare3(e.op, Eval(e.args[1], env, system), Eval(e.args[2], env, system))
<1> DEFINE v == [i \in DOMAIN e.args |-> Eval(e.args[i], env, system)]
<1>1. Eval(e, env, system) = Apply(e, v, env, system)
  BY EvalUnfold, Zenon
<1>2. v[1] = Eval(e.args[1], env, system) /\ v[2] = Eval(e.args[2], env, system)
  BY Zenon
<1> HIDE DEF v
<1>3. Apply(e, v, env, system) = Compare3(e.op, v[1], v[2])
  BY <1>2, ApplyComparison, Zenon
<1> QED BY <1>1, <1>2, <1>3, Zenon

LEMMA EvalIsNull ==
    ASSUME AreExpressions, NEW e \in Trees, 1 \in DOMAIN e.args, NEW env, NEW system
    PROVE  /\ e.op = "is_null" => Eval(e, env, system) = (Eval(e.args[1], env, system) = Null)
           /\ e.op = "is_not_null" => Eval(e, env, system) = (Eval(e.args[1], env, system) # Null)
<1> DEFINE v == [i \in DOMAIN e.args |-> Eval(e.args[i], env, system)]
<1>1. Eval(e, env, system) = Apply(e, v, env, system)
  BY EvalUnfold, Zenon
<1>2. v[1] = Eval(e.args[1], env, system)
  BY Zenon
<1> HIDE DEF v
<1>3. ASSUME e.op = "is_null" PROVE Apply(e, v, env, system) = (v[1] = Null)
  BY <1>3, ApplyIsNull, Zenon
<1>4. ASSUME e.op = "is_not_null" PROVE Apply(e, v, env, system) = (v[1] # Null)
  BY <1>4, ApplyIsNotNull, Zenon
<1> QED BY <1>1, <1>2, <1>3, <1>4, Zenon

LEMMA EvalText ==
    ASSUME AreExpressions, NEW e \in Trees, e.op = "text", 1 \in DOMAIN e.args, NEW env, NEW system
    PROVE  Eval(e, env, system) = Eval(e.args[1], env, system)
<1> DEFINE v == [i \in DOMAIN e.args |-> Eval(e.args[i], env, system)]
<1>1. Eval(e, env, system) = Apply(e, v, env, system)
  BY EvalUnfold, Zenon
<1>2. v[1] = Eval(e.args[1], env, system)
  BY Zenon
<1> HIDE DEF v
<1>3. Apply(e, v, env, system) = v[1]
  BY ApplyText, Zenon
<1> QED BY <1>1, <1>2, <1>3, Zenon

LEMMA EvalHint ==
    ASSUME AreExpressions, NEW e \in Trees, e.op \in Hints, NEW env, NEW system
    PROVE  Eval(e, env, system) = TRUE
BY EvalUnfold, ApplyHint, Zenon

\* Arguments have positive positions, and are expressions.
LEMMA Positions ==
    ASSUME AreExpressions, NEW e \in Trees
    PROVE  /\ DOMAIN e.args \subseteq Nat \ {0}
           /\ {k \in DOMAIN e.args : k >= 1} = DOMAIN e.args
           /\ \A k \in DOMAIN e.args : k > 1 <=> k # 1
           /\ {k \in DOMAIN e.args : k >= 2} = DOMAIN e.args \ {1}
           /\ \A i \in DOMAIN e.args : e.args[i] \in Trees
<1>1. PICK n \in Nat : DOMAIN e.args \subseteq 1..n
  BY DEF AreExpressions, AreAllExpressions
<1>2. \A i \in DOMAIN e.args : e.args[i] \in Trees
  BY Zenon DEF AreExpressions, AreAllExpressions
<1>3. DOMAIN e.args \subseteq Nat \ {0}
  BY <1>1
<1>4. {k \in DOMAIN e.args : k >= 1} = DOMAIN e.args
  BY <1>3
<1>5. {k \in DOMAIN e.args : k >= 2} = DOMAIN e.args \ {1}
  BY <1>3
<1>6. \A k \in DOMAIN e.args : k > 1 <=> k # 1
  BY <1>3
<1> QED BY <1>2, <1>3, <1>4, <1>5, <1>6, Zenon

\* The values of an operator's arguments; of the list of an IN; the constants of
\* the list.
ArgValues(e, env, system) == {Eval(e.args[i], env, system) : i \in DOMAIN e.args}
ListValues(e, env, system) == {Eval(e.args[i], env, system) : i \in DOMAIN e.args \ {1}}
ListConstants(e) == {e.args[i].info : i \in DOMAIN e.args \ {1}}
IsConstantList(e) ==
    \A i \in DOMAIN e.args \ {1} : e.args[i].op = "constant" /\ e.args[i].info \in Int

LEMMA EvalConjunction ==
    ASSUME AreExpressions, NEW e \in Trees, NEW env, NEW system
    PROVE  /\ e.op = "and" => Eval(e, env, system) = And3(ArgValues(e, env, system))
           /\ e.op = "or" => Eval(e, env, system) = Or3(ArgValues(e, env, system))
<1> DEFINE v == [i \in DOMAIN e.args |-> Eval(e.args[i], env, system)]
<1>1. Eval(e, env, system) = Apply(e, v, env, system)
  BY EvalUnfold, Zenon
<1>2. {v[j] : j \in DOMAIN e.args} = ArgValues(e, env, system)
  BY Zenon DEF ArgValues
<1>3. {v[j] : j \in {k \in DOMAIN e.args : k >= 1}} = {v[j] : j \in DOMAIN e.args}
  BY Positions, Zenon
<1> HIDE DEF v
<1>4. ASSUME e.op = "and"
      PROVE  Apply(e, v, env, system) = And3({v[j] : j \in {k \in DOMAIN e.args : k >= 1}})
  BY <1>4, ApplyAnd, Zenon
<1>5. ASSUME e.op = "or"
      PROVE  Apply(e, v, env, system) = Or3({v[j] : j \in {k \in DOMAIN e.args : k >= 1}})
  BY <1>5, ApplyOr, Zenon
<1> QED BY <1>1, <1>2, <1>3, <1>4, <1>5, Zenon

LEMMA EvalInList ==
    ASSUME AreExpressions, NEW e \in Trees, 1 \in DOMAIN e.args, NEW env, NEW system, system # "null_in"
    PROVE  /\ e.op = "in" => Eval(e, env, system) = In3(Eval(e.args[1], env, system), ListValues(e, env, system))
           /\ e.op = "not_in" =>
                Eval(e, env, system) = Not3(In3(Eval(e.args[1], env, system), ListValues(e, env, system)))
<1> DEFINE v == [i \in DOMAIN e.args |-> Eval(e.args[i], env, system)]
<1>1. Eval(e, env, system) = Apply(e, v, env, system)
  BY EvalUnfold, Zenon
<1>2. {v[j] : j \in DOMAIN e.args \ {1}} = ListValues(e, env, system)
  BY Zenon DEF ListValues
<1>3. {v[j] : j \in {k \in DOMAIN e.args : k >= 2}} = {v[j] : j \in DOMAIN e.args \ {1}}
  BY Positions, Zenon
<1>4. v[1] = Eval(e.args[1], env, system)
  BY Zenon
<1> HIDE DEF v
<1> DEFINE list == {v[j] : j \in {k \in DOMAIN e.args : k >= 2}}
<1>5. list = ListValues(e, env, system)
  BY <1>2, <1>3, Zenon
<1>6. /\ e.op = "in" => Apply(e, v, env, system) = In3(v[1], list)
      /\ e.op = "not_in" => Apply(e, v, env, system) = Not3(In3(v[1], list))
  BY ApplyIn, Zenon
<1> HIDE DEF list
<1> QED BY <1>1, <1>4, <1>5, <1>6, Zenon

LEMMA EvalNullIn ==
    ASSUME AreExpressions, NEW e \in Trees, 1 \in DOMAIN e.args, NEW env
    PROVE  /\ e.op = "in" /\ Eval(e.args[1], env, "null_in") \in ListValues(e, env, "null_in")
                => Eval(e, env, "null_in") = TRUE
           /\ e.op = "in" /\ ~(Eval(e.args[1], env, "null_in") \in ListValues(e, env, "null_in"))
                => Eval(e, env, "null_in") = FALSE
           /\ e.op = "not_in" /\ Eval(e.args[1], env, "null_in") \in ListValues(e, env, "null_in")
                => Eval(e, env, "null_in") = FALSE
           /\ e.op = "not_in" /\ ~(Eval(e.args[1], env, "null_in") \in ListValues(e, env, "null_in"))
                => Eval(e, env, "null_in") = TRUE
<1> DEFINE v == [i \in DOMAIN e.args |-> Eval(e.args[i], env, "null_in")]
<1>1. Eval(e, env, "null_in") = Apply(e, v, env, "null_in")
  BY EvalUnfold, Zenon
<1>2. {v[j] : j \in DOMAIN e.args \ {1}} = ListValues(e, env, "null_in")
  BY Zenon DEF ListValues
<1>3. {v[j] : j \in {k \in DOMAIN e.args : k >= 2}} = {v[j] : j \in DOMAIN e.args \ {1}}
  BY Positions, Zenon
<1>4. v[1] = Eval(e.args[1], env, "null_in")
  BY Zenon
<1>5. ListOf(e, v) = ListValues(e, env, "null_in")
  BY <1>2, <1>3, Zenon DEF ListOf
<1> HIDE DEF v
<1>6. /\ e.op = "in" /\ v[1] \in ListOf(e, v) => Apply(e, v, env, "null_in") = TRUE
      /\ e.op = "in" /\ ~(v[1] \in ListOf(e, v)) => Apply(e, v, env, "null_in") = FALSE
      /\ e.op = "not_in" /\ v[1] \in ListOf(e, v) => Apply(e, v, env, "null_in") = FALSE
      /\ e.op = "not_in" /\ ~(v[1] \in ListOf(e, v)) => Apply(e, v, env, "null_in") = TRUE
  BY ApplyNullIn, Zenon
<1> QED BY <1>1, <1>4, <1>5, <1>6, Zenon

-----------------------------------------------------------------------------
(* TransformExpressionFilter(): a filter over one column, x, in the row.   *)

\* What a filter's condition is, where it has one, keeps the row in ClickHouse
\* exactly if DuckDB's filter keeps it.
Exact(sql, e, row, env) ==
    \/ sql.op = "throw"
    \/ sql.op = "nothing" /\ Eval(e, env, "duckdb") = TRUE
    \/ /\ sql \in Trees /\ sql.op \notin {"throw", "nothing"}
       /\ Eval(sql, row, "clickhouse") \in Three /\ Eval(e, env, "duckdb") \in Three
       /\ Eval(sql, row, "clickhouse") = TRUE <=> Eval(e, env, "duckdb") = TRUE

\* The column's leaf has the value x, which DuckDB reads.
ColumnReads(column, row, env, x) ==
    /\ column \in Trees /\ column.op \in {"column", "uuid", "enum"}
    /\ row[column.info] = x /\ env[1] = x
    /\ x \in Representable \cup {Null}

\* A day that a column cannot hold is below or above all it can.
LEMMA OutOfBounds ==
    ASSUME NEW d \in Int, d \notin Representable, NEW x \in Representable
    PROVE  /\ x \in Int
           /\ (\A r \in Representable : d < r) => d < x
           /\ ~(\A r \in Representable : d < r) => x < d
<1>1. x \in Int
  BY RepresentableAssumption
<1>2. ASSUME ~(\A r \in Representable : d < r) PROVE x < d
  <2>1. PICK r \in Representable : ~(d < r)
    BY <1>2
  <2>2. r \in Int /\ r # d /\ x # d
    BY RepresentableAssumption
  <2>3. r < d
    BY <2>1, <2>2
  <2>4. r..x \subseteq Representable
    BY RepresentableAssumption
  <2>5. ~(d < x)
    <3>1. SUFFICES ASSUME d < x PROVE FALSE
      OBVIOUS
    <3>2. d \in r..x
      BY <1>1, <2>2, <2>3, <3>1
    <3> QED BY <2>4, <3>2
  <2> QED BY <1>1, <2>2, <2>5
<1> QED BY <1>1, <1>2

FoldsToTrue(comparison, below) ==
    \/ comparison = "!="
    \/ comparison \in {"<", "<="} /\ ~below
    \/ comparison \in {">", ">="} /\ below

\* So the fold says what the comparison is for every day the column holds.
LEMMA FoldedComparison ==
    ASSUME NEW comparison \in Comparisons, NEW d \in Int, d \notin Representable, NEW x \in Representable
    PROVE  Compare3(comparison, x, d)
             = IF FoldsToTrue(comparison, \A r \in Representable : d < r) THEN TRUE ELSE FALSE
<1> DEFINE below == \A r \in Representable : d < r
<1>1. x \in Int /\ (below => d < x) /\ (~below => x < d)
  BY OutOfBounds, Zenon
<1> HIDE DEF below
<1>2. /\ below => ~(x = d) /\ ~(x < d) /\ x > d /\ ~(x <= d) /\ x >= d
      /\ ~below => ~(x = d) /\ x < d /\ ~(x > d) /\ x <= d /\ ~(x >= d)
  BY <1>1
<1>3. CASE comparison = "="
  <2>1. Compare3("=", x, d) = FALSE
    BY <1>1, <1>2, CompareValue, Zenon
  <2>2. ~FoldsToTrue("=", below)
    BY DEF FoldsToTrue
  <2> QED BY <1>3, <2>1, <2>2, Zenon DEF below
<1>4. CASE comparison = "!="
  <2>1. Compare3("!=", x, d) = TRUE
    BY <1>1, <1>2, CompareValue, Zenon
  <2>2. FoldsToTrue("!=", below)
    BY DEF FoldsToTrue
  <2> QED BY <1>4, <2>1, <2>2, Zenon DEF below
<1>5. CASE comparison = "<"
  <2>1. Compare3("<", x, d) = IF ~below THEN TRUE ELSE FALSE
    BY <1>1, <1>2, CompareValue, Zenon
  <2>2. FoldsToTrue("<", below) <=> ~below
    BY DEF FoldsToTrue
  <2> QED BY <1>5, <2>1, <2>2, Zenon DEF below
<1>6. CASE comparison = ">"
  <2>1. Compare3(">", x, d) = IF below THEN TRUE ELSE FALSE
    BY <1>1, <1>2, CompareValue, Zenon
  <2>2. FoldsToTrue(">", below) <=> below
    BY DEF FoldsToTrue
  <2> QED BY <1>6, <2>1, <2>2, Zenon DEF below
<1>7. CASE comparison = "<="
  <2>1. Compare3("<=", x, d) = IF ~below THEN TRUE ELSE FALSE
    BY <1>1, <1>2, CompareValue, Zenon
  <2>2. FoldsToTrue("<=", below) <=> ~below
    BY DEF FoldsToTrue
  <2> QED BY <1>7, <2>1, <2>2, Zenon DEF below
<1>8. CASE comparison = ">="
  <2>1. Compare3(">=", x, d) = IF below THEN TRUE ELSE FALSE
    BY <1>1, <1>2, CompareValue, Zenon
  <2>2. FoldsToTrue(">=", below) <=> below
    BY DEF FoldsToTrue
  <2> QED BY <1>8, <2>1, <2>2, Zenon DEF below
<1> QED BY <1>3, <1>4, <1>5, <1>6, <1>7, <1>8 DEF Comparisons, Ordered

\* A comparison with a constant has one of the three values.
LEMMA CompareThree ==
    ASSUME NEW op \in Comparisons, NEW a \in Int \cup {Null}, NEW b \in Int
    PROVE  Compare3(op, a, b) \in Three
<1>1. CASE a = Null
  BY <1>1, CompareNull, Zenon DEF Three
<1>2. CASE a \in Int
  <2>1. /\ Compare3("=", a, b) \in Three /\ Compare3("!=", a, b) \in Three
        /\ Compare3("<", a, b) \in Three /\ Compare3(">", a, b) \in Three
        /\ Compare3("<=", a, b) \in Three /\ Compare3(">=", a, b) \in Three
    <3> DEFINE truth(P) == IF P THEN TRUE ELSE FALSE
    <3>1. \A P : truth(P) \in Three
      BY Zenon DEF Three
    <3> QED BY <1>2, <3>1, CompareValue, Zenon
  <2>2. op = "=" \/ op = "!=" \/ op = "<" \/ op = ">" \/ op = "<=" \/ op = ">="
    BY DEF Comparisons, Ordered
  <2> QED BY <2>1, <2>2, Zenon
<1> QED BY <1>1, <1>2

\* What DuckDB makes of a comparison of the column with a constant.
LEMMA DuckComparison ==
    ASSUME AreExpressions, NEW e \in Trees, e.op \in Comparisons, {1, 2} \subseteq DOMAIN e.args,
           e.args[1].op = "ref", e.args[1].info = 1, e.args[2].op = "constant", NEW env
    PROVE  Eval(e, env, "duckdb") = Compare3(e.op, env[1], e.args[2].info)
<1>1. e.args[1] \in Trees /\ e.args[2] \in Trees
  BY Positions
<1>2. Eval(e.args[1], env, "duckdb") = env[1]
  BY <1>1, EvalLeaf
<1>3. Eval(e.args[2], env, "duckdb") = e.args[2].info
  BY <1>1, EvalConstant
<1>4. ~(e.op \in Ordered /\ e.args[1].op = "uuid") /\ e.args[1].op # "enum"
  OBVIOUS
<1>5. Eval(e, env, "duckdb")
        = Compare3(e.op, Eval(e.args[1], env, "duckdb"), Eval(e.args[2], env, "duckdb"))
  BY <1>4, EvalComparison
<1> QED BY <1>2, <1>3, <1>5, Zenon

\* What ClickHouse makes of the translations.
LEMMA IsNullOfColumn ==
    ASSUME AreExpressions, NEW column, NEW row, NEW env, NEW x, ColumnReads(column, row, env, x),
           NEW op \in {"is_null", "is_not_null"}, NEW sql, sql = Node(op, 0, <<column>>)
    PROVE  /\ sql \in Trees /\ sql.op = op
           /\ op = "is_null" => Eval(sql, row, "clickhouse") = IF x = Null THEN TRUE ELSE FALSE
           /\ op = "is_not_null" => Eval(sql, row, "clickhouse") = IF x # Null THEN TRUE ELSE FALSE
<1>1. column \in Trees /\ op \in Ops /\ 0 \in Infos
  BY NodeOps DEF ColumnReads
<1>2. sql \in Trees
  BY <1>1, TreeOverOne
<1>3. sql.op = op /\ sql.args = <<column>>
  BY <1>2 DEF Node
<1>4. 1 \in DOMAIN sql.args /\ sql.args[1] = column
  BY <1>3, OneArgument, Zenon
<1>5. Eval(column, row, "clickhouse") = x
  BY EvalLeaf DEF ColumnReads
<1>6. /\ sql.op = "is_null" => Eval(sql, row, "clickhouse") = (Eval(sql.args[1], row, "clickhouse") = Null)
      /\ sql.op = "is_not_null" => Eval(sql, row, "clickhouse") = (Eval(sql.args[1], row, "clickhouse") # Null)
  BY <1>2, <1>4, EvalIsNull, Zenon
<1>7. /\ op = "is_null" => Eval(sql, row, "clickhouse") = (x = Null)
      /\ op = "is_not_null" => Eval(sql, row, "clickhouse") = (x # Null)
  BY ONLY <1>3, <1>4, <1>5, <1>6, Zenon
<1>8. /\ op = "is_null" => Eval(sql, row, "clickhouse") = IF x = Null THEN TRUE ELSE FALSE
      /\ op = "is_not_null" => Eval(sql, row, "clickhouse") = IF x # Null THEN TRUE ELSE FALSE
  BY ONLY <1>7, Zenon
<1> QED BY <1>2, <1>3, <1>8

LEMMA TruthTree ==
    ASSUME AreExpressions, NEW b \in BOOLEAN, NEW row
    PROVE  /\ Truth(b) \in Trees /\ Truth(b).op = "truth"
           /\ Eval(Truth(b), row, "clickhouse") = b
<1>1. "truth" \in Ops /\ b \in Infos
  BY DEF Ops, Infos
<1>2. Truth(b) \in Trees
  BY <1>1, LeafTree, Zenon DEF Truth
<1>3. Truth(b).op = "truth" /\ Truth(b).info = b
  BY DEF Truth, Node
<1> QED BY <1>2, <1>3, EvalConstant, Zenon

LEMMA ConstantTree ==
    ASSUME AreExpressions, NEW d \in Int \cup {Null}
    PROVE  /\ Constant(d) \in Trees /\ Constant(d).op = "constant" /\ Constant(d).info = d
           /\ \A env, system : Eval(Constant(d), env, system) = d
<1>1. "constant" \in Ops /\ d \in Infos
  BY DEF Ops, Infos
<1>2. Constant(d) \in Trees
  BY <1>1, LeafTree, Zenon DEF Constant
<1>3. Constant(d).op = "constant" /\ Constant(d).info = d
  BY DEF Constant, Node
<1>4. ASSUME NEW env, NEW system PROVE Eval(Constant(d), env, system) = d
  BY <1>2, <1>3, EvalConstant
<1> QED BY <1>2, <1>3, <1>4

\* A folded comparison keeps the rows the comparison keeps.
LEMMA FoldExact ==
    ASSUME AreExpressions, NEW column, NEW row, NEW env, NEW x, ColumnReads(column, row, env, x),
           NEW e, NEW comparison \in Comparisons, NEW d \in Int, d \notin Representable,
           Eval(e, env, "duckdb") = Compare3(comparison, x, d)
    PROVE  /\ Exact(TryFoldUnrepresentableComparison(column, comparison, d), e, row, env)
           /\ TryFoldUnrepresentableComparison(column, comparison, d).op # "nothing"
<1> DEFINE below == \A r \in Representable : d < r
           sql == TryFoldUnrepresentableComparison(column, comparison, d)
<1>1. sql = IF FoldsToTrue(comparison, below) THEN Node("is_not_null", 0, <<column>>) ELSE Truth(FALSE)
  BY Zenon DEF TryFoldUnrepresentableComparison, FoldOutOfBoundsComparison, FoldsToTrue
<1>2. x \in Int \cup {Null} /\ (x \in Representable \/ x = Null)
  BY RepresentableAssumption DEF ColumnReads
<1>3. Eval(e, env, "duckdb") \in Three
  BY <1>2, CompareThree, Zenon
<1>4. Null # TRUE
  BY NullAssumption
<1>5. Eval(e, env, "duckdb") = TRUE <=> x # Null /\ FoldsToTrue(comparison, below)
  <2>1. CASE x = Null
    BY <1>4, <2>1, CompareNull, Zenon
  <2>2. CASE x # Null
    <3>1. Compare3(comparison, x, d) = IF FoldsToTrue(comparison, below) THEN TRUE ELSE FALSE
      BY <1>2, <2>2, FoldedComparison, Zenon
    <3> QED BY <2>2, <3>1, Zenon
  <2> QED BY <2>1, <2>2
<1> HIDE DEF below, sql
<1>6. CASE FoldsToTrue(comparison, below)
  <2>1. /\ sql \in Trees /\ sql.op = "is_not_null"
        /\ Eval(sql, row, "clickhouse") = IF x # Null THEN TRUE ELSE FALSE
    <3>1. sql = Node("is_not_null", 0, <<column>>)
      BY <1>1, <1>6, Zenon
    <3> QED BY <3>1, IsNullOfColumn
  <2>2. Eval(sql, row, "clickhouse") \in Three
    BY <2>1, Zenon DEF Three
  <2>3. Eval(sql, row, "clickhouse") = TRUE <=> Eval(e, env, "duckdb") = TRUE
    BY <1>5, <1>6, <2>1, Zenon
  <2>4. sql.op \notin {"throw", "nothing"}
    BY <2>1
  <2> QED BY <1>3, <2>1, <2>2, <2>3, <2>4, Zenon DEF Exact, sql
<1>7. CASE ~FoldsToTrue(comparison, below)
  <2>1. sql \in Trees /\ sql.op = "truth" /\ Eval(sql, row, "clickhouse") = FALSE
    BY <1>1, <1>7, TruthTree, Zenon
  <2>2. Eval(sql, row, "clickhouse") \in Three
    BY <2>1, Zenon DEF Three
  <2>3. Eval(sql, row, "clickhouse") = TRUE <=> Eval(e, env, "duckdb") = TRUE
    BY <1>5, <1>7, <2>1, Zenon
  <2>4. sql.op \notin {"throw", "nothing"}
    BY <2>1
  <2> QED BY <1>3, <2>1, <2>2, <2>3, <2>4, Zenon DEF Exact, sql
<1> QED BY <1>6, <1>7

LEMMA ClickComparison ==
    ASSUME AreExpressions, NEW left \in Trees, NEW comparison \in Comparisons, NEW d \in Int, NEW row,
           ~(comparison \in Ordered /\ left.op = "uuid"),
           ~(comparison = "!=" /\ left.op = "enum" /\ d \notin Labels)
    PROVE  \E sql \in Trees :
           /\ sql = Node(comparison, 0, <<left, Constant(d)>>) /\ sql.op = comparison
           /\ Eval(sql, row, "clickhouse") = Compare3(comparison, Eval(left, row, "clickhouse"), d)
<1>1. comparison \in Ops /\ 0 \in Infos
  BY NodeOps
<1>2. Constant(d) \in Trees /\ Eval(Constant(d), row, "clickhouse") = d
  BY ConstantTree
<1>3. PICK sql \in Trees : sql = Node(comparison, 0, <<left, Constant(d)>>)
  BY <1>1, <1>2, TreeOverTwo
<1>4. sql.op = comparison /\ sql.args = <<left, Constant(d)>>
  BY <1>3 DEF Node
<1>5. DOMAIN sql.args = {1, 2} /\ sql.args[1] = left /\ sql.args[2] = Constant(d)
  BY <1>4
<1>6. /\ ~(sql.op \in Ordered /\ sql.args[1].op = "uuid")
      /\ ~(sql.op = "!=" /\ sql.args[1].op = "enum" /\ Eval(sql.args[2], row, "clickhouse") \notin Labels)
      /\ sql.op \in Comparisons /\ {1, 2} \subseteq DOMAIN sql.args
  <2>1. ~(sql.op \in Ordered /\ sql.args[1].op = "uuid") /\ sql.op \in Comparisons
    BY <1>4, <1>5
  <2>2. ~(sql.op = "!=" /\ sql.args[1].op = "enum" /\ Eval(sql.args[2], row, "clickhouse") \notin Labels)
    BY <1>2, <1>4, <1>5
  <2> QED BY <1>5, <2>1, <2>2
<1>7. Eval(sql, row, "clickhouse")
        = Compare3(sql.op, Eval(sql.args[1], row, "clickhouse"), Eval(sql.args[2], row, "clickhouse"))
  BY <1>6, EvalComparison, Zenon
<1> QED BY <1>2, <1>3, <1>4, <1>5, <1>7, Zenon

\* A column that is read as text keeps its value, not ClickHouse's order.
LEMMA TextOfColumn ==
    ASSUME AreExpressions, NEW column \in Trees, NEW row, NEW system
    PROVE  \E sql \in Trees :
           sql = Node("text", 0, <<column>>) /\ sql.op = "text" /\ Eval(sql, row, system) = Eval(column, row, system)
<1>1. "text" \in Ops /\ 0 \in Infos
  BY NodeOps
<1>2. PICK sql \in Trees : sql = Node("text", 0, <<column>>)
  BY <1>1, TreeOverOne
<1>3. sql.op = "text" /\ sql.args = <<column>>
  BY <1>2 DEF Node
<1>4. 1 \in DOMAIN sql.args /\ sql.args[1] = column
  BY <1>3, OneArgument, Zenon
<1>5. Eval(sql, row, system) = Eval(sql.args[1], row, system)
  BY <1>3, <1>4, EvalText, Zenon
<1> QED BY <1>2, <1>3, <1>4, <1>5, Zenon

\* A comparison with a constant is exact, in the column's range or out of it.
LEMMA ComparisonExact ==
    ASSUME AreExpressions, NEW column, NEW row, NEW env, NEW x, ColumnReads(column, row, env, x),
           NEW e, NEW comparison \in Comparisons, NEW d \in Int,
           comparison = "!=" /\ column.op = "enum" => d \in Labels,
           Eval(e, env, "duckdb") = Compare3(comparison, x, d)
    PROVE  Exact(TransformComparison(column, comparison, d), e, row, env)
<1> DEFINE folded == TryFoldUnrepresentableComparison(column, comparison, d)
           sql == TransformComparison(column, comparison, d)
<1>1. CASE d \notin Representable
  <2>1. Exact(folded, e, row, env) /\ folded.op # "nothing"
    BY <1>1, FoldExact, Zenon
  <2>2. sql = folded
    BY <2>1, Zenon DEF TransformComparison
  <2> QED BY <2>1, <2>2, Zenon
<1>2. CASE d \in Representable
  <2>1. folded.op = "nothing"
    BY <1>2 DEF TryFoldUnrepresentableComparison, Nothing, Node
  <2>2. TransformConstant(d) = Constant(d)
    BY <1>2, Zenon DEF TransformConstant
  <2>3. sql = IF column.op = "uuid" /\ comparison \in Ordered
                THEN Node(comparison, 0, <<Node("text", 0, <<column>>), Constant(d)>>)
                ELSE Node(comparison, 0, <<column, Constant(d)>>)
    BY <2>1, <2>2, Zenon DEF TransformComparison
  <2>4. column \in Trees /\ Eval(column, row, "clickhouse") = x
    BY EvalLeaf DEF ColumnReads
  <2> HIDE DEF sql, folded
  <2>5. sql \in Trees /\ sql.op = comparison /\ Eval(sql, row, "clickhouse") = Compare3(comparison, x, d)
    <3>1. CASE column.op = "uuid" /\ comparison \in Ordered
      <4>1. PICK left \in Trees : /\ left = Node("text", 0, <<column>>) /\ left.op = "text"
                                  /\ Eval(left, row, "clickhouse") = x
        BY <2>4, TextOfColumn
      <4>2. left.op # "uuid" /\ left.op # "enum"
        BY <4>1
      <4>3. PICK s \in Trees : /\ s = Node(comparison, 0, <<left, Constant(d)>>) /\ s.op = comparison
                               /\ Eval(s, row, "clickhouse") = Compare3(comparison, Eval(left, row, "clickhouse"), d)
        BY <4>2, ClickComparison
      <4> QED BY <2>3, <3>1, <4>1, <4>3, Zenon
    <3>2. CASE ~(column.op = "uuid" /\ comparison \in Ordered)
      <4>1. PICK s \in Trees : /\ s = Node(comparison, 0, <<column, Constant(d)>>) /\ s.op = comparison
                               /\ Eval(s, row, "clickhouse") = Compare3(comparison, Eval(column, row, "clickhouse"), d)
        BY <2>4, <3>2, ClickComparison
      <4> QED BY <2>3, <2>4, <3>2, <4>1, Zenon
    <3> QED BY <3>1, <3>2
  <2>6. comparison \notin {"throw", "nothing"}
    BY DEF Comparisons, Ordered
  <2>7. x \in Int \cup {Null}
    BY RepresentableAssumption DEF ColumnReads
  <2>8. Compare3(comparison, x, d) \in Three
    BY <2>7, CompareThree
  <2> QED BY <2>5, <2>6, <2>8, Zenon DEF Exact, sql
<1> QED BY <1>1, <1>2

\* IS [NOT] NULL is translated exactly.
LEMMA IsNullExact ==
    ASSUME AreExpressions, NEW column, NEW row, NEW env, NEW x, ColumnReads(column, row, env, x),
           NEW e \in Trees, e.op \in {"is_null", "is_not_null"}, 1 \in DOMAIN e.args,
           e.args[1].op = "ref", e.args[1].info = 1
    PROVE  Exact(Node(e.op, 0, <<column>>), e, row, env)
<1>1. e.args[1] \in Trees
  BY Positions
<1>2. Eval(e.args[1], env, "duckdb") = x
  BY <1>1, EvalLeaf DEF ColumnReads
<1>3. /\ e.op = "is_null" => Eval(e, env, "duckdb") = (x = Null)
      /\ e.op = "is_not_null" => Eval(e, env, "duckdb") = (x # Null)
  <2>1. /\ e.op = "is_null" => Eval(e, env, "duckdb") = (Eval(e.args[1], env, "duckdb") = Null)
        /\ e.op = "is_not_null" => Eval(e, env, "duckdb") = (Eval(e.args[1], env, "duckdb") # Null)
    BY EvalIsNull, Zenon
  <2> QED BY <1>2, <2>1, Zenon
<1>7. PICK op \in {"is_null", "is_not_null"} : op = e.op
  OBVIOUS
<1>7a. PICK sql : sql = Node(op, 0, <<column>>)
  OBVIOUS
<1>4. /\ sql \in Trees /\ sql.op = op
      /\ op = "is_null" => Eval(sql, row, "clickhouse") = IF x = Null THEN TRUE ELSE FALSE
      /\ op = "is_not_null" => Eval(sql, row, "clickhouse") = IF x # Null THEN TRUE ELSE FALSE
  <2>1. sql \in Trees /\ sql.op = op
    BY ONLY AreExpressions, ColumnReads(column, row, env, x), op \in {"is_null", "is_not_null"}, <1>7a,
            IsNullOfColumn
  <2>2. op = "is_null" => Eval(sql, row, "clickhouse") = IF x = Null THEN TRUE ELSE FALSE
    BY ONLY AreExpressions, ColumnReads(column, row, env, x), op \in {"is_null", "is_not_null"}, <1>7a,
            IsNullOfColumn
  <2>3. op = "is_not_null" => Eval(sql, row, "clickhouse") = IF x # Null THEN TRUE ELSE FALSE
    BY ONLY AreExpressions, ColumnReads(column, row, env, x), op \in {"is_null", "is_not_null"}, <1>7a,
            IsNullOfColumn
  <2> QED BY <2>1, <2>2, <2>3, Zenon
<1>5. e.op \notin {"throw", "nothing"}
  OBVIOUS
<1>6. Eval(sql, row, "clickhouse") \in Three /\ Eval(sql, row, "clickhouse") = Eval(e, env, "duckdb")
  <2>1. e.op = "is_null" \/ e.op = "is_not_null"
    OBVIOUS
  <2> QED BY <1>3, <1>4, <1>7, <1>7a, <2>1, Zenon DEF Three
<1> QED BY <1>4, <1>5, <1>6, <1>7, <1>7a, Zenon DEF Exact

\* A constant is refused if and only if the column cannot hold it.
LEMMA TransformConstantOp ==
    ASSUME NEW d
    PROVE  TransformConstant(d).op # "throw" <=> d \in Representable
BY DEF TransformConstant, Constant, Throw, Node

\* An IN list over the column, in either system.
LEMMA EvalConstantList ==
    ASSUME AreExpressions, NEW e \in Trees, 1 \in DOMAIN e.args, IsConstantList(e), NEW env, NEW system,
           system # "null_in"
    PROVE  /\ e.op = "in" => Eval(e, env, system) = In3(Eval(e.args[1], env, system), ListConstants(e))
           /\ e.op = "not_in" =>
                Eval(e, env, system) = Not3(In3(Eval(e.args[1], env, system), ListConstants(e)))
<1>1. \A i \in DOMAIN e.args \ {1} : Eval(e.args[i], env, system) = e.args[i].info
  BY Positions, EvalConstant DEF IsConstantList
<1>2. ListValues(e, env, system) = ListConstants(e)
  BY <1>1, Zenon DEF ListValues, ListConstants
<1>3. /\ e.op = "in" => Eval(e, env, system) = In3(Eval(e.args[1], env, system), ListValues(e, env, system))
      /\ e.op = "not_in" =>
           Eval(e, env, system) = Not3(In3(Eval(e.args[1], env, system), ListValues(e, env, system)))
  BY EvalInList, Zenon
<1> QED BY <1>2, <1>3, Zenon

\* What is left of an IN list without the constants the column cannot hold
\* decides as all of it.
LEMMA InExact ==
    ASSUME AreExpressions, NEW column, NEW row, NEW env, NEW x, ColumnReads(column, row, env, x),
           NEW e \in Trees, e.op \in {"in", "not_in"}, 1 \in DOMAIN e.args,
           e.args[1].op = "ref", e.args[1].info = 1,
           \A i \in DOMAIN e.args \ {1} : e.args[i].op = "constant" => e.args[i].info \in Int,
           e.op = "not_in" => \E i \in DOMAIN e.args \ {1} : e.args[i].info \in Representable
    PROVE  Exact(TransformIn(column, e), e, row, env)
<1> DEFINE values == {i \in DOMAIN e.args : i > 1 /\ TransformConstant(e.args[i].info).op # "throw"}
           args == [i \in {1} \cup values |-> IF i = 1 THEN column ELSE e.args[i]]
<1>11. PICK list : list = ListConstants(e)
  OBVIOUS
<1>1. PICK n \in Nat : DOMAIN e.args \subseteq 1..n
  BY DEF AreExpressions, AreAllExpressions
<1>2. values = {i \in DOMAIN e.args \ {1} : e.args[i].info \in Representable}
  <2>1. \A i \in DOMAIN e.args : i > 1 <=> i # 1
    BY Positions, Zenon
  <2> QED BY <2>1, TransformConstantOp, Zenon
<1>3. (\E i \in DOMAIN e.args : i > 1 /\ e.args[i].op # "constant")
        <=> (\E i \in DOMAIN e.args \ {1} : e.args[i].op # "constant")
  <2>1. \A i \in DOMAIN e.args : i > 1 <=> i # 1
    BY Positions, Zenon
  <2> QED BY <2>1, Zenon
<1>4. TransformIn(column, e)
        = IF \E i \in DOMAIN e.args \ {1} : e.args[i].op # "constant" THEN Throw
          ELSE IF values = {} THEN Truth(e.op = "not_in")
          ELSE Node(e.op, 0, args)
  BY <1>3, Zenon DEF TransformIn
<1>5. \A i \in DOMAIN e.args : e.args[i] \in Trees
  BY Positions
<1>6. Eval(e.args[1], env, "duckdb") = x /\ Eval(e.args[1], env, "clickhouse") = x
  BY <1>5, EvalLeaf DEF ColumnReads
<1>7. x \in Representable \/ x = Null
  BY DEF ColumnReads
<1>8. Null \notin Representable
  BY NullAssumption, RepresentableAssumption
<1> HIDE DEF values
<1>9. CASE \E i \in DOMAIN e.args \ {1} : e.args[i].op # "constant"
  <2>1. TransformIn(column, e) = Throw
    BY <1>4, <1>9, Zenon
  <2>2. Throw.op = "throw"
    BY DEF Throw, Node
  <2> QED BY <2>1, <2>2, Zenon DEF Exact
<1>10. CASE ~\E i \in DOMAIN e.args \ {1} : e.args[i].op # "constant"
  <2>1. IsConstantList(e)
    BY <1>10 DEF IsConstantList
  <2>2. /\ Null \notin list
        /\ e.op = "in" => Eval(e, env, "duckdb") = In3(x, list)
        /\ e.op = "not_in" => Eval(e, env, "duckdb") = Not3(In3(x, list))
    <3>1. Null \notin list
      BY <1>11, <2>1, NullAssumption DEF ListConstants, IsConstantList
    <3>2. "duckdb" # "null_in"
      OBVIOUS
    <3>3. /\ e.op = "in" => Eval(e, env, "duckdb") = In3(Eval(e.args[1], env, "duckdb"), ListConstants(e))
          /\ e.op = "not_in" =>
               Eval(e, env, "duckdb") = Not3(In3(Eval(e.args[1], env, "duckdb"), ListConstants(e)))
      BY <2>1, <3>2, EvalConstantList, Zenon
    <3> QED BY <1>6, <1>11, <3>1, <3>3, Zenon
  <2>3. In3(x, list) \in Three /\ Eval(e, env, "duckdb") \in Three
    <3>1. In3(x, list) \in Three
      BY <2>2, In3Value, Zenon
    <3>2. Not3(In3(x, list)) \in Three
      BY <3>1, Not3Value, Zenon
    <3>3. e.op = "in" \/ e.op = "not_in"
      OBVIOUS
    <3> QED BY <2>2, <3>1, <3>2, <3>3, Zenon
  <2>4. CASE values = {}
    <3>1. e.op = "in" /\ TransformIn(column, e) = Truth(FALSE)
      <4>1. e.op = "in"
        BY <1>2, <2>4
      <4>2. (e.op = "not_in") = FALSE
        BY <4>1
      <4> QED BY <1>4, <1>10, <2>4, <4>1, <4>2, Zenon
    <3>2. Eval(e, env, "duckdb") = In3(x, list)
      BY <2>2, <3>1, Zenon
    <3>3. x \notin list \/ x = Null
      BY <1>2, <1>7, <1>11, <2>4 DEF ListConstants
    <3>4. Eval(e, env, "duckdb") # TRUE
      BY <2>2, <3>2, <3>3, In3Value, Zenon
    <3>5. /\ Truth(FALSE) \in Trees /\ Truth(FALSE).op = "truth"
          /\ Eval(Truth(FALSE), row, "clickhouse") = FALSE
      BY TruthTree, Zenon
    <3>6. Truth(FALSE).op \notin {"throw", "nothing"}
      BY <3>5
    <3>7. Eval(Truth(FALSE), row, "clickhouse") \in Three
      BY <3>5, Zenon DEF Three
    <3>8. Eval(Truth(FALSE), row, "clickhouse") # TRUE
      BY <3>5, Zenon
    <3> QED BY <2>3, <3>1, <3>4, <3>5, <3>6, <3>7, <3>8, Zenon DEF Exact
  <2>5. CASE values # {}
    <3>1. PICK op \in {"in", "not_in"} : op = e.op
      OBVIOUS
    <3>1a. PICK sql : sql = Node(op, 0, args)
      OBVIOUS
    <3>2. /\ TransformIn(column, e) = sql
      BY <1>4, <1>10, <2>5, <3>1, <3>1a, Zenon
    <3>3. column \in Trees /\ Eval(column, row, "clickhouse") = x /\ Eval(column, row, "duckdb") = x
      BY EvalLeaf DEF ColumnReads
    <3>4. args \in [{1} \cup values -> Trees] /\ {1} \cup values \subseteq 1..n
      BY <1>1, <1>2, <1>5, <3>3
    <3>5. sql \in Trees
      <4>1. op \in Ops /\ 0 \in Infos
        BY NodeOps
      <4> HIDE DEF args
      <4>2. {1} \cup values \in SUBSET (1..n)
        BY <3>4
      <4> QED BY <3>1, <3>1a, <3>4, <4>1, <4>2, TreeOver
    <3>6. sql.op = op /\ sql.args = args
      <4> HIDE DEF args
      <4> QED BY <3>1, <3>1a DEF Node
    <3>7. /\ DOMAIN sql.args = {1} \cup values /\ sql.args[1] = column
          /\ \A i \in values : sql.args[i] = e.args[i]
          /\ DOMAIN sql.args \ {1} = values
      BY <1>2, <3>6
    <3>8. IsConstantList(sql)
      BY <1>2, <2>1, <3>7 DEF IsConstantList
    <3>9. Eval(sql.args[1], row, "duckdb") = x /\ Eval(sql.args[1], row, "clickhouse") = x
      BY <3>3, <3>7, Zenon
    <3>10. sql.op \in {"in", "not_in"} /\ 1 \in DOMAIN sql.args
      BY <3>6, <3>7
    <3>17. PICK left : left = ListConstants(sql)
      OBVIOUS
    <3>11. /\ Null \notin left
           /\ sql.op = "in" => Eval(sql, row, "clickhouse") = In3(x, left)
           /\ sql.op = "not_in" => Eval(sql, row, "clickhouse") = Not3(In3(x, left))
      <4>1. Null \notin left
        BY <3>8, <3>17, NullAssumption DEF ListConstants, IsConstantList
      <4>2. "clickhouse" # "null_in"
        OBVIOUS
      <4>3. /\ sql.op = "in" =>
                 Eval(sql, row, "clickhouse") = In3(Eval(sql.args[1], row, "clickhouse"), ListConstants(sql))
            /\ sql.op = "not_in" =>
                 Eval(sql, row, "clickhouse") = Not3(In3(Eval(sql.args[1], row, "clickhouse"), ListConstants(sql)))
        BY <3>5, <3>8, <3>10, <4>2, EvalConstantList, Zenon
      <4> QED BY <3>9, <3>17, <4>1, <4>3, Zenon
    <3>12. left = list \cap Representable /\ left # {}
      <4>1. left = {e.args[i].info : i \in values}
        BY <3>7, <3>17 DEF ListConstants
      <4> QED BY <1>2, <1>11, <2>5, <4>1 DEF ListConstants
    <3>13. list # {}
      BY <3>12
    <3>14. In3(x, left) = In3(x, list)
      <4>1. CASE x = Null
        BY <2>2, <3>11, <3>12, <3>13, <4>1, In3Value, Zenon
      <4>2. CASE x # Null
        <5>1. x \in left <=> x \in list
          BY <1>7, <3>12, <4>2
        <5>2. /\ In3(x, left) \in Three /\ In3(x, list) \in Three
              /\ In3(x, left) = TRUE <=> In3(x, list) = TRUE
              /\ In3(x, left) = FALSE <=> In3(x, list) = FALSE
          BY <2>2, <3>11, <4>2, <5>1, In3Value, Zenon
        <5> QED BY <5>2, Zenon DEF Three
      <4> QED BY <4>1, <4>2
    <3>15. Eval(sql, row, "clickhouse") = Eval(e, env, "duckdb")
      <4>1. op = "in" \/ op = "not_in"
        OBVIOUS
      <4> QED BY <2>2, <3>1, <3>1a, <3>6, <3>11, <3>14, <4>1, Zenon
    <3>16. sql.op \notin {"throw", "nothing"}
      BY <3>6
    <3> QED BY <2>3, <3>2, <3>5, <3>15, <3>16, Zenon DEF Exact
  <2> QED BY <2>4, <2>5
<1> QED BY <1>9, <1>10

\* What the parts of a filter became, where each is exact.
ExactParts(parts, e, row, env) ==
    /\ DOMAIN parts = DOMAIN e.args
    /\ \A i \in DOMAIN e.args : Exact(parts[i], e.args[i], row, env)

\* A translation that is exact, by its cases.
LEMMA ExactValue ==
    ASSUME NEW sql, NEW e, NEW row, NEW env, Exact(sql, e, row, env), sql.op # "throw"
    PROVE  /\ Eval(e, env, "duckdb") \in Three
           /\ sql.op = "nothing" => Eval(e, env, "duckdb") = TRUE
           /\ sql.op # "nothing" => /\ sql \in Trees /\ Eval(sql, row, "clickhouse") \in Three
                                    /\ Eval(sql, row, "clickhouse") = TRUE <=> Eval(e, env, "duckdb") = TRUE
<1>1. TRUE \in Three
  BY Zenon DEF Three
<1>2. CASE sql.op = "nothing"
  <2>1. Eval(e, env, "duckdb") = TRUE
    BY <1>2 DEF Exact
  <2> QED BY <1>1, <1>2, <2>1, Zenon
<1>3. CASE sql.op # "nothing"
  BY <1>3 DEF Exact
<1> QED BY <1>2, <1>3

\* The conjunction of the parts that restrict.
LEMMA KeptExact ==
    ASSUME AreExpressions, NEW e \in Trees, e.op \in {"and", "or"}, NEW row, NEW env, NEW parts,
           ExactParts(parts, e, row, env),
           \A i \in DOMAIN parts : parts[i].op # "throw" /\ (e.op = "or" => parts[i].op # "nothing"),
           NEW kept, kept = {i \in DOMAIN parts : parts[i].op # "nothing"}, kept # {}
    PROVE  Exact(Node(e.op, 0, [i \in kept |-> parts[i]]), e, row, env)
<1>1. PICK op \in {"and", "or"} : op = e.op
  OBVIOUS
<1>1a. PICK args, sql : args = [i \in kept |-> parts[i]] /\ sql = Node(op, 0, args)
  OBVIOUS
<1>2. PICK n \in Nat : DOMAIN e.args \subseteq 1..n
  BY DEF AreExpressions, AreAllExpressions
<1>3. DOMAIN parts = DOMAIN e.args /\ \A i \in DOMAIN parts : Exact(parts[i], e.args[i], row, env)
  BY DEF ExactParts
<1>4. \A i \in DOMAIN parts :
        /\ Eval(e.args[i], env, "duckdb") \in Three
        /\ i \notin kept => Eval(e.args[i], env, "duckdb") = TRUE
        /\ i \in kept => /\ parts[i] \in Trees /\ Eval(parts[i], row, "clickhouse") \in Three
                         /\ Eval(parts[i], row, "clickhouse") = TRUE <=> Eval(e.args[i], env, "duckdb") = TRUE
  <2> SUFFICES ASSUME NEW i \in DOMAIN parts
               PROVE  /\ Eval(e.args[i], env, "duckdb") \in Three
                      /\ i \notin kept => Eval(e.args[i], env, "duckdb") = TRUE
                      /\ i \in kept => /\ parts[i] \in Trees /\ Eval(parts[i], row, "clickhouse") \in Three
                                       /\ Eval(parts[i], row, "clickhouse") = TRUE
                                            <=> Eval(e.args[i], env, "duckdb") = TRUE
    BY Zenon
  <2>1. Exact(parts[i], e.args[i], row, env) /\ parts[i].op # "throw"
    BY <1>3
  <2>2. i \in kept <=> parts[i].op # "nothing"
    OBVIOUS
  <2> QED BY <2>1, <2>2, ExactValue, Zenon
<1>5. kept \subseteq DOMAIN e.args /\ kept \in SUBSET (1..n)
  BY <1>2, <1>3
<1>6. args \in [kept -> Trees]
  BY <1>1, <1>1a, <1>4, <1>5, <1>3
<1>7. sql \in Trees
  <2>1. op \in Ops /\ 0 \in Infos
    BY NodeOps
  <2> QED BY <1>1, <1>1a, <1>5, <1>6, <2>1, TreeOver, Zenon
<1>8. sql.op = op /\ sql.args = args
  BY ONLY <1>1, <1>1a DEF Node
<1>9. DOMAIN sql.args = kept /\ \A i \in kept : sql.args[i] = parts[i]
  BY <1>1, <1>1a, <1>8
<1> DEFINE clicks == ArgValues(sql, row, "clickhouse")
           ducks == ArgValues(e, env, "duckdb")
<1>10. clicks \subseteq Three /\ ducks \subseteq Three
  BY <1>3, <1>4, <1>5, <1>9, Zenon DEF ArgValues
<1>11. (\A v \in clicks : v = TRUE) <=> (\A v \in ducks : v = TRUE)
  BY <1>3, <1>4, <1>5, <1>9, Zenon DEF ArgValues
<1>12. e.op = "or" => (TRUE \in clicks <=> TRUE \in ducks)
  <2> SUFFICES ASSUME e.op = "or" PROVE TRUE \in clicks <=> TRUE \in ducks
    BY Zenon
  <2>1. kept = DOMAIN e.args
    BY <1>3
  <2> QED BY <1>3, <1>4, <1>9, <2>1, Zenon DEF ArgValues
<1>13. /\ op = "and" => Eval(sql, row, "clickhouse") = And3(clicks) /\ Eval(e, env, "duckdb") = And3(ducks)
       /\ op = "or" => Eval(sql, row, "clickhouse") = Or3(clicks) /\ Eval(e, env, "duckdb") = Or3(ducks)
  <2>1. /\ sql.op = "and" => Eval(sql, row, "clickhouse") = And3(clicks)
        /\ sql.op = "or" => Eval(sql, row, "clickhouse") = Or3(clicks)
    BY <1>7, EvalConjunction, Zenon
  <2>2. /\ e.op = "and" => Eval(e, env, "duckdb") = And3(ducks)
        /\ e.op = "or" => Eval(e, env, "duckdb") = Or3(ducks)
    BY EvalConjunction, Zenon
  <2> HIDE DEF clicks, ducks
  <2> QED BY ONLY <1>1, <1>1a, <1>8, <2>1, <2>2, Zenon
<1> HIDE DEF clicks, ducks
<1>14. /\ Eval(sql, row, "clickhouse") \in Three /\ Eval(e, env, "duckdb") \in Three
       /\ Eval(sql, row, "clickhouse") = TRUE <=> Eval(e, env, "duckdb") = TRUE
  <2>1. CASE op = "and"
    BY <1>10, <1>11, <1>13, <2>1, And3Value, Zenon
  <2>2. CASE op = "or"
    BY <1>1, <1>1a, <1>10, <1>12, <1>13, <2>2, Or3Value, Zenon
  <2> QED BY <2>1, <2>2
<1>15. sql.op \notin {"throw", "nothing"}
  BY <1>8
<1>16. sql = Node(e.op, 0, [i \in kept |-> parts[i]])
  BY <1>1, <1>1a, Zenon
<1> QED BY <1>7, <1>14, <1>15, <1>16, Zenon DEF Exact

\* TransformConjunction(): exact parts make an exact whole.
LEMMA ConjunctionExact ==
    ASSUME AreExpressions, NEW e \in Trees, e.op \in {"and", "or"}, DOMAIN e.args # {},
           NEW row, NEW env, NEW parts, ExactParts(parts, e, row, env)
    PROVE  Exact(TransformConjunction(e.op, parts), e, row, env)
<1> DEFINE stops == {i \in DOMAIN parts :
                        parts[i].op = "throw" \/ (e.op = "or" /\ parts[i].op = "nothing")}
           kept == {i \in DOMAIN parts : parts[i].op # "nothing"}
           first == CHOOSE i \in stops : \A j \in stops : i <= j
<1>3. TransformConjunction(e.op, parts)
        = IF stops # {} THEN parts[first]
          ELSE IF kept = {} THEN Nothing ELSE Node(e.op, 0, [i \in kept |-> parts[i]])
  BY Zenon DEF TransformConjunction
<1>1. stops = {i \in DOMAIN parts :
                 parts[i].op = "throw" \/ (e.op = "or" /\ parts[i].op = "nothing")}
  OBVIOUS
<1>2. kept = {i \in DOMAIN parts : parts[i].op # "nothing"}
  OBVIOUS
<1> HIDE DEF stops, kept
<1>4. DOMAIN parts = DOMAIN e.args /\ \A i \in DOMAIN parts : Exact(parts[i], e.args[i], row, env)
  BY DEF ExactParts
<1>5. CASE stops # {}
  <2>1. stops \subseteq Nat
    BY <1>1, <1>4, Positions
  <2>2. \E i \in stops : \A j \in stops : i <= j
    BY <1>5, <2>1, EvalOf!LeastNatural, Zenon
  <2>3. first \in stops
    BY <2>2, Zenon
  <2> HIDE DEF first
  <2>4. TransformConjunction(e.op, parts) = parts[first]
    BY <1>3, <1>5, Zenon
  <2>5. first \in DOMAIN e.args /\ (parts[first].op = "throw" \/ (e.op = "or" /\ parts[first].op = "nothing"))
    BY <1>1, <1>4, <2>3
  <2>6. CASE parts[first].op = "throw"
    BY <2>4, <2>6, Zenon DEF Exact
  <2>7. CASE e.op = "or" /\ parts[first].op = "nothing"
    <3>1. Exact(parts[first], e.args[first], row, env)
      BY <1>4, <2>5, Zenon
    <3>2. Eval(e.args[first], env, "duckdb") = TRUE
      BY <2>7, <3>1 DEF Exact
    <3>3. TRUE \in ArgValues(e, env, "duckdb")
      BY <2>5, <3>2, Zenon DEF ArgValues
    <3>4. Eval(e, env, "duckdb") = Or3(ArgValues(e, env, "duckdb"))
      BY <2>7, EvalConjunction, Zenon
    <3>5. Eval(e, env, "duckdb") = TRUE
      BY <3>3, <3>4, Or3Value, Zenon
    <3> QED BY <2>4, <2>7, <3>5, Zenon DEF Exact
  <2> QED BY <2>5, <2>6, <2>7
<1>6. CASE stops = {}
  <2>1. \A i \in DOMAIN parts : parts[i].op # "throw" /\ (e.op = "or" => parts[i].op # "nothing")
    BY <1>1, <1>6
  <2>2. CASE kept = {}
    <3>1. \A i \in DOMAIN parts : parts[i].op = "nothing"
      BY <1>2, <2>2
    <3>2. e.op = "and"
      BY <1>4, <2>1, <3>1
    <3>3. \A i \in DOMAIN e.args : Eval(e.args[i], env, "duckdb") = TRUE
      BY <1>4, <2>1, <3>1, ExactValue, Zenon
    <3>4. Eval(e, env, "duckdb") = And3(ArgValues(e, env, "duckdb"))
      BY <3>2, EvalConjunction, Zenon
    <3>5. \A v \in ArgValues(e, env, "duckdb") : v = TRUE
      BY <3>3, Zenon DEF ArgValues
    <3>6. ArgValues(e, env, "duckdb") \subseteq Three
      BY <3>5, Zenon DEF Three
    <3>7. Eval(e, env, "duckdb") = TRUE
      BY <3>4, <3>5, <3>6, And3Value, Zenon
    <3>8. TransformConjunction(e.op, parts) = Nothing
      BY <1>3, <1>6, <2>2, Zenon
    <3>9. Nothing.op = "nothing"
      BY DEF Nothing, Node
    <3> QED BY <3>7, <3>8, <3>9, Zenon DEF Exact
  <2>3. CASE kept # {}
    <3>1. TransformConjunction(e.op, parts) = Node(e.op, 0, [i \in kept |-> parts[i]])
      BY <1>3, <1>6, <2>3, Zenon
    <3>2. Exact(Node(e.op, 0, [i \in kept |-> parts[i]]), e, row, env)
      BY <1>2, <2>1, <2>3, KeptExact
    <3> QED BY <3>1, <3>2, Zenon
  <2> QED BY <2>2, <2>3
<1> QED BY <1>5, <1>6

\* A filter of the scan, as DuckDB builds them, over a column with this leaf.
\* FilterCombiner leaves no NOT IN to a scan; one without any constant in the
\* column's range would not be exact.
IsFilterNode(e, column) ==
    /\ e.op = "ref" => e.info = 1
    /\ e.op = "constant" => e.info \in Int
    /\ e.op \in Comparisons =>
         /\ {1, 2} \subseteq DOMAIN e.args
         /\ e.op = "!=" /\ column.op = "enum" /\ e.args[2].op = "constant" => e.args[2].info \in Labels
    /\ e.op \in {"is_null", "is_not_null", "not"} => 1 \in DOMAIN e.args
    /\ e.op \in {"in", "not_in"} => 1 \in DOMAIN e.args /\ e.args[1].op = "ref"
    /\ e.op = "not_in" => \E i \in DOMAIN e.args \ {1} : e.args[i].info \in Representable
    /\ e.op = "between" => {1, 2, 3} \subseteq DOMAIN e.args
    /\ e.op \in {"and", "or"} => DOMAIN e.args # {}
    /\ e.op \in {"ref", "constant"} => DOMAIN e.args = {}

AreFilters(S, column) ==
    /\ S \subseteq Trees
    /\ \A e \in S : IsFilterNode(e, column) /\ \A i \in DOMAIN e.args : e.args[i] \in S

\* What TransformExpressionFilter() has no condition for.
IsOtherFilter(e) ==
    \/ e.op \notin Hints \cup Comparisons \cup {"and", "or", "is_null", "is_not_null", "in", "not_in"}
    \/ e.op \in {"is_null", "is_not_null"} /\ e.args[1].op # "ref"
    \/ e.op \in Comparisons /\ ~(e.args[1].op = "ref" /\ e.args[2].op = "constant")

\* TransformExpression(), case by case.
LEMMA TransformCases ==
    ASSUME NEW column, NEW e, NEW parts
    PROVE  /\ e.op \in Hints => TransformExpression(column, e, parts) = Nothing
           /\ e.op \in {"and", "or"} => TransformExpression(column, e, parts) = TransformConjunction(e.op, parts)
           /\ e.op \in {"is_null", "is_not_null"} /\ e.args[1].op = "ref"
                => TransformExpression(column, e, parts) = Node(e.op, 0, <<column>>)
           /\ e.op \in {"in", "not_in"} => TransformExpression(column, e, parts) = TransformIn(column, e)
           /\ e.op \in Comparisons /\ e.args[1].op = "ref" /\ e.args[2].op = "constant"
                => TransformExpression(column, e, parts) = TransformComparison(column, e.op, e.args[2].info)
           /\ IsOtherFilter(e) => TransformExpression(column, e, parts) = Throw
<1>1. e.op \in Hints => TransformExpression(column, e, parts) = Nothing
  BY DEF TransformExpression, Hints, Comparisons, Ordered
<1>2. e.op \in {"and", "or"} => TransformExpression(column, e, parts) = TransformConjunction(e.op, parts)
  BY DEF TransformExpression, Hints, Comparisons, Ordered
<1>3. e.op \in {"is_null", "is_not_null"} /\ e.args[1].op = "ref"
        => TransformExpression(column, e, parts) = Node(e.op, 0, <<column>>)
  BY DEF TransformExpression, Hints, Comparisons, Ordered
<1>4. e.op \in {"in", "not_in"} => TransformExpression(column, e, parts) = TransformIn(column, e)
  BY DEF TransformExpression, Hints, Comparisons, Ordered
<1>5. e.op \in Comparisons /\ e.args[1].op = "ref" /\ e.args[2].op = "constant"
        => TransformExpression(column, e, parts) = TransformComparison(column, e.op, e.args[2].info)
  BY DEF TransformExpression, Hints, Comparisons, Ordered
<1>6. IsOtherFilter(e) => TransformExpression(column, e, parts) = Throw
  BY DEF TransformExpression, IsOtherFilter, Hints, Comparisons, Ordered
<1> QED BY <1>1, <1>2, <1>3, <1>4, <1>5, <1>6, Zenon

\* One level, where the arguments are exact.
LEMMA TransformLevel ==
    ASSUME AreExpressions, NEW column, NEW row, NEW env, NEW x, ColumnReads(column, row, env, x),
           NEW e \in Trees, IsFilterNode(e, column),
           \A i \in DOMAIN e.args : IsFilterNode(e.args[i], column),
           NEW parts, ExactParts(parts, e, row, env)
    PROVE  Exact(TransformExpression(column, e, parts), e, row, env)
<1> DEFINE sql == TransformExpression(column, e, parts)
<1>1. CASE e.op \in Hints
  <2>1. sql.op = "nothing"
    <3>1. sql = Nothing
      BY <1>1, TransformCases, Zenon
    <3>2. Nothing.op = "nothing"
      BY DEF Nothing, Node
    <3> QED BY <3>1, <3>2, Zenon
  <2>2. Eval(e, env, "duckdb") = TRUE
    BY <1>1, EvalHint, Zenon
  <2> HIDE DEF sql
  <2>3. Exact(sql, e, row, env)
    BY <2>1, <2>2, Zenon DEF Exact
  <2> QED BY <2>3 DEF sql
<1>2. CASE e.op \in {"and", "or"}
  <2>1. DOMAIN e.args # {}
    BY <1>2 DEF IsFilterNode
  <2>2. Exact(TransformConjunction(e.op, parts), e, row, env)
    BY <1>2, <2>1, ConjunctionExact
  <2>3. sql = TransformConjunction(e.op, parts)
    BY <1>2, TransformCases, Zenon
  <2> QED BY <2>2, <2>3, Zenon
<1>3. CASE e.op \in {"is_null", "is_not_null"} /\ e.args[1].op = "ref"
  <2>1. 1 \in DOMAIN e.args
    BY <1>3 DEF IsFilterNode
  <2>2. e.args[1].info = 1
    BY <1>3, <2>1 DEF IsFilterNode
  <2>3. Exact(Node(e.op, 0, <<column>>), e, row, env)
    BY <1>3, <2>1, <2>2, IsNullExact, Zenon
  <2>4. sql = Node(e.op, 0, <<column>>)
    BY <1>3, TransformCases, Zenon
  <2> QED BY <2>3, <2>4, Zenon
<1>4. CASE e.op \in {"in", "not_in"}
  <2>1. 1 \in DOMAIN e.args /\ e.args[1].op = "ref"
    BY <1>4 DEF IsFilterNode
  <2>2. e.args[1].info = 1
    BY <2>1 DEF IsFilterNode
  <2>3. \A i \in DOMAIN e.args \ {1} : e.args[i].op = "constant" => e.args[i].info \in Int
    BY DEF IsFilterNode
  <2>4. e.op = "not_in" => \E i \in DOMAIN e.args \ {1} : e.args[i].info \in Representable
    BY DEF IsFilterNode
  <2>5. Exact(TransformIn(column, e), e, row, env)
    BY <1>4, <2>1, <2>2, <2>3, <2>4, InExact
  <2>6. sql = TransformIn(column, e)
    BY <1>4, TransformCases, Zenon
  <2> QED BY <2>5, <2>6, Zenon
<1>5. CASE e.op \in Comparisons /\ e.args[1].op = "ref" /\ e.args[2].op = "constant"
  <2>1. {1, 2} \subseteq DOMAIN e.args
    BY <1>5 DEF IsFilterNode
  <2>2. e.args[1].info = 1 /\ e.args[2].info \in Int
    BY <1>5, <2>1 DEF IsFilterNode
  <2>3. e.op = "!=" /\ column.op = "enum" => e.args[2].info \in Labels
    BY <1>5 DEF IsFilterNode
  <2>4. Eval(e, env, "duckdb") = Compare3(e.op, env[1], e.args[2].info)
    BY <1>5, <2>1, <2>2, DuckComparison
  <2>5. env[1] = x
    BY DEF ColumnReads
  <2>6. Eval(e, env, "duckdb") = Compare3(e.op, x, e.args[2].info)
    BY <2>4, <2>5, Zenon
  <2>7. Exact(TransformComparison(column, e.op, e.args[2].info), e, row, env)
    BY <1>5, <2>2, <2>3, <2>6, ComparisonExact
  <2>8. sql = TransformComparison(column, e.op, e.args[2].info)
    BY <1>5, TransformCases, Zenon
  <2> QED BY <2>7, <2>8, Zenon
<1>6. CASE IsOtherFilter(e)
  <2>1. sql = Throw
    BY <1>6, TransformCases, Zenon
  <2>2. Throw.op = "throw"
    BY DEF Throw, Node
  <2> QED BY <2>1, <2>2, Zenon DEF Exact
<1> QED BY <1>1, <1>2, <1>3, <1>4, <1>5, <1>6 DEF IsOtherFilter

\* The condition TransformExpressionFilter() makes of a filter, however deep it
\* is, keeps in ClickHouse the rows that DuckDB's filter keeps, or it throws;
\* if it makes none, DuckDB's filter keeps every row.
THEOREM TransformExact ==
    ASSUME AreExpressions, NEW column, NEW row, NEW env, NEW x, ColumnReads(column, row, env, x),
           NEW S, AreFilters(S, column)
    PROVE  \A e \in S : Exact(TransformExpressionFilter(column, e), e, row, env)
<1> DEFINE Bad == {e \in S : ~Exact(TransformExpressionFilter(column, e), e, row, env)}
<1> SUFFICES ASSUME Bad # {} PROVE FALSE
  BY Zenon
<1>1. PICK depth : /\ depth \in [Trees -> Nat]
                   /\ \A e \in Trees : \A i \in DOMAIN e.args : e.args[i] \in Trees /\ depth[e.args[i]] < depth[e]
  BY DEF AreExpressions, AreAllExpressions
<1>2. Bad \subseteq Trees /\ Bad \subseteq S
  BY DEF AreFilters
<1>3. PICK e \in Bad : \A y \in Bad : depth[e] <= depth[y]
  <2> HIDE DEF Bad
  <2> QED BY <1>1, <1>2, EvalOf!ShallowestTree, Zenon
<1>4. e \in S /\ e \in Trees
  BY <1>2, <1>3
<1>5. ASSUME NEW i \in DOMAIN e.args
      PROVE  /\ e.args[i] \in S /\ IsFilterNode(e.args[i], column)
             /\ Exact(TransformExpressionFilter(column, e.args[i]), e.args[i], row, env)
  <2>1. e.args[i] \in S
    BY <1>4 DEF AreFilters
  <2>2. IsFilterNode(e.args[i], column)
    BY <2>1 DEF AreFilters
  <2>3. depth[e.args[i]] < depth[e] /\ depth[e] \in Nat /\ depth[e.args[i]] \in Nat
    BY <1>1, <1>4
  <2>4. ~(depth[e] <= depth[e.args[i]])
    BY <2>3
  <2>5. e.args[i] \notin Bad
    BY <1>3, <2>4, Zenon
  <2> QED BY <2>1, <2>2, <2>5, Zenon
<1>6. PICK parts : parts = [i \in DOMAIN e.args |-> TransformExpressionFilter(column, e.args[i])]
  OBVIOUS
<1>7. ExactParts(parts, e, row, env)
  BY <1>5, <1>6, Zenon DEF ExactParts
<1>8. IsFilterNode(e, column)
  BY <1>4 DEF AreFilters
<1>9. Exact(TransformExpression(column, e, parts), e, row, env)
  BY <1>4, <1>5, <1>7, <1>8, TransformLevel, Zenon
<1>10. TransformExpressionFilter(column, e) = TransformExpression(column, e, parts)
  BY <1>4, <1>6, TransformUnfold, Zenon
<1> QED BY <1>3, <1>9, <1>10, Zenon

-----------------------------------------------------------------------------
(* Translate(): an expression over the outputs of an operator.             *)

\* DuckDB's expressions over inputs with these indexes.
IsExpressionNode(e, indexes) ==
    /\ e.op = "ref" => e.info \in indexes
    /\ e.op \in Comparisons => {1, 2} \subseteq DOMAIN e.args
    /\ e.op = "between" => {1, 2, 3} \subseteq DOMAIN e.args
    /\ e.op \in {"in", "not_in", "not"} => 1 \in DOMAIN e.args
    /\ e.op \in {"ref", "constant"} => DOMAIN e.args = {}

AreBound(S, indexes) ==
    /\ S \subseteq Trees
    /\ \A e \in S : IsExpressionNode(e, indexes) /\ \A i \in DOMAIN e.args : e.args[i] \in S

\* In the row ClickHouse computes, in either system, what DuckDB does over env.
Equal(sql, e, row, env, system) ==
    \/ sql.op = "throw"
    \/ /\ sql \in Trees /\ sql.op \notin {"throw", "nothing", "uuid", "enum"}
       /\ e.op \notin {"uuid", "enum"}
       /\ Eval(sql, row, system) = Eval(e, env, "duckdb")

EqualInputs(inputs, indexes, row, env, system) ==
    \A i \in indexes :
        \/ inputs[i].op = "throw"
        \/ /\ inputs[i] \in Trees /\ inputs[i].op \notin {"throw", "nothing", "uuid", "enum"}
           /\ Eval(inputs[i], row, system) = env[i]

Congruent == {"not", "is_null", "is_not_null", "coalesce", "if", "and", "or"}

FirstPresent(at, v) ==
    LET present == {i \in at : v[i] # Null}
    IN IF present = {} THEN Null ELSE v[CHOOSE i \in present : \A j \in present : i <= j]

\* What these operators compute depends on the arguments' values alone.
LEMMA ApplyCongruent ==
    ASSUME NEW e, NEW f, e.op \in Congruent, f.op = e.op, DOMAIN f.args = DOMAIN e.args,
           NEW v, NEW env, NEW row, NEW system, NEW other
    PROVE  Apply(f, v, row, system) = Apply(e, v, env, other)
<1>1. CASE e.op = "not"
  BY <1>1 DEF Apply, Comparisons, Ordered, Hints
<1>2. CASE e.op = "is_null"
  BY <1>2 DEF Apply, Comparisons, Ordered, Hints
<1>3. CASE e.op = "is_not_null"
  BY <1>3 DEF Apply, Comparisons, Ordered, Hints
<1>4. CASE e.op = "coalesce"
  <2>1. Apply(e, v, env, other) = FirstPresent(DOMAIN e.args, v)
    BY <1>4 DEF Apply, Comparisons, Ordered, Hints, FirstPresent
  <2>2. Apply(f, v, row, system) = FirstPresent(DOMAIN f.args, v)
    BY <1>4 DEF Apply, Comparisons, Ordered, Hints, FirstPresent
  <2> QED BY <2>1, <2>2, Zenon
<1>5. CASE e.op = "if"
  BY <1>5, ApplyIf, Zenon
<1>6. CASE e.op = "and"
  BY <1>6, ApplyAnd, Zenon
<1>7. CASE e.op = "or"
  BY <1>7, ApplyOr, Zenon
<1> QED BY <1>1, <1>2, <1>3, <1>4, <1>5, <1>6, <1>7 DEF Congruent

\* The arguments' translations: all of them equal, none thrown.
EqualArgs(args, e, row, env, system) ==
    /\ DOMAIN args = DOMAIN e.args
    /\ \A i \in DOMAIN e.args :
          /\ args[i] \in Trees /\ args[i].op \notin {"throw", "nothing", "uuid", "enum"}
          /\ e.args[i].op \notin {"uuid", "enum"}
          /\ Eval(args[i], row, system) = Eval(e.args[i], env, "duckdb")

\* A node over the arguments' translations is an expression.
LEMMA TreeOverArgs ==
    ASSUME AreExpressions, NEW e \in Trees, NEW row, NEW env, NEW system, NEW args,
           EqualArgs(args, e, row, env, system), NEW op \in Ops, args \in [DOMAIN e.args -> Trees]
    PROVE  Node(op, 0, args) \in Trees
<1>1. PICK n \in Nat : DOMAIN e.args \subseteq 1..n
  BY DEF AreExpressions, AreAllExpressions
<1>2. 0 \in Infos /\ DOMAIN e.args \in SUBSET (1..n)
  BY <1>1, NodeOps
<1> QED BY <1>2, TreeOver, Zenon

\* The same operator over equal arguments is equal.
LEMMA EqualCongruent ==
    ASSUME AreExpressions, NEW e \in Trees, e.op \in Congruent, NEW row, NEW env, NEW system, NEW args,
           EqualArgs(args, e, row, env, system), args \in [DOMAIN e.args -> Trees],
           NEW sql, sql = Node(e.op, 0, args)
    PROVE  Equal(sql, e, row, env, system)
<1>1. e.op \in Ops /\ e.op \notin {"throw", "nothing", "uuid", "enum"}
  BY DEF Congruent, Ops
<1>2. sql \in Trees
  BY <1>1, TreeOverArgs
<1>3. sql.op = e.op /\ sql.args = args
  BY DEF Node
<1> DEFINE v == [i \in DOMAIN sql.args |-> Eval(sql.args[i], row, system)]
           w == [i \in DOMAIN e.args |-> Eval(e.args[i], env, "duckdb")]
<1>4. Eval(sql, row, system) = Apply(sql, v, row, system)
  BY <1>2, EvalUnfold, Zenon
<1>5. Eval(e, env, "duckdb") = Apply(e, w, env, "duckdb")
  BY EvalUnfold, Zenon
<1>6. DOMAIN sql.args = DOMAIN e.args
  BY <1>3 DEF EqualArgs
<1>7. v = w
  BY <1>3, <1>6, Zenon DEF EqualArgs
<1> HIDE DEF v, w
<1>8. Apply(sql, w, row, system) = Apply(e, w, env, "duckdb")
  BY <1>3, <1>6, ApplyCongruent
<1> QED BY <1>1, <1>2, <1>3, <1>4, <1>5, <1>7, <1>8, Zenon DEF Equal

\* A comparison of translated operands.
LEMMA ClickCompares ==
    ASSUME AreExpressions, NEW left \in Trees, NEW right \in Trees, left.op \notin {"uuid", "enum"},
           NEW op \in Comparisons, NEW row, NEW system, NEW sql \in Trees, sql.op = op,
           {1, 2} \subseteq DOMAIN sql.args, sql.args[1] = left, sql.args[2] = right
    PROVE  Eval(sql, row, system) = Compare3(op, Eval(left, row, system), Eval(right, row, system))
<1>1. ~(sql.op \in Ordered /\ sql.args[1].op = "uuid")
  OBVIOUS
<1>2. sql.args[1].op # "enum"
  OBVIOUS
<1>3. Eval(sql, row, system)
        = Compare3(sql.op, Eval(sql.args[1], row, system), Eval(sql.args[2], row, system))
  BY <1>1, <1>2, EvalComparison
<1> QED BY <1>3, Zenon

\* A comparison of equal arguments is equal, none of them a UUID or an enum.
LEMMA EqualComparison ==
    ASSUME AreExpressions, NEW e \in Trees, e.op \in Comparisons, {1, 2} \subseteq DOMAIN e.args,
           NEW row, NEW env, NEW system, NEW args,
           EqualArgs(args, e, row, env, system), args \in [DOMAIN e.args -> Trees],
           NEW sql, sql = Node(e.op, 0, args)
    PROVE  Equal(sql, e, row, env, system)
<1>1. e.op \in Ops /\ e.op \notin {"throw", "nothing", "uuid", "enum"}
  <2>1. e.op \in Ops
    BY NodeOps
  <2> QED BY <2>1 DEF Comparisons, Ordered
<1>2. sql \in Trees
  BY <1>1, TreeOverArgs
<1>3. sql.op = e.op /\ sql.args = args
  BY DEF Node
<1>4. /\ args[1] \in Trees /\ args[1].op \notin {"uuid", "enum"} /\ args[2] \in Trees
      /\ e.args[1] \in Trees /\ e.args[1].op \notin {"uuid", "enum"} /\ e.args[2] \in Trees
      /\ Eval(args[1], row, system) = Eval(e.args[1], env, "duckdb")
      /\ Eval(args[2], row, system) = Eval(e.args[2], env, "duckdb")
      /\ {1, 2} \subseteq DOMAIN sql.args
  BY <1>3, Positions DEF EqualArgs
<1>5. Eval(sql, row, system) = Compare3(e.op, Eval(args[1], row, system), Eval(args[2], row, system))
  BY <1>2, <1>3, <1>4, ClickCompares
<1>6. Eval(e, env, "duckdb") = Compare3(e.op, Eval(e.args[1], env, "duckdb"), Eval(e.args[2], env, "duckdb"))
  BY <1>4, ClickCompares
<1> QED BY <1>1, <1>2, <1>3, <1>4, <1>5, <1>6, Zenon DEF Equal

\* if() takes the branch its condition chooses; BETWEEN is two comparisons.
LEMMA EvalIf ==
    ASSUME AreExpressions, NEW e \in Trees, e.op = "if", {1, 2, 3} \subseteq DOMAIN e.args, NEW env, NEW system
    PROVE  /\ Eval(e.args[1], env, system) = TRUE => Eval(e, env, system) = Eval(e.args[2], env, system)
           /\ Eval(e.args[1], env, system) # TRUE => Eval(e, env, system) = Eval(e.args[3], env, system)
<1> DEFINE v == [i \in DOMAIN e.args |-> Eval(e.args[i], env, system)]
<1>1. Eval(e, env, system) = Apply(e, v, env, system)
  BY EvalUnfold, Zenon
<1>2. /\ v[1] = Eval(e.args[1], env, system) /\ v[2] = Eval(e.args[2], env, system)
      /\ v[3] = Eval(e.args[3], env, system)
  BY Zenon
<1> HIDE DEF v
<1>3. Apply(e, v, env, system) = IF v[1] = TRUE THEN v[2] ELSE v[3]
  BY ApplyIf, Zenon
<1> QED BY <1>1, <1>2, <1>3, Zenon

LEMMA EvalBetween ==
    ASSUME AreExpressions, NEW e \in Trees, e.op = "between", {1, 2, 3} \subseteq DOMAIN e.args, NEW env, NEW system
    PROVE  Eval(e, env, system)
             = And3({Compare3(">=", Eval(e.args[1], env, system), Eval(e.args[2], env, system)),
                     Compare3("<=", Eval(e.args[1], env, system), Eval(e.args[3], env, system))})
<1> DEFINE v == [i \in DOMAIN e.args |-> Eval(e.args[i], env, system)]
<1>1. Eval(e, env, system) = Apply(e, v, env, system)
  BY EvalUnfold, Zenon
<1>2. /\ v[1] = Eval(e.args[1], env, system) /\ v[2] = Eval(e.args[2], env, system)
      /\ v[3] = Eval(e.args[3], env, system)
  BY Zenon
<1> HIDE DEF v
<1>3. Apply(e, v, env, system) = And3({Compare3(">=", v[1], v[2]), Compare3("<=", v[1], v[3])})
  BY ApplyBetween, Zenon
<1> QED BY <1>1, <1>2, <1>3, Zenon

\* A comparison that a translation puts together.
LEMMA ComparisonOfTwo ==
    ASSUME AreExpressions, NEW left \in Trees, NEW right \in Trees, left.op \notin {"uuid", "enum"},
           NEW op \in Comparisons, NEW row, NEW system, NEW sql, sql = Node(op, 0, <<left, right>>)
    PROVE  /\ sql \in Trees
           /\ Eval(sql, row, system) = Compare3(op, Eval(left, row, system), Eval(right, row, system))
<1>1. op \in Ops /\ 0 \in Infos
  BY NodeOps
<1>2. sql \in Trees
  BY <1>1, TreeOverTwo
<1>3. sql.op = op /\ sql.args = <<left, right>>
  BY DEF Node
<1>4. {1, 2} \subseteq DOMAIN sql.args /\ sql.args[1] = left /\ sql.args[2] = right
  BY <1>3
<1> QED BY <1>2, <1>3, <1>4, ClickCompares

\* BETWEEN, translated into two comparisons, is equal.
LEMMA EqualBetween ==
    ASSUME AreExpressions, NEW e \in Trees, e.op = "between", {1, 2, 3} \subseteq DOMAIN e.args,
           NEW row, NEW env, NEW system, NEW args, EqualArgs(args, e, row, env, system),
           NEW sql, sql = Node("and", 0, <<Node(">=", 0, <<args[1], args[2]>>), Node("<=", 0, <<args[1], args[3]>>)>>)
    PROVE  Equal(sql, e, row, env, system)
<1>1. /\ args[1] \in Trees /\ args[1].op \notin {"uuid", "enum"} /\ args[2] \in Trees /\ args[3] \in Trees
      /\ Eval(args[1], row, system) = Eval(e.args[1], env, "duckdb")
      /\ Eval(args[2], row, system) = Eval(e.args[2], env, "duckdb")
      /\ Eval(args[3], row, system) = Eval(e.args[3], env, "duckdb")
  BY DEF EqualArgs
<1>2. PICK low, high : low = Node(">=", 0, <<args[1], args[2]>>) /\ high = Node("<=", 0, <<args[1], args[3]>>)
  OBVIOUS
<1>3. ">=" \in Comparisons /\ "<=" \in Comparisons
  BY DEF Comparisons, Ordered
<1>4. /\ low \in Trees
      /\ Eval(low, row, system) = Compare3(">=", Eval(args[1], row, system), Eval(args[2], row, system))
  BY <1>1, <1>2, <1>3, ComparisonOfTwo
<1>5. /\ high \in Trees
      /\ Eval(high, row, system) = Compare3("<=", Eval(args[1], row, system), Eval(args[3], row, system))
  BY <1>1, <1>2, <1>3, ComparisonOfTwo
<1>6. sql = Node("and", 0, <<low, high>>)
  BY <1>2
<1>7. sql \in Trees
  <2>1. "and" \in Ops /\ 0 \in Infos
    BY NodeOps
  <2> QED BY <1>4, <1>5, <1>6, <2>1, TreeOverTwo
<1>8. sql.op = "and" /\ sql.args = <<low, high>>
  BY <1>6 DEF Node
<1>9. DOMAIN sql.args = {1, 2} /\ sql.args[1] = low /\ sql.args[2] = high
  BY <1>8
<1>10. ArgValues(sql, row, system) = {Eval(low, row, system), Eval(high, row, system)}
  BY <1>9 DEF ArgValues
<1>11. Eval(sql, row, system) = And3(ArgValues(sql, row, system))
  BY <1>7, <1>8, EvalConjunction, Zenon
<1>12. Eval(e, env, "duckdb")
         = And3({Compare3(">=", Eval(e.args[1], env, "duckdb"), Eval(e.args[2], env, "duckdb")),
                 Compare3("<=", Eval(e.args[1], env, "duckdb"), Eval(e.args[3], env, "duckdb"))})
  BY EvalBetween
<1>13. Eval(sql, row, system) = Eval(e, env, "duckdb")
  BY <1>1, <1>4, <1>5, <1>10, <1>11, <1>12, Zenon
<1>14. sql.op \notin {"throw", "nothing", "uuid", "enum"} /\ e.op \notin {"uuid", "enum"}
  BY <1>8
<1> QED BY <1>7, <1>13, <1>14, Zenon DEF Equal

\* The values of an IN list, by its arguments.
ArgList(args, row, system) == {Eval(args[i], row, system) : i \in DOMAIN args \ {1}}

\* With if(isNull(left), NULL, ...) an IN list means in ClickHouse, whatever
\* transform_null_in, what it means in DuckDB.
LEMMA InListValue ==
    ASSUME AreExpressions, NEW n \in Nat, NEW at, at \in SUBSET (1..n), NEW args, args \in [at -> Trees],
           1 \in at, 2 \in at, NEW op \in {"in", "not_in"}, NEW row, NEW system \in {"clickhouse", "null_in"},
           Null \notin ArgList(args, row, system),
           NEW sql, sql = InList(args, op)
    PROVE  /\ sql \in Trees /\ sql.op = "if"
           /\ op = "in" =>
                Eval(sql, row, system) = In3(Eval(args[1], row, system), ArgList(args, row, system))
           /\ op = "not_in" =>
                Eval(sql, row, system) = Not3(In3(Eval(args[1], row, system), ArgList(args, row, system)))
<1>1. PICK isNull, inner : isNull = Node("is_null", 0, <<args[1]>>) /\ inner = Node(op, 0, args)
  OBVIOUS
<1>2. sql = Node("if", 0, <<isNull, Constant(Null), inner>>)
  BY <1>1, Zenon DEF InList
<1>3. /\ op \in Ops /\ "if" \in Ops /\ "is_null" \in Ops /\ 0 \in Infos /\ args[1] \in Trees
  BY NodeOps
<1>4. isNull \in Trees
  BY <1>1, <1>3, TreeOverOne, Zenon
<1>5. inner \in Trees
  BY ONLY AreExpressions, n \in Nat, at \in SUBSET (1..n), args \in [at -> Trees], <1>1, <1>3, TreeOver
<1>6. Constant(Null) \in Trees /\ Eval(Constant(Null), row, system) = Null
  <2>1. Null \in Int \cup {Null}
    BY Zenon
  <2> QED BY ONLY AreExpressions, <2>1, ConstantTree
<1>7. sql \in Trees
  BY ONLY AreExpressions, <1>2, <1>3, <1>4, <1>5, <1>6, TreeOverThree
<1>8. sql.op = "if" /\ sql.args = <<isNull, Constant(Null), inner>>
  BY ONLY <1>2 DEF Node
<1>9. {1, 2, 3} \subseteq DOMAIN sql.args /\ sql.args[1] = isNull /\ sql.args[2] = Constant(Null) /\ sql.args[3] = inner
  BY ONLY <1>8
<1>10. isNull.op = "is_null" /\ isNull.args = <<args[1]>>
  BY ONLY <1>1 DEF Node
<1>11. 1 \in DOMAIN isNull.args /\ isNull.args[1] = args[1]
  BY ONLY <1>10
<1>12. inner.op = op /\ inner.args = args
  BY ONLY <1>1 DEF Node
<1>13. PICK x, list : x = Eval(args[1], row, system) /\ list = ArgList(args, row, system)
  OBVIOUS
<1>14. Eval(isNull, row, system) = (x = Null)
  <2>1. /\ isNull.op = "is_null" => Eval(isNull, row, system) = (Eval(isNull.args[1], row, system) = Null)
        /\ isNull.op = "is_not_null" => Eval(isNull, row, system) = (Eval(isNull.args[1], row, system) # Null)
    BY <1>4, <1>11, EvalIsNull, Zenon
  <2> QED BY ONLY <1>10, <1>11, <1>13, <2>1, Zenon
<1>15. Eval(sql, row, system) = IF x = Null THEN Null ELSE Eval(inner, row, system)
  <2>1. /\ Eval(sql.args[1], row, system) = TRUE => Eval(sql, row, system) = Eval(sql.args[2], row, system)
        /\ Eval(sql.args[1], row, system) # TRUE => Eval(sql, row, system) = Eval(sql.args[3], row, system)
    <3>1. sql \in Trees /\ sql.op = "if" /\ {1, 2, 3} \subseteq DOMAIN sql.args
      BY ONLY <1>7, <1>8, <1>9
    <3> QED BY ONLY AreExpressions, <3>1, EvalIf
  <2>2. Eval(isNull, row, system) = TRUE <=> x = Null
    BY ONLY <1>14, Zenon
  <2> QED BY ONLY <1>6, <1>9, <2>1, <2>2, Zenon
<1>16. ListValues(inner, row, system) = list
  BY <1>12, <1>13, Zenon DEF ListValues, ArgList
<1>17. 1 \in DOMAIN inner.args /\ Eval(inner.args[1], row, system) = x
  BY <1>12, <1>13
<1>18. list # {} /\ Null \notin list
  <2>1. DOMAIN args = at /\ 2 \in at
    BY Zenon
  <2>2. 2 # 1
    OBVIOUS
  <2> QED BY <1>13, <2>1, <2>2, Zenon DEF ArgList
<1>19. ASSUME x # Null
       PROVE  /\ op = "in" => Eval(inner, row, system) = In3(x, list)
              /\ op = "not_in" => Eval(inner, row, system) = Not3(In3(x, list))
  <2>1. CASE system = "clickhouse"
    <3>1. system # "null_in"
      BY <2>1
    <3>2. /\ inner.op = "in" => Eval(inner, row, system) = In3(Eval(inner.args[1], row, system), ListValues(inner, row, system))
          /\ inner.op = "not_in" =>
               Eval(inner, row, system) = Not3(In3(Eval(inner.args[1], row, system), ListValues(inner, row, system)))
      BY <1>5, <1>17, <3>1, EvalInList, Zenon
    <3> QED BY <1>12, <1>16, <1>17, <3>2, Zenon
  <2>2. CASE system = "null_in"
    <3>1. /\ inner.op = "in" /\ Eval(inner.args[1], row, "null_in") \in ListValues(inner, row, "null_in")
                => Eval(inner, row, "null_in") = TRUE
          /\ inner.op = "in" /\ ~(Eval(inner.args[1], row, "null_in") \in ListValues(inner, row, "null_in"))
                => Eval(inner, row, "null_in") = FALSE
          /\ inner.op = "not_in" /\ Eval(inner.args[1], row, "null_in") \in ListValues(inner, row, "null_in")
                => Eval(inner, row, "null_in") = FALSE
          /\ inner.op = "not_in" /\ ~(Eval(inner.args[1], row, "null_in") \in ListValues(inner, row, "null_in"))
                => Eval(inner, row, "null_in") = TRUE
      BY <1>5, <1>17, EvalNullIn, Zenon
    <3>2. /\ op = "in" /\ x \in list => Eval(inner, row, system) = TRUE
          /\ op = "in" /\ ~(x \in list) => Eval(inner, row, system) = FALSE
          /\ op = "not_in" /\ x \in list => Eval(inner, row, system) = FALSE
          /\ op = "not_in" /\ ~(x \in list) => Eval(inner, row, system) = TRUE
      BY ONLY <1>12, <1>16, <1>17, <2>2, <3>1, Zenon
    <3>3. /\ x \in list => In3(x, list) = TRUE
          /\ ~(x \in list) => In3(x, list) = FALSE
      BY <1>18, <1>19, In3Value, Zenon
    <3> QED BY ONLY <3>2, <3>3, Not3Value, Zenon
  <2> QED BY <2>1, <2>2
<1>20. ASSUME x = Null PROVE In3(x, list) = Null /\ Not3(In3(x, list)) = Null
  BY <1>18, <1>20, In3Value, Not3Value, Zenon
<1> QED BY <1>7, <1>8, <1>13, <1>15, <1>19, <1>20, Zenon

\* The list an IN is translated with: constants, none of them NULL.
IsList(e) ==
    /\ 2 \in DOMAIN e.args
    /\ \A i \in DOMAIN e.args : i > 1 => e.args[i].op = "constant" /\ ~IsNullConstant(e.args[i])

\* InList() is equal, whatever IN does with NULL on the server.
LEMMA EqualInList ==
    ASSUME AreExpressions, NEW e \in Trees, e.op \in {"in", "not_in"}, 1 \in DOMAIN e.args, IsList(e),
           NEW row, NEW env, NEW system \in {"clickhouse", "null_in"}, NEW args,
           EqualArgs(args, e, row, env, system), args \in [DOMAIN e.args -> Trees],
           NEW sql, sql = InList(args, e.op)
    PROVE  Equal(sql, e, row, env, system)
<1>1. PICK n \in Nat : DOMAIN e.args \subseteq 1..n
  BY DEF AreExpressions, AreAllExpressions
<1>2. PICK op \in {"in", "not_in"} : op = e.op
  OBVIOUS
<1>3. /\ DOMAIN args = DOMAIN e.args
      /\ \A i \in DOMAIN e.args : Eval(args[i], row, system) = Eval(e.args[i], env, "duckdb")
  BY DEF EqualArgs
<1>4. ArgList(args, row, system) = ListValues(e, env, "duckdb")
  BY <1>3, Zenon DEF ArgList, ListValues
<1>5. Null \notin ListValues(e, env, "duckdb")
  <2>1. SUFFICES ASSUME NEW i \in DOMAIN e.args, i # 1 PROVE Eval(e.args[i], env, "duckdb") # Null
    BY Zenon DEF ListValues
  <2>2. i > 1 /\ e.args[i] \in Trees
    BY <2>1, Positions
  <2>3. e.args[i].op = "constant" /\ e.args[i].info # Null
    BY <2>2 DEF IsList, IsNullConstant
  <2>4. Eval(e.args[i], env, "duckdb") = e.args[i].info
    BY ONLY AreExpressions, <2>2, <2>3, EvalConstant
  <2> QED BY <2>3, <2>4
<1>6. /\ sql \in Trees /\ sql.op = "if"
      /\ op = "in" =>
           Eval(sql, row, system) = In3(Eval(args[1], row, system), ArgList(args, row, system))
      /\ op = "not_in" =>
           Eval(sql, row, system) = Not3(In3(Eval(args[1], row, system), ArgList(args, row, system)))
  <2>1. DOMAIN e.args \in SUBSET (1..n) /\ 2 \in DOMAIN e.args
    BY <1>1 DEF IsList
  <2>2. Null \notin ArgList(args, row, system) /\ sql = InList(args, op)
    BY <1>2, <1>4, <1>5
  <2> QED BY ONLY AreExpressions, n \in Nat, <2>1, args \in [DOMAIN e.args -> Trees], 1 \in DOMAIN e.args,
                  op \in {"in", "not_in"}, system \in {"clickhouse", "null_in"}, <2>2, InListValue
<1>7. /\ e.op = "in" => Eval(e, env, "duckdb") = In3(Eval(e.args[1], env, "duckdb"), ListValues(e, env, "duckdb"))
      /\ e.op = "not_in" =>
           Eval(e, env, "duckdb") = Not3(In3(Eval(e.args[1], env, "duckdb"), ListValues(e, env, "duckdb")))
  <2>1. "duckdb" # "null_in"
    OBVIOUS
  <2> QED BY <2>1, EvalInList, Zenon
<1>8. Eval(args[1], row, system) = Eval(e.args[1], env, "duckdb")
  BY <1>3
<1>9. Eval(sql, row, system) = Eval(e, env, "duckdb")
  <2>1. op = "in" \/ op = "not_in"
    OBVIOUS
  <2> QED BY ONLY <1>2, <1>4, <1>6, <1>7, <1>8, <2>1, Zenon
<1>10. sql.op \notin {"throw", "nothing", "uuid", "enum"} /\ e.op \notin {"uuid", "enum"}
  BY <1>6
<1> QED BY <1>6, <1>9, <1>10, Zenon DEF Equal

\* A literal is equal, or refused.
LEMMA EqualConstant ==
    ASSUME AreExpressions, NEW e \in Trees, e.op = "constant", NEW row, NEW env, NEW system
    PROVE  Equal(Literal(e.info), e, row, env, system)
<1>1. PICK d : d = e.info
  OBVIOUS
<1>2. Eval(e, env, "duckdb") = d
  BY <1>1, EvalConstant
<1>3. CASE d = Null \/ d \in Representable
  <2>1. Literal(d) = Constant(d)
    BY <1>3, Zenon DEF Literal, TransformConstant
  <2>2. d \in Int \cup {Null}
    BY <1>3, RepresentableAssumption
  <2>3. /\ Constant(d) \in Trees /\ Constant(d).op = "constant" /\ Eval(Constant(d), row, system) = d
    BY <2>2, ConstantTree, Zenon
  <2>4. Constant(d).op \notin {"throw", "nothing", "uuid", "enum"} /\ e.op \notin {"uuid", "enum"}
    BY <2>3
  <2> QED BY <1>1, <1>2, <2>1, <2>3, <2>4, Zenon DEF Equal
<1>4. CASE ~(d = Null \/ d \in Representable)
  <2>1. Literal(d) = Throw
    BY <1>4, Zenon DEF Literal, TransformConstant
  <2>2. Throw.op = "throw"
    BY DEF Throw, Node
  <2> QED BY <1>1, <2>1, <2>2, Zenon DEF Equal
<1> QED BY <1>3, <1>4

Translated == {"ref", "constant", "between", "in", "not_in"} \cup Comparisons \cup Congruent

\* What BETWEEN becomes.
Ranged(args) ==
    Node("and", 0, <<Node(">=", 0, <<args[1], args[2]>>), Node("<=", 0, <<args[1], args[3]>>)>>)

\* TranslateExpression(), case by case.
LEMMA TranslateCases ==
    ASSUME NEW e, NEW args, NEW inputs, \A i \in DOMAIN args : args[i].op # "throw"
    PROVE  /\ e.op = "ref" => TranslateExpression(e, args, inputs) = inputs[e.info]
           /\ e.op = "constant" => TranslateExpression(e, args, inputs) = Literal(e.info)
           /\ e.op \in Comparisons => \/ TranslateExpression(e, args, inputs) = Throw
                                      \/ TranslateExpression(e, args, inputs) = Node(e.op, 0, args)
           /\ e.op = "between" => TranslateExpression(e, args, inputs) = Ranged(args)
           /\ e.op \in {"in", "not_in"} =>
                TranslateExpression(e, args, inputs) = IF IsList(e) THEN InList(args, e.op) ELSE Throw
           /\ e.op \in Congruent => \/ TranslateExpression(e, args, inputs) = Throw
                                    \/ TranslateExpression(e, args, inputs) = Node(e.op, 0, args)
           /\ e.op \notin Translated => TranslateExpression(e, args, inputs) = Throw
<1> USE DEF TranslateExpression, Comparisons, Ordered
<1>1. e.op = "ref" => TranslateExpression(e, args, inputs) = inputs[e.info]
  OBVIOUS
<1>2. e.op = "constant" => TranslateExpression(e, args, inputs) = Literal(e.info)
  OBVIOUS
<1>3. e.op \in Comparisons => \/ TranslateExpression(e, args, inputs) = Throw
                              \/ TranslateExpression(e, args, inputs) = Node(e.op, 0, args)
  OBVIOUS
<1>4. e.op = "between" => TranslateExpression(e, args, inputs) = Ranged(args)
  BY DEF Ranged
<1>5. e.op \in {"in", "not_in"} =>
        TranslateExpression(e, args, inputs) = IF IsList(e) THEN InList(args, e.op) ELSE Throw
  BY DEF IsList
<1>6. e.op \in Congruent => \/ TranslateExpression(e, args, inputs) = Throw
                            \/ TranslateExpression(e, args, inputs) = Node(e.op, 0, args)
  BY DEF Congruent
<1>7. e.op \notin Translated => TranslateExpression(e, args, inputs) = Throw
  BY DEF Translated, Congruent
<1> QED BY ONLY <1>1, <1>2, <1>3, <1>4, <1>5, <1>6, <1>7, Zenon

\* A translation that throws claims nothing.
LEMMA ThrowEqual ==
    ASSUME NEW e, NEW row, NEW env, NEW system
    PROVE  Equal(Throw, e, row, env, system)
<1>1. Throw.op = "throw"
  BY DEF Throw, Node
<1> QED BY <1>1, Zenon DEF Equal

\* One level, where the arguments are translated exactly or not at all.
LEMMA TranslateLevel ==
    ASSUME AreExpressions, NEW e \in Trees, NEW indexes, IsExpressionNode(e, indexes), NEW row, NEW env,
           NEW system \in {"clickhouse", "null_in"}, NEW inputs, EqualInputs(inputs, indexes, row, env, system),
           NEW args, DOMAIN args = DOMAIN e.args, args = [i \in DOMAIN e.args |-> args[i]],
           \A i \in DOMAIN e.args : Equal(args[i], e.args[i], row, env, system)
    PROVE  Equal(TranslateExpression(e, args, inputs), e, row, env, system)
<1> DEFINE sql == TranslateExpression(e, args, inputs)
<1>1. CASE \E i \in DOMAIN args : args[i].op = "throw"
  <2>1. sql = Throw
    BY <1>1, Zenon DEF TranslateExpression
  <2> QED BY <2>1, ThrowEqual, Zenon
<1>2. CASE \A i \in DOMAIN args : args[i].op # "throw"
  <2>1. EqualArgs(args, e, row, env, system)
    BY <1>2, Zenon DEF Equal, EqualArgs
  <2>2. args \in [DOMAIN e.args -> Trees]
    BY <2>1 DEF EqualArgs
  <2>3. CASE e.op = "ref"
    <3>1. sql = inputs[e.info]
      BY <1>2, <2>3, TranslateCases, Zenon
    <3>2. e.info \in indexes
      BY <2>3 DEF IsExpressionNode
    <3>3. Eval(e, env, "duckdb") = env[e.info]
      BY <2>3, EvalLeaf
    <3>4. e.op \notin {"uuid", "enum"}
      BY <2>3
    <3> QED BY <3>1, <3>2, <3>3, <3>4, Zenon DEF EqualInputs, Equal
  <2>4. CASE e.op = "constant"
    <3>1. sql = Literal(e.info)
      BY <1>2, <2>4, TranslateCases, Zenon
    <3> QED BY <2>4, <3>1, EqualConstant, Zenon
  <2>5. CASE e.op \in Comparisons
    <3>1. sql = Throw \/ sql = Node(e.op, 0, args)
      BY <1>2, <2>5, TranslateCases, Zenon
    <3>2. {1, 2} \subseteq DOMAIN e.args
      BY <2>5 DEF IsExpressionNode
    <3>3. Equal(Node(e.op, 0, args), e, row, env, system)
      BY ONLY AreExpressions, e \in Trees, <2>1, <2>2, <2>5, <3>2, EqualComparison
    <3> QED BY <3>1, <3>3, ThrowEqual, Zenon
  <2>6. CASE e.op = "between"
    <3>1. {1, 2, 3} \subseteq DOMAIN e.args
      BY <2>6 DEF IsExpressionNode
    <3>2. PICK s : s = Ranged(args)
      OBVIOUS
    <3>3. Equal(s, e, row, env, system)
      BY ONLY AreExpressions, e \in Trees, <2>1, <2>6, <3>1, <3>2, EqualBetween DEF Ranged
    <3>4. sql = Ranged(args)
      BY <1>2, <2>6, TranslateCases, Zenon
    <3>5. sql = s
      BY ONLY <3>2, <3>4, Zenon
    <3> QED BY <3>3, <3>5, Zenon
  <2>7. CASE e.op \in {"in", "not_in"}
    <3>1. 1 \in DOMAIN e.args
      BY <2>7 DEF IsExpressionNode
    <3>2. sql = IF IsList(e) THEN InList(args, e.op) ELSE Throw
      BY <1>2, <2>7, TranslateCases, Zenon
    <3>3. ASSUME IsList(e) PROVE Equal(InList(args, e.op), e, row, env, system)
      BY ONLY AreExpressions, e \in Trees, system \in {"clickhouse", "null_in"}, <2>1, <2>2, <2>7, <3>1, <3>3,
              EqualInList
    <3> QED BY <3>2, <3>3, ThrowEqual, Zenon
  <2>8. CASE e.op \in Congruent
    <3>1. sql = Throw \/ sql = Node(e.op, 0, args)
      BY <1>2, <2>8, TranslateCases, Zenon
    <3>2. Equal(Node(e.op, 0, args), e, row, env, system)
      BY ONLY AreExpressions, e \in Trees, <2>1, <2>2, <2>8, EqualCongruent
    <3> QED BY <3>1, <3>2, ThrowEqual, Zenon
  <2>9. CASE e.op \notin Translated
    <3>1. sql = Throw
      BY <1>2, <2>9, TranslateCases, Zenon
    <3> QED BY <3>1, ThrowEqual, Zenon
  <2> QED BY <2>3, <2>4, <2>5, <2>6, <2>7, <2>8, <2>9 DEF Translated
<1> QED BY <1>1, <1>2, Zenon

\* An expression that Translate() does not refuse has in ClickHouse, in either
\* system, the value DuckDB gives it, where its inputs do.
THEOREM TranslateExact ==
    ASSUME AreExpressions, NEW indexes, NEW row, NEW env, NEW system \in {"clickhouse", "null_in"},
           NEW inputs, EqualInputs(inputs, indexes, row, env, system), NEW S, AreBound(S, indexes)
    PROVE  \A e \in S : Equal(Translate(e, inputs), e, row, env, system)
<1> DEFINE Bad == {e \in S : ~Equal(Translate(e, inputs), e, row, env, system)}
<1> SUFFICES ASSUME Bad # {} PROVE FALSE
  BY Zenon
<1>1. PICK depth : /\ depth \in [Trees -> Nat]
                   /\ \A e \in Trees : \A i \in DOMAIN e.args : e.args[i] \in Trees /\ depth[e.args[i]] < depth[e]
  BY DEF AreExpressions, AreAllExpressions
<1>2. Bad \subseteq Trees /\ Bad \subseteq S
  BY DEF AreBound
<1>3. PICK e \in Bad : \A y \in Bad : depth[e] <= depth[y]
  <2> HIDE DEF Bad
  <2> QED BY <1>1, <1>2, EvalOf!ShallowestTree, Zenon
<1>4. e \in S /\ e \in Trees
  BY <1>2, <1>3
<1>5. ASSUME NEW i \in DOMAIN e.args
      PROVE  Equal(Translate(e.args[i], inputs), e.args[i], row, env, system)
  <2>1. e.args[i] \in S
    BY <1>4 DEF AreBound
  <2>2. depth[e.args[i]] < depth[e] /\ depth[e] \in Nat /\ depth[e.args[i]] \in Nat
    BY <1>1, <1>4
  <2>3. ~(depth[e] <= depth[e.args[i]])
    BY <2>2
  <2>4. e.args[i] \notin Bad
    BY <1>3, <2>3, Zenon
  <2> QED BY <2>1, <2>4, Zenon
<1>6. PICK args : args = [i \in DOMAIN e.args |-> Translate(e.args[i], inputs)]
  OBVIOUS
<1>7. /\ DOMAIN args = DOMAIN e.args /\ args = [i \in DOMAIN e.args |-> args[i]]
      /\ \A i \in DOMAIN e.args : Equal(args[i], e.args[i], row, env, system)
  BY <1>5, <1>6, Zenon
<1>8. IsExpressionNode(e, indexes)
  BY <1>4 DEF AreBound
<1>9. Equal(TranslateExpression(e, args, inputs), e, row, env, system)
  BY ONLY AreExpressions, system \in {"clickhouse", "null_in"}, EqualInputs(inputs, indexes, row, env, system),
          <1>4, <1>7, <1>8, TranslateLevel
<1>10. Translate(e, inputs) = TranslateExpression(e, args, inputs)
  BY <1>4, <1>6, TranslateUnfold, Zenon
<1> QED BY <1>3, <1>9, <1>10, Zenon

-----------------------------------------------------------------------------
(* TranslateTableFilterExpression(): a filter of the scan, once more.      *)

\* As Equal, or there is no condition and DuckDB's filter holds.
EqualFilter(sql, e, row, env, system) ==
    \/ Equal(sql, e, row, env, system)
    \/ sql.op = "nothing" /\ Eval(e, env, "duckdb") = TRUE

EqualParts(parts, e, row, env, system) ==
    /\ DOMAIN parts = DOMAIN e.args
    /\ \A i \in DOMAIN e.args : EqualFilter(parts[i], e.args[i], row, env, system)

\* A filter of a scan refers to the one column it is over.
LEMMA FiltersAreBound ==
    ASSUME NEW S, NEW column, AreFilters(S, column)
    PROVE  AreBound(S, {1})
BY DEF AreFilters, AreBound, IsFilterNode, IsExpressionNode

\* The parts that restrict, in a conjunction or disjunction.
LEMMA EqualKept ==
    ASSUME AreExpressions, NEW e \in Trees, e.op \in {"and", "or"}, NEW row, NEW env, NEW system, NEW parts,
           EqualParts(parts, e, row, env, system),
           \A i \in DOMAIN parts : parts[i].op # "throw" /\ (e.op = "or" => parts[i].op # "nothing"),
           NEW kept, kept = {i \in DOMAIN parts : parts[i].op # "nothing"}, kept # {}
    PROVE  Equal(Node(e.op, 0, [i \in kept |-> parts[i]]), e, row, env, system)
<1>1. PICK op \in {"and", "or"} : op = e.op
  OBVIOUS
<1>1a. PICK args, sql : args = [i \in kept |-> parts[i]] /\ sql = Node(op, 0, args)
  OBVIOUS
<1>2. PICK n \in Nat : DOMAIN e.args \subseteq 1..n
  BY DEF AreExpressions, AreAllExpressions
<1>3. DOMAIN parts = DOMAIN e.args
  BY DEF EqualParts
<1>4. \A i \in DOMAIN parts :
        /\ i \notin kept => Eval(e.args[i], env, "duckdb") = TRUE
        /\ i \in kept => parts[i] \in Trees /\ Eval(parts[i], row, system) = Eval(e.args[i], env, "duckdb")
  <2> SUFFICES ASSUME NEW i \in DOMAIN parts
               PROVE  /\ i \notin kept => Eval(e.args[i], env, "duckdb") = TRUE
                      /\ i \in kept => /\ parts[i] \in Trees
                                       /\ Eval(parts[i], row, system) = Eval(e.args[i], env, "duckdb")
    BY Zenon
  <2>1. EqualFilter(parts[i], e.args[i], row, env, system) /\ parts[i].op # "throw"
    BY DEF EqualParts
  <2>2. i \in kept <=> parts[i].op # "nothing"
    OBVIOUS
  <2> QED BY <2>1, <2>2 DEF EqualFilter, Equal
<1>5. kept \subseteq DOMAIN e.args /\ kept \in SUBSET (1..n)
  BY <1>2, <1>3
<1>6. args \in [kept -> Trees]
  BY <1>1, <1>1a, <1>4, <1>5, <1>3
<1>7. sql \in Trees
  <2>1. op \in Ops /\ 0 \in Infos
    BY NodeOps
  <2> QED BY <1>1, <1>1a, <1>5, <1>6, <2>1, TreeOver, Zenon
<1>8. sql.op = op /\ sql.args = args
  BY ONLY <1>1, <1>1a DEF Node
<1>9. DOMAIN sql.args = kept /\ \A i \in kept : sql.args[i] = parts[i]
  BY <1>1, <1>1a, <1>8
<1> DEFINE clicks == ArgValues(sql, row, system)
           ducks == ArgValues(e, env, "duckdb")
<1>10. \A v : v # TRUE => (v \in clicks <=> v \in ducks)
  BY <1>3, <1>4, <1>5, <1>9, Zenon DEF ArgValues
<1>11. e.op = "or" => clicks = ducks
  <2> SUFFICES ASSUME e.op = "or" PROVE clicks = ducks
    BY Zenon
  <2>1. kept = DOMAIN e.args
    BY <1>3
  <2>2. \A i \in kept : Eval(sql.args[i], row, system) = Eval(e.args[i], env, "duckdb")
    BY <1>4, <1>9, Zenon
  <2>3. DOMAIN sql.args = DOMAIN e.args
    BY <1>9, <2>1
  <2>4. \A v : v \in clicks <=> v \in ducks
    BY <1>9, <2>1, <2>2, <2>3, Zenon DEF ArgValues
  <2> HIDE DEF clicks, ducks
  <2> QED BY <2>4
<1>12. /\ op = "and" => Eval(sql, row, system) = And3(clicks) /\ Eval(e, env, "duckdb") = And3(ducks)
       /\ op = "or" => Eval(sql, row, system) = Or3(clicks) /\ Eval(e, env, "duckdb") = Or3(ducks)
  <2>1. /\ sql.op = "and" => Eval(sql, row, system) = And3(clicks)
        /\ sql.op = "or" => Eval(sql, row, system) = Or3(clicks)
    BY <1>7, EvalConjunction, Zenon
  <2>2. /\ e.op = "and" => Eval(e, env, "duckdb") = And3(ducks)
        /\ e.op = "or" => Eval(e, env, "duckdb") = Or3(ducks)
    BY EvalConjunction, Zenon
  <2> HIDE DEF clicks, ducks
  <2> QED BY ONLY <1>1, <1>1a, <1>8, <2>1, <2>2, Zenon
<1> HIDE DEF clicks, ducks
<1>13. Null # TRUE /\ FALSE # TRUE
  BY NullAssumption
<1>14. And3(clicks) = And3(ducks)
  BY <1>10, <1>13, Zenon DEF And3
<1>15. Eval(sql, row, system) = Eval(e, env, "duckdb")
  BY <1>1, <1>1a, <1>11, <1>12, <1>14
<1>16. sql.op \notin {"throw", "nothing", "uuid", "enum"} /\ e.op \notin {"uuid", "enum"}
  BY <1>8
<1>17. sql = Node(e.op, 0, [i \in kept |-> parts[i]])
  BY <1>1, <1>1a, Zenon
<1> QED BY <1>7, <1>15, <1>16, <1>17, Zenon DEF Equal

\* What a translation gives beside an expression is told from one.
LEMMA NothingOp == Nothing.op = "nothing"
BY DEF Nothing, Node

LEMMA ThrowOp == Throw.op = "throw"
BY DEF Throw, Node

\* One level, where the parts are translated exactly or not at all.
LEMMA TableFilterLevel ==
    ASSUME AreExpressions, NEW e \in Trees, NEW column, NEW row, NEW env, NEW system, NEW parts,
           EqualParts(parts, e, row, env, system), Equal(Translate(e, <<column>>), e, row, env, system)
    PROVE  EqualFilter(TranslateTableFilter(e, parts, column), e, row, env, system)
<1> DEFINE kept == {i \in DOMAIN parts : parts[i].op # "nothing"}
           refused == \E i \in DOMAIN parts : parts[i].op = "throw" \/ (e.op = "or" /\ parts[i].op = "nothing")
<1>1. ASSUME NEW sql, sql.op = "throw" PROVE EqualFilter(sql, e, row, env, system)
  BY <1>1, Zenon DEF EqualFilter, Equal
<1>2. CASE e.op = "optional"
  <2>1. TranslateTableFilter(e, parts, column) = Nothing
    BY <1>2 DEF TranslateTableFilter
  <2>2. Eval(e, env, "duckdb") = TRUE
    BY <1>2, EvalHint DEF Hints
  <2> QED BY <2>1, <2>2, NothingOp, Zenon DEF EqualFilter
<1>3. CASE e.op = "runtime"
  <2>1. TranslateTableFilter(e, parts, column) = Throw
    BY <1>3 DEF TranslateTableFilter
  <2> QED BY <1>1, <2>1, ThrowOp, Zenon
<1>4. CASE e.op \in {"and", "or"}
  <2>1. TranslateTableFilter(e, parts, column)
          = IF refused \/ (e.op = "or" /\ kept = {}) THEN Throw
            ELSE IF kept = {} THEN Nothing ELSE Node(e.op, 0, [i \in kept |-> parts[i]])
    BY <1>4 DEF TranslateTableFilter
  <2>2. CASE refused \/ (e.op = "or" /\ kept = {})
    <3>1. TranslateTableFilter(e, parts, column) = Throw
      BY <2>1, <2>2, Zenon
    <3> QED BY <1>1, <3>1, ThrowOp, Zenon
  <2>3. CASE ~(refused \/ (e.op = "or" /\ kept = {})) /\ kept = {}
    <3>1. TranslateTableFilter(e, parts, column) = Nothing
      BY <2>1, <2>3, Zenon
    <3>2. e.op = "and"
      BY <1>4, <2>3
    <3>3. \A i \in DOMAIN e.args : Eval(e.args[i], env, "duckdb") = TRUE
      <4> SUFFICES ASSUME NEW i \in DOMAIN e.args PROVE Eval(e.args[i], env, "duckdb") = TRUE
        OBVIOUS
      <4>1. EqualFilter(parts[i], e.args[i], row, env, system) /\ parts[i].op = "nothing"
        BY <2>3 DEF EqualParts
      <4> QED BY <4>1 DEF EqualFilter, Equal
    <3>4. \A v \in ArgValues(e, env, "duckdb") : v = TRUE
      BY <3>3, Zenon DEF ArgValues
    <3>5. Eval(e, env, "duckdb") = And3(ArgValues(e, env, "duckdb"))
      BY <3>2, EvalConjunction, Zenon
    <3>6. ArgValues(e, env, "duckdb") \subseteq Three
      BY <3>4, Zenon DEF Three
    <3>7. Eval(e, env, "duckdb") = TRUE
      BY <3>4, <3>5, <3>6, And3Value, Zenon
    <3> QED BY <3>1, <3>7, NothingOp, Zenon DEF EqualFilter
  <2>4. CASE ~(refused \/ (e.op = "or" /\ kept = {})) /\ kept # {}
    <3>1. TranslateTableFilter(e, parts, column) = Node(e.op, 0, [i \in kept |-> parts[i]])
      BY <2>1, <2>4, Zenon
    <3>2. \A i \in DOMAIN parts : parts[i].op # "throw" /\ (e.op = "or" => parts[i].op # "nothing")
      BY <2>4, Zenon
    <3>3. PICK k : k = kept
      OBVIOUS
    <3>4. k = {i \in DOMAIN parts : parts[i].op # "nothing"} /\ k # {}
      BY <2>4, <3>3, Zenon
    <3>5. Equal(Node(e.op, 0, [i \in k |-> parts[i]]), e, row, env, system)
      BY ONLY AreExpressions, e \in Trees, EqualParts(parts, e, row, env, system), <1>4, <3>2, <3>4, EqualKept
    <3> QED BY <3>1, <3>3, <3>5, Zenon DEF EqualFilter
  <2> QED BY <2>2, <2>3, <2>4, Zenon
<1>5. CASE e.op \notin {"optional", "runtime", "and", "or"}
  <2>1. TranslateTableFilter(e, parts, column) = Translate(e, <<column>>)
    BY <1>5 DEF TranslateTableFilter
  <2> QED BY <2>1, Zenon DEF EqualFilter
<1> QED BY <1>2, <1>3, <1>4, <1>5

\* The column a filter is over, where it can be referred to.
IsColumnSql(column, row, env, system) ==
    /\ column \in Trees /\ column.op \notin {"throw", "nothing", "uuid", "enum"}
    /\ Eval(column, row, system) = env[1]

\* A filter of the scan that TranslateTableFilterExpression() does not refuse
\* has in ClickHouse the value it has in DuckDB, NULL included.
THEOREM TableFilterExact ==
    ASSUME AreExpressions, NEW column, NEW row, NEW env, NEW system \in {"clickhouse", "null_in"},
           IsColumnSql(column, row, env, system), NEW S, AreBound(S, {1})
    PROVE  \A e \in S : EqualFilter(TranslateTableFilterExpression(e, column), e, row, env, system)
<1> DEFINE Bad == {e \in S : ~EqualFilter(TranslateTableFilterExpression(e, column), e, row, env, system)}
<1> SUFFICES ASSUME Bad # {} PROVE FALSE
  BY Zenon
<1>1. PICK depth : /\ depth \in [Trees -> Nat]
                   /\ \A e \in Trees : \A i \in DOMAIN e.args : e.args[i] \in Trees /\ depth[e.args[i]] < depth[e]
  BY DEF AreExpressions, AreAllExpressions
<1>2. Bad \subseteq Trees /\ Bad \subseteq S
  BY DEF AreBound
<1>3. PICK e \in Bad : \A y \in Bad : depth[e] <= depth[y]
  <2> HIDE DEF Bad
  <2> QED BY <1>1, <1>2, EvalOf!ShallowestTree, Zenon
<1>4. e \in S /\ e \in Trees
  BY <1>2, <1>3
<1>5. ASSUME NEW i \in DOMAIN e.args
      PROVE  EqualFilter(TranslateTableFilterExpression(e.args[i], column), e.args[i], row, env, system)
  <2>1. e.args[i] \in S
    BY <1>4 DEF AreBound
  <2>2. depth[e.args[i]] < depth[e] /\ depth[e] \in Nat /\ depth[e.args[i]] \in Nat
    BY <1>1, <1>4
  <2>3. ~(depth[e] <= depth[e.args[i]])
    BY <2>2
  <2>4. e.args[i] \notin Bad
    BY <1>3, <2>3, Zenon
  <2> QED BY <2>1, <2>4, Zenon
<1>6. PICK parts : parts = [i \in DOMAIN e.args |-> TranslateTableFilterExpression(e.args[i], column)]
  OBVIOUS
<1>7. EqualParts(parts, e, row, env, system)
  BY <1>5, <1>6, Zenon DEF EqualParts
<1>8. PICK inputs : inputs = <<column>>
  OBVIOUS
<1>9. EqualInputs(inputs, {1}, row, env, system)
  <2>1. inputs[1] = column
    BY <1>8, OneArgument, Zenon
  <2> QED BY <2>1 DEF EqualInputs, IsColumnSql
<1>10. Equal(Translate(e, inputs), e, row, env, system)
  BY ONLY AreExpressions, system \in {"clickhouse", "null_in"}, <1>4, <1>9, AreBound(S, {1}), TranslateExact
<1>11. EqualFilter(TranslateTableFilter(e, parts, column), e, row, env, system)
  <2>1. Equal(Translate(e, <<column>>), e, row, env, system)
    BY <1>8, <1>10, Zenon
  <2> QED BY ONLY AreExpressions, <1>4, <1>7, <2>1, TableFilterLevel
<1>12. TranslateTableFilterExpression(e, column) = TranslateTableFilter(e, parts, column)
  BY <1>4, <1>6, TableFilterUnfold, Zenon
<1> QED BY <1>3, <1>11, <1>12, Zenon

-----------------------------------------------------------------------------
(* Sequences.                                                              *)

IsTuple(s) == Len(s) \in Nat /\ s = [i \in 1..Len(s) |-> s[i]]

\* A tuple is its values at 1..Len(s): plans, outputs and types are used as
\* such.
LEMMA TupleOf ==
    ASSUME NEW s, NEW k \in Nat, DOMAIN s = 1..k, s = [i \in 1..k |-> s[i]]
    PROVE  IsTuple(s) /\ Len(s) = k
<1>1. PICK S : S = {s[i] : i \in 1..k}
  OBVIOUS
<1>2. s \in Seq(S)
  BY <1>1
<1>3. Len(s) = k
  BY <1>2
<1> QED BY <1>3, Zenon DEF IsTuple

LEMMA SeqTuple ==
    ASSUME NEW S, NEW s \in Seq(S)
    PROVE  IsTuple(s)
BY DEF IsTuple

LEMMA TupleDomain ==
    ASSUME NEW s, IsTuple(s)
    PROVE  DOMAIN s = 1..Len(s)
BY DEF IsTuple

LEMMA TupleAppend ==
    ASSUME NEW s, IsTuple(s), NEW x
    PROVE  /\ IsTuple(Append(s, x)) /\ Len(Append(s, x)) = Len(s) + 1
           /\ \A i \in 1..Len(s) : Append(s, x)[i] = s[i]
           /\ Append(s, x)[Len(s) + 1] = x
<1>1. PICK S : S = {s[i] : i \in 1..Len(s)} \cup {x}
  OBVIOUS
<1>2. s \in Seq(S) /\ x \in S
  BY <1>1 DEF IsTuple
<1>3. /\ Append(s, x) \in Seq(S) /\ Len(Append(s, x)) = Len(s) + 1
      /\ \A i \in 1..Len(s) : Append(s, x)[i] = s[i]
      /\ Append(s, x)[Len(s) + 1] = x
  BY ONLY <1>2
<1>4. IsTuple(Append(s, x))
  BY ONLY <1>3, SeqTuple
<1> QED BY ONLY <1>3, <1>4

-----------------------------------------------------------------------------
(* Plans: what is defined along them satisfies its equation.               *)

TypesStep(p, n, below) == TypesOf(p[n], below)
OutputsStep(p, n, below) == OutputsOf(p[1][n], below, p[2])
ColumnsStep(p, n, below) == [i \in DOMAIN Types(plan)[n] |-> StepColumn(n, i, below)]
ReferencesStep(p, n, below) ==
    [i \in DOMAIN Types(plan)[n] |->
        LET step == StepReference(n, i) IN
        IF step.kind = "pass" THEN below[step.index] ELSE step]
ResolveStep(p, n, below) ==
    [i \in DOMAIN Types(plan)[n] |->
        LET step == StepReference(n, i) IN
        CASE plan[n].type = "projection" -> Translate(plan[n].exprs[i], below)
          [] plan[n].type # "projection" /\ step.kind = "scan" -> ColumnSql(step.index)
          [] plan[n].type # "projection" /\ step.kind = "pass" -> below[step.index]
          [] OTHER -> Throw]

AlongTypes == INSTANCE Recursion WITH Step <- TypesStep
AlongOutputs == INSTANCE Recursion WITH Step <- OutputsStep
AlongColumns == INSTANCE Recursion WITH Step <- ColumnsStep
AlongReferences == INSTANCE Recursion WITH Step <- ReferencesStep
AlongResolve == INSTANCE Recursion WITH Step <- ResolveStep

\* The types of the outputs are those the operator gives them; so below.
LEMMA TypesUnfold ==
    ASSUME NEW p, Len(p) \in Nat
    PROVE  /\ Types(p)[0] = <<>>
           /\ \A n \in 1..Len(p) : Types(p)[n] = TypesOf(p[n], Types(p)[n - 1])
<1> DEFINE is(f) == f = [n \in 0..Len(p) |-> IF n = 0 THEN <<>> ELSE TypesOf(p[n], f[n - 1])]
           rec == CHOOSE f : is(f)
<1>1. \E f : AlongTypes!IsIterated(f, p, Len(p))
  BY AlongTypes!IterationExists
<1>2. \E f : is(f)
  BY <1>1, Zenon DEF AlongTypes!IsIterated, TypesStep
<1>3. is(rec)
  BY <1>2, Zenon
<1>4. Types(p) = rec
  BY Zenon DEF Types
<1>5. \A n \in 0..Len(p) : rec[n] = IF n = 0 THEN <<>> ELSE TypesOf(p[n], rec[n - 1])
  BY <1>3, Zenon
<1> HIDE DEF rec
<1>6. 0 \in 0..Len(p) /\ \A n \in 1..Len(p) : n \in 0..Len(p) /\ n # 0
  OBVIOUS
<1> QED BY <1>4, <1>5, <1>6, Zenon

LEMMA OutputsUnfold ==
    ASSUME NEW p, Len(p) \in Nat, NEW row
    PROVE  /\ Outputs(p, row)[0] = <<>>
           /\ \A n \in 1..Len(p) : Outputs(p, row)[n] = OutputsOf(p[n], Outputs(p, row)[n - 1], row)
<1> DEFINE is(f) == f = [n \in 0..Len(p) |-> IF n = 0 THEN <<>> ELSE OutputsOf(p[n], f[n - 1], row)]
           rec == CHOOSE f : is(f)
<1>0. PICK q : q = <<p, row>>
  OBVIOUS
<1>1. q[1] = p /\ q[2] = row
  BY <1>0
<1>2. \E f : AlongOutputs!IsIterated(f, q, Len(p))
  BY AlongOutputs!IterationExists
<1>3. \E f : is(f)
  BY <1>1, <1>2, Zenon DEF AlongOutputs!IsIterated, OutputsStep
<1>4. is(rec)
  BY <1>3, Zenon
<1>5. Outputs(p, row) = rec
  BY Zenon DEF Outputs
<1>6. \A n \in 0..Len(p) : rec[n] = IF n = 0 THEN <<>> ELSE OutputsOf(p[n], rec[n - 1], row)
  BY <1>4, Zenon
<1> HIDE DEF rec
<1>7. 0 \in 0..Len(p) /\ \A n \in 1..Len(p) : n \in 0..Len(p) /\ n # 0
  OBVIOUS
<1> QED BY <1>5, <1>6, <1>7, Zenon

LEMMA ColumnsUnfold ==
    ASSUME Len(plan) \in Nat
    PROVE  \A n \in 1..Len(plan) : TraceColumns[n] = ColumnsStep(0, n, TraceColumns[n - 1])
<1> DEFINE is(f) == f = [n \in 0..Len(plan) |-> IF n = 0 THEN <<>> ELSE ColumnsStep(0, n, f[n - 1])]
           rec == CHOOSE f : is(f)
<1>1. \E f : AlongColumns!IsIterated(f, 0, Len(plan))
  BY AlongColumns!IterationExists
<1>2. \E f : is(f)
  BY <1>1, Zenon DEF AlongColumns!IsIterated
<1>3. is(rec)
  BY <1>2, Zenon
<1>4. TraceColumns = rec
  BY Zenon DEF TraceColumns, ColumnsStep
<1>5. \A n \in 0..Len(plan) : rec[n] = IF n = 0 THEN <<>> ELSE ColumnsStep(0, n, rec[n - 1])
  BY <1>3, Zenon
<1> HIDE DEF rec
<1>6. \A n \in 1..Len(plan) : n \in 0..Len(plan) /\ n # 0
  OBVIOUS
<1> QED BY <1>4, <1>5, <1>6, Zenon

LEMMA ReferencesUnfold ==
    ASSUME Len(plan) \in Nat
    PROVE  \A n \in 1..Len(plan) : TraceReferences[n] = ReferencesStep(0, n, TraceReferences[n - 1])
<1> DEFINE is(f) == f = [n \in 0..Len(plan) |-> IF n = 0 THEN <<>> ELSE ReferencesStep(0, n, f[n - 1])]
           rec == CHOOSE f : is(f)
<1>1. \E f : AlongReferences!IsIterated(f, 0, Len(plan))
  BY AlongReferences!IterationExists
<1>2. \E f : is(f)
  BY <1>1, Zenon DEF AlongReferences!IsIterated
<1>3. is(rec)
  BY <1>2, Zenon
<1>4. TraceReferences = rec
  BY Zenon DEF TraceReferences, ReferencesStep
<1>5. \A n \in 0..Len(plan) : rec[n] = IF n = 0 THEN <<>> ELSE ReferencesStep(0, n, rec[n - 1])
  BY <1>3, Zenon
<1> HIDE DEF rec
<1>6. \A n \in 1..Len(plan) : n \in 0..Len(plan) /\ n # 0
  OBVIOUS
<1> QED BY <1>4, <1>5, <1>6, Zenon

LEMMA ResolveUnfold ==
    ASSUME Len(plan) \in Nat
    PROVE  \A n \in 1..Len(plan) : ResolveOutput[n] = ResolveStep(0, n, ResolveOutput[n - 1])
<1> DEFINE is(f) == f = [n \in 0..Len(plan) |-> IF n = 0 THEN <<>> ELSE ResolveStep(0, n, f[n - 1])]
           rec == CHOOSE f : is(f)
<1>1. \E f : AlongResolve!IsIterated(f, 0, Len(plan))
  BY AlongResolve!IterationExists
<1>2. \E f : is(f)
  BY <1>1, Zenon DEF AlongResolve!IsIterated
<1>3. is(rec)
  BY <1>2, Zenon
<1>4. ResolveOutput = rec
  BY Zenon DEF ResolveOutput, ResolveStep
<1>5. \A n \in 0..Len(plan) : rec[n] = IF n = 0 THEN <<>> ELSE ResolveStep(0, n, rec[n - 1])
  BY <1>3, Zenon
<1> HIDE DEF rec
<1>6. \A n \in 1..Len(plan) : n \in 0..Len(plan) /\ n # 0
  OBVIOUS
<1> QED BY <1>4, <1>5, <1>6, Zenon

-----------------------------------------------------------------------------
(* The invariant: what DuckDB's planner may have put together.             *)

\* The expressions over inputs with these indexes, and the filters of a column.
BoundTrees(indexes) == UNION {S \in SUBSET Trees : AreBound(S, indexes)}
FilterTrees(column) == UNION {S \in SUBSET Trees : AreFilters(S, column)}

\* BoundTrees() is closed, and has each node over its members that may be bound.
LEMMA BoundTreesBound ==
    ASSUME NEW indexes
    PROVE  AreBound(BoundTrees(indexes), indexes)
<1>1. BoundTrees(indexes) \subseteq Trees
  BY Zenon DEF BoundTrees
<1>2. ASSUME NEW e \in BoundTrees(indexes)
      PROVE  IsExpressionNode(e, indexes) /\ \A i \in DOMAIN e.args : e.args[i] \in BoundTrees(indexes)
  <2>1. PICK S \in SUBSET Trees : AreBound(S, indexes) /\ e \in S
    BY Zenon DEF BoundTrees
  <2>2. S \subseteq BoundTrees(indexes)
    BY <2>1, Zenon DEF BoundTrees
  <2>3. IsExpressionNode(e, indexes) /\ \A i \in DOMAIN e.args : e.args[i] \in S
    BY <2>1, Zenon DEF AreBound
  <2> QED BY <2>2, <2>3, Zenon
<1> QED BY <1>1, <1>2, Zenon DEF AreBound

LEMMA BoundNode ==
    ASSUME NEW indexes, NEW e \in Trees, IsExpressionNode(e, indexes),
           \A i \in DOMAIN e.args : e.args[i] \in BoundTrees(indexes)
    PROVE  e \in BoundTrees(indexes)
<1>1. PICK S : S = BoundTrees(indexes) \cup {e}
  OBVIOUS
<1>2. AreBound(S, indexes)
  <2>1. AreBound(BoundTrees(indexes), indexes)
    BY BoundTreesBound, Zenon
  <2> QED BY <1>1, <2>1, Zenon DEF AreBound
<1>3. S \subseteq Trees /\ e \in S
  BY <1>1, <1>2, Zenon DEF AreBound
<1> QED BY <1>2, <1>3, Zenon DEF BoundTrees

\* FilterTrees() is closed, and has each node over its members that may be a
\* filter.
LEMMA FilterTreesFilters ==
    ASSUME NEW column
    PROVE  AreFilters(FilterTrees(column), column)
<1>1. FilterTrees(column) \subseteq Trees
  BY Zenon DEF FilterTrees
<1>2. ASSUME NEW e \in FilterTrees(column)
      PROVE  IsFilterNode(e, column) /\ \A i \in DOMAIN e.args : e.args[i] \in FilterTrees(column)
  <2>1. PICK S \in SUBSET Trees : AreFilters(S, column) /\ e \in S
    BY Zenon DEF FilterTrees
  <2>2. S \subseteq FilterTrees(column)
    BY <2>1, Zenon DEF FilterTrees
  <2>3. IsFilterNode(e, column) /\ \A i \in DOMAIN e.args : e.args[i] \in S
    BY <2>1, Zenon DEF AreFilters
  <2> QED BY <2>2, <2>3, Zenon
<1> QED BY <1>1, <1>2, Zenon DEF AreFilters

LEMMA FilterNode ==
    ASSUME NEW column, NEW e \in Trees, IsFilterNode(e, column),
           \A i \in DOMAIN e.args : e.args[i] \in FilterTrees(column)
    PROVE  e \in FilterTrees(column)
<1>1. PICK S : S = FilterTrees(column) \cup {e}
  OBVIOUS
<1>2. AreFilters(S, column)
  <2>1. AreFilters(FilterTrees(column), column)
    BY FilterTreesFilters, Zenon
  <2> QED BY <1>1, <2>1, Zenon DEF AreFilters
<1>3. S \subseteq Trees /\ e \in S
  BY <1>1, <1>2, Zenon DEF AreFilters
<1> QED BY <1>2, <1>3, Zenon DEF FilterTrees

\* Leaf(c) for a table with these columns.
LeafOf(columns, c) ==
    IF columns[c].kind \in {"uuid", "enum"} THEN Node(columns[c].kind, c, <<>>) ELSE Column(c)

\* A leaf depends on the columns of the table only.
LEMMA LeafIs == \A c : Leaf(c) = LeafOf(table.columns, c)
BY Zenon DEF Leaf, LeafOf, Kind

\* A scan's filter is one of the column at its position.
ScanFilters(ids, columns) ==
    {f \in [position : DOMAIN ids, expr : Trees] :
        ids[f.position] # 0 => f.expr \in FilterTrees(LeafOf(columns, ids[f.position]))}

IsGet(op, columns) ==
    /\ op = [type |-> "get", ids |-> op.ids, map |-> op.map, filters |-> op.filters]
    /\ op.ids \in Seq({0} \cup DOMAIN columns) /\ op.ids # <<>>
    /\ op.map \in Seq(DOMAIN op.ids)
    /\ op.filters \in Seq(ScanFilters(op.ids, columns))

IsFilter(op, indexes) ==
    /\ op = [type |-> "filter", exprs |-> op.exprs, map |-> op.map]
    /\ op.exprs \in Seq(BoundTrees(indexes)) /\ op.exprs # <<>>
    /\ op.map \in Seq(indexes)

IsProjection(op, indexes) ==
    op.exprs \in Seq(BoundTrees(indexes)) /\ op.exprs # <<>>

IsMark(op, indexes) ==
    /\ op = [type |-> "mark", left |-> op.left, constants |-> op.constants, map |-> op.map, exact |-> op.exact]
    /\ op.left \in BoundTrees(indexes)
    /\ op.constants \in Seq(Int \cup {Null})
    /\ op.map \in Seq(indexes)

\* plan[n], over an operator whose outputs have these indexes.
IsOperator(op, n, indexes, columns) ==
    /\ op.type = "get" <=> n = 1
    /\ op.type = "get" => IsGet(op, columns)
    /\ op.type = "filter" => IsFilter(op, indexes)
    /\ op.type = "projection" => IsProjection(op, indexes)
    /\ op.type = "mark" => IsMark(op, indexes)
    /\ op.type = "top_n" => op.order \in indexes

IsPlan(p, columns) ==
    /\ IsTuple(p) /\ Len(p) >= 1
    /\ \A n \in 1..Len(p) : IsOperator(p[n], n, DOMAIN Types(p)[n - 1], columns)

\* An expression refers to outputs that the operator below it has.
PlanInv ==
    /\ DOMAIN table.columns \subseteq Nat \ {0}
    /\ IsPlan(plan, table.columns)

-----------------------------------------------------------------------------
(* The outputs of operators.                                               *)

OutputTypes == Seq({"value", "truth"}) \ {<<>>}

\* What an operator with a map passes on.
LEMMA KeptValue ==
    ASSUME NEW map, NEW below, IsTuple(below), map \in Seq(1..Len(below)),
           NEW width, width = IF map = <<>> THEN Len(below) ELSE Len(map)
    PROVE  /\ width \in Nat /\ (Len(below) > 0 => width > 0)
           /\ IsTuple(Kept(map, below)) /\ Len(Kept(map, below)) = width
           /\ \A i \in 1..width : Mapped(map, i) \in 1..Len(below) /\ Kept(map, below)[i] = below[Mapped(map, i)]
           /\ \A n : n = Len(below) => Len(Through(map, n)) = width
<1>0. Len(below) \in Nat
  BY DEF IsTuple
<1>1. CASE map = <<>>
  <2>1. PICK t : t = [i \in 1..Len(below) |-> i]
    OBVIOUS
  <2>2. Through(map, Len(below)) = t
    BY <1>1, <2>1, Zenon DEF Through
  <2>3. Kept(map, below) = [i \in DOMAIN t |-> below[t[i]]]
    BY <2>2, Zenon DEF Kept
  <2>4. PICK k : k = Kept(map, below)
    OBVIOUS
  <2>5. DOMAIN k = 1..width /\ width \in Nat /\ \A i \in 1..width : k[i] = below[i]
    BY <1>0, <1>1, <2>1, <2>3, <2>4
  <2>6. k = [i \in 1..width |-> k[i]]
    BY <1>0, <1>1, <2>1, <2>3, <2>4
  <2>7. IsTuple(k) /\ Len(k) = width
    BY ONLY <2>5, <2>6, TupleOf
  <2>8. Len(t) = width
    <3>1. DOMAIN t = 1..width /\ t = [i \in 1..width |-> t[i]]
      BY <1>0, <1>1, <2>1
    <3> QED BY ONLY <2>5, <3>1, TupleOf
  <2>9. \A i \in 1..width : Mapped(map, i) = i
    BY <1>1, Zenon DEF Mapped
  <2>10. width = Len(below)
    BY <1>1
  <2> QED BY ONLY <2>2, <2>4, <2>5, <2>7, <2>8, <2>9, <2>10
<1>2. CASE map # <<>>
  <2>2. \A n : Through(map, n) = map
    BY <1>2, Zenon DEF Through
  <2>3. Kept(map, below) = [i \in DOMAIN map |-> below[map[i]]]
    <3>1. Through(map, Len(below)) = map
      BY <2>2, Zenon
    <3> QED BY <3>1, Zenon DEF Kept
  <2>4. PICK k : k = Kept(map, below)
    OBVIOUS
  <2>5. width = Len(map) /\ width \in Nat /\ width > 0 /\ DOMAIN map = 1..width /\ \A i \in 1..width : map[i] \in 1..Len(below)
    BY <1>0, <1>2
  <2>6. DOMAIN k = 1..width /\ (\A i \in 1..width : k[i] = below[map[i]]) /\ k = [i \in 1..width |-> k[i]]
    BY ONLY <2>3, <2>4, <2>5
  <2>7. IsTuple(k) /\ Len(k) = width
    BY ONLY <2>5, <2>6, TupleOf
  <2>9. \A i \in 1..width : Mapped(map, i) = map[i]
    BY <1>2, Zenon DEF Mapped
  <2> QED BY ONLY <2>2, <2>4, <2>5, <2>6, <2>7, <2>9
<1> QED BY <1>1, <1>2

\* A tuple of members of S is a sequence over S.
LEMMA TupleSeq ==
    ASSUME NEW s, IsTuple(s), NEW S, \A i \in 1..Len(s) : s[i] \in S
    PROVE  s \in Seq(S) /\ (Len(s) > 0 => s # <<>>)
BY DEF IsTuple

\* The type of a projection's output.
TypeOf(e, below) ==
    IF e.op = "ref" THEN below[e.info] ELSE IF e.op \in {"constant", "coalesce"} THEN "value" ELSE "truth"

\* TypesOf(), case by case.
LEMMA TypesCases ==
    ASSUME NEW op, NEW below
    PROVE  /\ op.type = "get" => TypesOf(op, below) = [i \in DOMAIN Through(op.map, Len(op.ids)) |-> "value"]
           /\ op.type = "filter" => TypesOf(op, below) = Kept(op.map, below)
           /\ op.type = "projection" => TypesOf(op, below) = [i \in DOMAIN op.exprs |-> TypeOf(op.exprs[i], below)]
           /\ op.type = "mark" => TypesOf(op, below) = Append(Kept(op.map, below), "truth")
           /\ op.type \notin {"get", "filter", "projection", "mark"} => TypesOf(op, below) = below
<1>1. op.type = "get" => TypesOf(op, below) = [i \in DOMAIN Through(op.map, Len(op.ids)) |-> "value"]
  BY DEF TypesOf
<1>2. op.type = "filter" => TypesOf(op, below) = Kept(op.map, below)
  BY DEF TypesOf
<1>3. op.type = "projection" => TypesOf(op, below) = [i \in DOMAIN op.exprs |-> TypeOf(op.exprs[i], below)]
  BY DEF TypesOf, TypeOf
<1>4. op.type = "mark" => TypesOf(op, below) = Append(Kept(op.map, below), "truth")
  BY DEF TypesOf
<1>5. op.type \notin {"get", "filter", "projection", "mark"} => TypesOf(op, below) = below
  BY DEF TypesOf
<1> QED BY ONLY <1>1, <1>2, <1>3, <1>4, <1>5, Zenon

\* An operator has at least one output, each a value or a truth value.
LEMMA KeptTypes ==
    ASSUME NEW map, NEW below \in OutputTypes, map \in Seq(DOMAIN below)
    PROVE  Kept(map, below) \in OutputTypes
<1>1. below \in Seq({"value", "truth"}) /\ Len(below) > 0 /\ DOMAIN below = 1..Len(below)
  BY DEF OutputTypes
<1>2. IsTuple(below)
  BY ONLY <1>1, SeqTuple
<1>3. PICK width : width = IF map = <<>> THEN Len(below) ELSE Len(map)
  OBVIOUS
<1>4. map \in Seq(1..Len(below))
  BY <1>1, Zenon
<1>5. /\ width \in Nat /\ (Len(below) > 0 => width > 0)
      /\ IsTuple(Kept(map, below)) /\ Len(Kept(map, below)) = width
      /\ \A i \in 1..width : Mapped(map, i) \in 1..Len(below) /\ Kept(map, below)[i] = below[Mapped(map, i)]
  BY ONLY <1>2, <1>3, <1>4, KeptValue
<1>6. \A i \in 1..Len(Kept(map, below)) : Kept(map, below)[i] \in {"value", "truth"}
  BY ONLY <1>1, <1>5
<1>7. Kept(map, below) \in Seq({"value", "truth"}) /\ Kept(map, below) # <<>>
  BY ONLY <1>1, <1>5, <1>6, TupleSeq
<1> QED BY <1>7, Zenon DEF OutputTypes

LEMMA TypesOfTyped ==
    ASSUME NEW op, NEW n, NEW below, NEW columns, IsOperator(op, n, DOMAIN below, columns),
           n # 1 => below \in OutputTypes
    PROVE  TypesOf(op, below) \in OutputTypes
<1>1. CASE op.type = "get"
  <2>1. /\ op.ids \in Seq({0} \cup DOMAIN columns) /\ op.ids # <<>> /\ op.map \in Seq(DOMAIN op.ids)
    BY <1>1 DEF IsOperator, IsGet
  <2>2. PICK k \in Nat : k > 0 /\ DOMAIN Through(op.map, Len(op.ids)) = 1..k
    <3>1. CASE op.map = <<>>
      <4>1. Through(op.map, Len(op.ids)) = [i \in 1..Len(op.ids) |-> i]
        BY <3>1, Zenon DEF Through
      <4> QED BY <2>1, <4>1
    <3>2. CASE op.map # <<>>
      <4>1. Through(op.map, Len(op.ids)) = op.map
        BY <3>2, Zenon DEF Through
      <4> QED BY <2>1, <3>2, <4>1
    <3> QED BY <3>1, <3>2
  <2>3. TypesOf(op, below) = [i \in 1..k |-> "value"]
    <3>1. TypesOf(op, below) = [i \in DOMAIN Through(op.map, Len(op.ids)) |-> "value"]
      BY <1>1, TypesCases, Zenon
    <3> QED BY <2>2, <3>1, Zenon
  <2>4. [i \in 1..k |-> "value"] \in Seq({"value", "truth"}) /\ [i \in 1..k |-> "value"] # <<>>
    BY ONLY <2>2, k \in Nat
  <2> QED BY <2>3, <2>4, Zenon DEF OutputTypes
<1>2. CASE op.type # "get"
  <2>1. below \in OutputTypes
    BY <1>2 DEF IsOperator
  <2>2. CASE op.type = "filter"
    <3>1. op.map \in Seq(DOMAIN below)
      BY <2>2 DEF IsOperator, IsFilter
    <3>2. TypesOf(op, below) = Kept(op.map, below)
      BY <2>2, TypesCases, Zenon
    <3> QED BY <2>1, <3>1, <3>2, KeptTypes, Zenon
  <2>3. CASE op.type = "projection"
    <3>1. op.exprs \in Seq(BoundTrees(DOMAIN below)) /\ op.exprs # <<>>
      BY <2>3 DEF IsOperator, IsProjection
    <3>2. TypesOf(op, below) = [i \in DOMAIN op.exprs |-> TypeOf(op.exprs[i], below)]
      BY <2>3, TypesCases, Zenon
    <3>3. ASSUME NEW e \in BoundTrees(DOMAIN below) PROVE TypeOf(e, below) \in {"value", "truth"}
      <4>1. AreBound(BoundTrees(DOMAIN below), DOMAIN below)
        BY BoundTreesBound, Zenon
      <4>2. e.op = "ref" => e.info \in DOMAIN below
        BY <4>1 DEF AreBound, IsExpressionNode
      <4>3. \A i \in DOMAIN below : below[i] \in {"value", "truth"}
        BY <2>1 DEF OutputTypes
      <4> QED BY <4>2, <4>3 DEF TypeOf
    <3>4. [i \in DOMAIN op.exprs |-> TypeOf(op.exprs[i], below)] \in Seq({"value", "truth"})
      BY ONLY <3>1, <3>3
    <3>5. [i \in DOMAIN op.exprs |-> TypeOf(op.exprs[i], below)] # <<>>
      BY ONLY <3>1
    <3> QED BY <3>2, <3>4, <3>5, Zenon DEF OutputTypes
  <2>4. CASE op.type = "mark"
    <3>1. op.map \in Seq(DOMAIN below)
      BY <2>4 DEF IsOperator, IsMark
    <3>2. TypesOf(op, below) = Append(Kept(op.map, below), "truth")
      BY <2>4, TypesCases, Zenon
    <3>3. Kept(op.map, below) \in OutputTypes
      BY <2>1, <3>1, KeptTypes, Zenon
    <3>4. PICK k : k = Kept(op.map, below)
      OBVIOUS
    <3>5. k \in Seq({"value", "truth"})
      BY <3>3, <3>4, Zenon DEF OutputTypes
    <3>6. Append(k, "truth") \in Seq({"value", "truth"}) /\ Append(k, "truth") # <<>>
      BY ONLY <3>5
    <3> QED BY <3>2, <3>4, <3>6, Zenon DEF OutputTypes
  <2>5. CASE op.type \notin {"get", "filter", "projection", "mark"}
    BY <2>1, <2>5, TypesCases, Zenon
  <2> QED BY <1>2, <2>2, <2>3, <2>4, <2>5
<1> QED BY <1>1, <1>2

\* Every operator of a plan has outputs.
LEMMA TypesTyped ==
    ASSUME NEW p, NEW columns, IsPlan(p, columns)
    PROVE  \A n \in 1..Len(p) : Types(p)[n] \in OutputTypes
<1> DEFINE Bad == {n \in 1..Len(p) : Types(p)[n] \notin OutputTypes}
<1> SUFFICES ASSUME Bad # {} PROVE FALSE
  BY Zenon
<1>1. Len(p) \in Nat
  BY DEF IsPlan, IsTuple
<1>2. PICK n \in Bad : \A m \in Bad : n <= m
  <2>1. Bad \subseteq Nat
    OBVIOUS
  <2> HIDE DEF Bad
  <2> QED BY <2>1, AlongTypes!LeastNatural
<1>3. n \in 1..Len(p) /\ Types(p)[n] \notin OutputTypes
  BY <1>2, Zenon
<1>4. n # 1 => Types(p)[n - 1] \in OutputTypes
  <2> SUFFICES ASSUME n # 1 PROVE Types(p)[n - 1] \in OutputTypes
    BY Zenon
  <2>1. n - 1 \in 1..Len(p) /\ ~(n <= n - 1)
    BY <1>1, <1>3
  <2>2. n - 1 \notin Bad
    BY <1>2, <2>1, Zenon
  <2> QED BY <2>1, <2>2, Zenon
<1>5. IsOperator(p[n], n, DOMAIN Types(p)[n - 1], columns)
  BY <1>3, Zenon DEF IsPlan
<1>6. Types(p)[n] = TypesOf(p[n], Types(p)[n - 1])
  BY <1>1, <1>3, TypesUnfold, Zenon
<1> QED BY <1>3, <1>4, <1>5, <1>6, TypesOfTyped, Zenon

\* The outputs of an operator depend on nothing above it.
LEMMA TypesPrefix ==
    ASSUME NEW p, NEW q, NEW m \in Nat, Len(p) \in Nat, Len(q) \in Nat, m <= Len(p), m <= Len(q),
           \A n \in 1..m : p[n] = q[n]
    PROVE  \A n \in 0..m : Types(p)[n] = Types(q)[n]
<1> DEFINE Bad == {n \in 0..m : Types(p)[n] # Types(q)[n]}
<1> SUFFICES ASSUME Bad # {} PROVE FALSE
  BY Zenon
<1>1. PICK n \in Bad : \A k \in Bad : n <= k
  <2>1. Bad \subseteq Nat
    OBVIOUS
  <2> HIDE DEF Bad
  <2> QED BY <2>1, AlongTypes!LeastNatural
<1>2. n \in 0..m /\ Types(p)[n] # Types(q)[n]
  BY <1>1, Zenon
<1>3. CASE n = 0
  BY <1>2, <1>3, TypesUnfold, Zenon
<1>4. CASE n # 0
  <2>1. n \in 1..m /\ n \in 1..Len(p) /\ n \in 1..Len(q) /\ n - 1 \in 0..m /\ ~(n <= n - 1)
    BY <1>2, <1>4
  <2>2. Types(p)[n - 1] = Types(q)[n - 1]
    BY <1>1, <2>1, Zenon
  <2>3. Types(p)[n] = TypesOf(p[n], Types(p)[n - 1]) /\ Types(q)[n] = TypesOf(q[n], Types(q)[n - 1])
    BY <2>1, TypesUnfold, Zenon
  <2>4. p[n] = q[n]
    BY <2>1, Zenon
  <2> QED BY ONLY <1>2, <2>2, <2>3, <2>4, Zenon
<1> QED BY <1>3, <1>4

\* A plan stays one with an operator over it, or with another in place of its
\* top.
LEMMA AppendPlan ==
    ASSUME NEW p, NEW columns, IsPlan(p, columns), NEW op,
           IsOperator(op, Len(p) + 1, DOMAIN Types(p)[Len(p)], columns)
    PROVE  IsPlan(Append(p, op), columns)
<1>1. PICK q : q = Append(p, op)
  OBVIOUS
<1>2. IsTuple(p) /\ Len(p) \in Nat /\ Len(p) >= 1
  BY DEF IsPlan, IsTuple
<1>3. /\ IsTuple(q) /\ Len(q) = Len(p) + 1
      /\ \A n \in 1..Len(p) : q[n] = p[n]
      /\ q[Len(p) + 1] = op
  BY <1>1, <1>2, TupleAppend
<1>4. \A n \in 0..Len(p) : Types(q)[n] = Types(p)[n]
  BY <1>2, <1>3, TypesPrefix
<1>5. ASSUME NEW n \in 1..Len(q) PROVE IsOperator(q[n], n, DOMAIN Types(q)[n - 1], columns)
  <2>1. n - 1 \in 0..Len(p)
    BY <1>2, <1>3
  <2>2. Types(q)[n - 1] = Types(p)[n - 1]
    BY <1>4, <2>1, Zenon
  <2>3. CASE n = Len(p) + 1
    <3>1. n - 1 = Len(p)
      BY <1>2, <2>3
    <3> QED BY ONLY <1>3, <2>2, <2>3, <3>1, IsOperator(op, Len(p) + 1, DOMAIN Types(p)[Len(p)], columns), Zenon
  <2>4. CASE n # Len(p) + 1
    <3>1. n \in 1..Len(p)
      BY <1>2, <1>3, <2>4
    <3>2. IsOperator(p[n], n, DOMAIN Types(p)[n - 1], columns)
      BY <3>1, Zenon DEF IsPlan
    <3> QED BY ONLY <1>3, <2>2, <3>1, <3>2, Zenon
  <2> QED BY <2>3, <2>4
<1>6. Len(q) >= 1
  BY <1>2, <1>3
<1>7. IsPlan(q, columns)
  BY <1>3, <1>5, <1>6, Zenon DEF IsPlan
<1> QED BY <1>1, <1>7, Zenon

LEMMA ReplacePlan ==
    ASSUME NEW p, NEW columns, IsPlan(p, columns), NEW op,
           IsOperator(op, Len(p), DOMAIN Types(p)[Len(p) - 1], columns)
    PROVE  IsPlan([p EXCEPT ![Len(p)] = op], columns)
<1>1. PICK k \in Nat : k = Len(p)
  BY DEF IsPlan, IsTuple
<1>2. IsTuple(p) /\ k >= 1 /\ DOMAIN p = 1..k
  BY <1>1, TupleDomain DEF IsPlan
<1>3. PICK q : q = [p EXCEPT ![k] = op]
  OBVIOUS
<1>4. /\ DOMAIN q = 1..k /\ q = [i \in 1..k |-> q[i]]
      /\ \A n \in 1..k : q[n] = IF n = k THEN op ELSE p[n]
  BY ONLY k \in Nat, <1>2, <1>3
<1>5. IsTuple(q) /\ Len(q) = k
  BY ONLY k \in Nat, <1>4, TupleOf
<1>6. PICK m \in Nat : m = k - 1
  BY ONLY k \in Nat, <1>2
<1>7. \A n \in 0..m : Types(p)[n] = Types(q)[n]
  <2>1. m <= k /\ \A n \in 1..m : p[n] = q[n]
    BY ONLY k \in Nat, m \in Nat, <1>4, <1>6
  <2>2. Len(p) \in Nat /\ Len(q) \in Nat /\ m <= Len(p) /\ m <= Len(q)
    BY ONLY k \in Nat, <1>1, <1>5, <2>1
  <2> QED BY ONLY m \in Nat, <2>1, <2>2, TypesPrefix
<1>8. ASSUME NEW n \in 1..k PROVE IsOperator(q[n], n, DOMAIN Types(q)[n - 1], columns)
  <2>1. n - 1 \in 0..m /\ (n = k => n - 1 = m)
    BY ONLY k \in Nat, m \in Nat, n \in 1..k, <1>6
  <2>2. Types(q)[n - 1] = Types(p)[n - 1]
    BY <1>7, <2>1, Zenon
  <2>3. IsOperator(p[n], n, DOMAIN Types(p)[n - 1], columns)
    BY <1>1, Zenon DEF IsPlan
  <2>4. IsOperator(op, k, DOMAIN Types(p)[k - 1], columns)
    BY <1>1, Zenon
  <2> QED BY ONLY n \in 1..k, <1>4, <2>2, <2>3, <2>4, Zenon
<1>9. IsPlan(q, columns)
  BY <1>2, <1>5, <1>8, Zenon DEF IsPlan
<1> QED BY <1>1, <1>3, <1>9, Zenon

-----------------------------------------------------------------------------
(* The planner keeps the invariant.                                        *)

\* The arguments of a condition: what it is asked of, and constants.
LEMMA ConsList ==
    ASSUME NEW S, NEW s \in Seq(S), NEW x
    PROVE  /\ IsTuple(<<x>> \o s)
           /\ Len(<<x>> \o s) = Len(s) + 1
           /\ (<<x>> \o s)[1] = x
           /\ \A i \in 2..(Len(s) + 1) : i - 1 \in DOMAIN s /\ (<<x>> \o s)[i] = s[i - 1]
<1>1. PICK T : T = S \cup {x}
  OBVIOUS
<1>2. s \in Seq(T) /\ <<x>> \in Seq(T) /\ Len(<<x>>) = 1 /\ <<x>>[1] = x
  BY <1>1
<1>3. PICK t : t = <<x>>
  OBVIOUS
<1>4. t \in Seq(T) /\ Len(t) = 1 /\ t[1] = x
  BY ONLY <1>2, <1>3, Zenon
<1>5. /\ t \o s \in Seq(T) /\ Len(t \o s) = Len(s) + 1
      /\ \A i \in 1..(Len(s) + 1) : (t \o s)[i] = IF i <= 1 THEN t[i] ELSE s[i - 1]
  <2>1. /\ t \o s \in Seq(T) /\ Len(t \o s) = Len(t) + Len(s)
        /\ \A i \in 1..(Len(t) + Len(s)) : (t \o s)[i] = IF i <= Len(t) THEN t[i] ELSE s[i - Len(t)]
    BY <1>2, <1>4, ConcatProperties, Zenon
  <2>2. Len(t) + Len(s) = Len(s) + 1
    BY ONLY <1>2, <1>4
  <2> QED BY ONLY <1>4, <2>1, <2>2, Zenon
<1>6. (t \o s)[1] = x
  BY ONLY <1>2, <1>4, <1>5
<1>7. \A i \in 2..(Len(s) + 1) : i - 1 \in DOMAIN s /\ (t \o s)[i] = s[i - 1]
  BY ONLY <1>2, <1>5
<1>8. IsTuple(t \o s)
  BY ONLY <1>5, SeqTuple
<1> QED BY ONLY <1>3, <1>5, <1>6, <1>7, <1>8, Zenon

\* The condition c of x.
IsConditionOf(e, x, c) ==
    /\ e = Node(c[1], 0, e.args) /\ e.op = c[1]
    /\ DOMAIN e.args = 1..(Len(c[2]) + 1) /\ Len(c[2]) \in Nat
    /\ e.args = [i \in 1..(Len(c[2]) + 1) |-> e.args[i]]
    /\ e.args[1] = x
    /\ \A i \in 2..(Len(c[2]) + 1) : i - 1 \in DOMAIN c[2] /\ e.args[i] = Constant(c[2][i - 1])

LEMMA ConditionArgs ==
    ASSUME NEW x, NEW c, NEW constants, IsCondition(c, constants)
    PROVE  IsConditionOf(Condition(x, c), x, c)
<1>1. c[2] \in Seq(constants)
  BY Zenon DEF IsCondition
<1>2. PICK list, args, e : /\ list = [i \in DOMAIN c[2] |-> Constant(c[2][i])]
                           /\ args = <<x>> \o list
                           /\ e = Node(c[1], 0, args)
  OBVIOUS
<1>3. Condition(x, c) = e
  BY <1>2, Zenon DEF Condition
<1>4. e.op = c[1] /\ e.info = 0 /\ e.args = args
  BY ONLY <1>2 DEF Node
<1>5. PICK S : S = {Constant(v) : v \in constants}
  OBVIOUS
<1>6. list \in Seq(S) /\ Len(list) = Len(c[2]) /\ Len(c[2]) \in Nat
  <2>1. DOMAIN list = 1..Len(c[2]) /\ Len(c[2]) \in Nat /\ DOMAIN c[2] = 1..Len(c[2])
    BY ONLY <1>1, <1>2
  <2>2. list = [i \in 1..Len(c[2]) |-> list[i]]
    BY ONLY <1>2, <2>1
  <2>3. IsTuple(list) /\ Len(list) = Len(c[2])
    BY ONLY <2>1, <2>2, TupleOf
  <2>4. \A i \in 1..Len(list) : list[i] \in S
    BY ONLY <1>1, <1>2, <1>5, <2>1, <2>3
  <2> QED BY ONLY <2>1, <2>3, <2>4, TupleSeq
<1>7. /\ IsTuple(args) /\ Len(args) = Len(list) + 1 /\ args[1] = x
      /\ \A i \in 2..(Len(list) + 1) : i - 1 \in DOMAIN list /\ args[i] = list[i - 1]
  BY ONLY <1>2, <1>6, ConsList
<1>8. DOMAIN args = 1..(Len(c[2]) + 1) /\ args = [i \in 1..(Len(c[2]) + 1) |-> args[i]]
  BY <1>6, <1>7, TupleDomain DEF IsTuple
<1>9. \A i \in 2..(Len(c[2]) + 1) : i - 1 \in DOMAIN c[2] /\ args[i] = Constant(c[2][i - 1])
  BY ONLY <1>2, <1>6, <1>7
<1>10. Condition(x, c) = e /\ e = Node(c[1], 0, e.args)
  BY ONLY <1>2, <1>3, <1>4, Zenon
<1>11. IsConditionOf(e, x, c)
  BY ONLY <1>10, <1>4, <1>6, <1>7, <1>8, <1>9, Zenon DEF IsConditionOf
<1> QED BY ONLY <1>10, <1>11, Zenon

\* A condition is an expression, refers to what it is asked of, and may be a
\* filter.
LEMMA ConditionTree ==
    ASSUME AreExpressions, NEW x \in Trees, NEW c, NEW constants, IsCondition(c, constants),
           constants \subseteq Int \cup {Null}
    PROVE  Condition(x, c) \in Trees
<1>1. PICK e : e = Condition(x, c)
  OBVIOUS
<1>2. /\ e = Node(c[1], 0, e.args)
      /\ DOMAIN e.args = 1..(Len(c[2]) + 1) /\ Len(c[2]) \in Nat
      /\ e.args = [i \in 1..(Len(c[2]) + 1) |-> e.args[i]]
      /\ e.args[1] = x
      /\ \A i \in 2..(Len(c[2]) + 1) : i - 1 \in DOMAIN c[2] /\ e.args[i] = Constant(c[2][i - 1])
  <2>1. IsConditionOf(e, x, c)
    BY <1>1, ConditionArgs, Zenon
  <2> QED BY ONLY <2>1, Zenon DEF IsConditionOf
<1>3. c[1] \in Ops /\ c[2] \in Seq(constants)
  BY DEF IsCondition, Ops
<1>4. 0 \in Infos /\ constants \subseteq Infos
  BY NodeOps
<1>5. \A v \in constants : Constant(v) \in Trees
  <2>1. "constant" \in Ops
    BY DEF Ops
  <2> QED BY <1>4, <2>1, LeafTree DEF Constant
<1>6. PICK k, args : k = c[2] /\ args = e.args
  OBVIOUS
<1>7. PICK n : n = Len(k) + 1
  OBVIOUS
<1>8. n \in Nat /\ args \in [1..n -> Trees]
  <2>1. Len(k) \in Nat /\ DOMAIN args = 1..n /\ args = [i \in 1..n |-> args[i]]
    BY ONLY <1>2, <1>6, <1>7, Zenon
  <2>2. args[1] \in Trees
    BY ONLY x \in Trees, <1>2, <1>6, Zenon
  <2>3. ASSUME NEW i \in 2..n PROVE args[i] \in Trees
    <3>1. i - 1 \in DOMAIN k /\ args[i] = Constant(k[i - 1])
      BY ONLY i \in 2..n, <1>2, <1>6, <1>7, Zenon
    <3>2. k[i - 1] \in constants
      BY ONLY <1>3, <1>6, <3>1
    <3> QED BY ONLY <1>5, <3>1, <3>2, Zenon
  <2>4. n \in Nat
    BY ONLY <1>7, <2>1
  <2> QED BY ONLY <2>1, <2>2, <2>3, <2>4
<1>9. Node(c[1], 0, e.args) \in Trees
  <2>1. 1..n \in SUBSET (1..n)
    OBVIOUS
  <2> QED BY ONLY AreExpressions, <1>3, <1>4, <1>6, <1>8, <2>1, TreeOver
<1> QED BY <1>1, <1>2, <1>9, Zenon

\* A constant refers to nothing.
LEMMA ConstantBound ==
    ASSUME AreExpressions, NEW indexes, NEW v \in Infos
    PROVE  Constant(v) \in BoundTrees(indexes)
<1>1. PICK e : e = Constant(v)
  OBVIOUS
<1>2. e.op = "constant" /\ DOMAIN e.args = {}
  BY ONLY <1>1 DEF Constant, Node
<1>3. e \in Trees
  <2>1. "constant" \in Ops
    BY DEF Ops
  <2> QED BY <1>1, <2>1, LeafTree DEF Constant
<1>4. IsExpressionNode(e, indexes)
  BY <1>2 DEF IsExpressionNode, Comparisons, Ordered
<1>5. e \in BoundTrees(indexes)
  BY ONLY <1>2, <1>3, <1>4, BoundNode
<1> QED BY <1>1, <1>5, Zenon

LEMMA ConditionBound ==
    ASSUME AreExpressions, NEW indexes, NEW x \in BoundTrees(indexes), NEW c, IsCondition(c, Int \cup {Null})
    PROVE  Condition(x, c) \in BoundTrees(indexes)
<1>0. PICK constants : constants = Int \cup {Null}
  OBVIOUS
<1>1. PICK e : e = Condition(x, c)
  OBVIOUS
<1>2. IsCondition(c, constants)
  BY <1>0, Zenon
<1>3. /\ e.op = c[1] /\ DOMAIN e.args = 1..(Len(c[2]) + 1) /\ Len(c[2]) \in Nat
      /\ e.args[1] = x
      /\ \A i \in 2..(Len(c[2]) + 1) : i - 1 \in DOMAIN c[2] /\ e.args[i] = Constant(c[2][i - 1])
  <2>1. IsConditionOf(e, x, c)
    BY <1>1, <1>2, ConditionArgs, Zenon
  <2> QED BY ONLY <2>1, Zenon DEF IsConditionOf
<1>4. x \in Trees
  BY Zenon DEF BoundTrees
<1>5. e \in Trees
  BY ONLY AreExpressions, <1>0, <1>1, <1>2, <1>4, ConditionTree
<1>6. IsExpressionNode(e, indexes)
  BY <1>3 DEF IsCondition, IsExpressionNode, Comparisons, Ordered, Hints
<1>7. \A v \in constants : Constant(v) \in BoundTrees(indexes)
  <2>1. constants \subseteq Infos
    BY <1>0, NodeOps
  <2> QED BY <2>1, ConstantBound, Zenon
<1>8. c[2] \in Seq(constants)
  BY <1>2, Zenon DEF IsCondition
<1>9. \A i \in DOMAIN e.args : e.args[i] \in BoundTrees(indexes)
  BY <1>3, <1>7, <1>8
<1>10. e \in BoundTrees(indexes)
  BY ONLY <1>5, <1>6, <1>9, BoundNode
<1> QED BY <1>1, <1>10, Zenon

LEMMA ConditionFilter ==
    ASSUME AreExpressions, NEW column, NEW c, IsCondition(c, Int), c[1] # "not_in",
           c[1] = "!=" /\ column.op = "enum" => c[2][1] \in Labels
    PROVE  Condition(Ref(1), c) \in FilterTrees(column)
<1>1. PICK e, x : x = Ref(1) /\ e = Condition(x, c)
  OBVIOUS
<1>2. IsConditionOf(e, x, c)
  BY <1>1, ConditionArgs, Zenon
<1>3. /\ e.op = c[1] /\ DOMAIN e.args = 1..(Len(c[2]) + 1) /\ Len(c[2]) \in Nat
      /\ e.args[1] = x
      /\ \A i \in 2..(Len(c[2]) + 1) : i - 1 \in DOMAIN c[2] /\ e.args[i] = Constant(c[2][i - 1])
  BY ONLY <1>2, Zenon DEF IsConditionOf
<1>4. x.op = "ref" /\ x.info = 1 /\ DOMAIN x.args = {}
  BY ONLY <1>1 DEF Ref, Node
<1>5. x \in Trees
  <2>1. "ref" \in Ops /\ 1 \in Infos
    BY NodeOps DEF Ops
  <2> QED BY <1>1, <2>1, LeafTree DEF Ref
<1>6. e \in Trees
  <2>1. Int \subseteq Int \cup {Null}
    OBVIOUS
  <2> QED BY ONLY AreExpressions, <1>1, <1>5, <2>1, IsCondition(c, Int), ConditionTree
<1>7. IsFilterNode(x, column)
  BY <1>4 DEF IsFilterNode, Comparisons, Ordered
<1>8. x \in FilterTrees(column)
  BY ONLY <1>4, <1>5, <1>7, FilterNode
<1>9. c[2] \in Seq(Int)
  BY Zenon DEF IsCondition
<1>10. \A v \in Int : Constant(v).op = "constant" /\ Constant(v).info = v /\ Constant(v) \in FilterTrees(column)
  <2> SUFFICES ASSUME NEW v \in Int
               PROVE  Constant(v).op = "constant" /\ Constant(v).info = v /\ Constant(v) \in FilterTrees(column)
    BY Zenon
  <2>1. PICK k : k = Constant(v)
    OBVIOUS
  <2>2. k.op = "constant" /\ k.info = v /\ DOMAIN k.args = {}
    BY ONLY <2>1 DEF Constant, Node
  <2>3. k \in Trees
    <3>1. "constant" \in Ops /\ v \in Infos
      BY NodeOps DEF Ops
    <3> QED BY <2>1, <3>1, LeafTree DEF Constant
  <2>4. IsFilterNode(k, column)
    BY <2>2 DEF IsFilterNode, Comparisons, Ordered
  <2>5. k \in FilterTrees(column)
    BY ONLY <2>2, <2>3, <2>4, FilterNode
  <2> QED BY <2>1, <2>2, <2>5, Zenon
<1>11. \A i \in DOMAIN e.args : e.args[i] \in FilterTrees(column)
  BY ONLY <1>3, <1>8, <1>9, <1>10
<1>12. IsFilterNode(e, column)
  <2>1. e.op \in Comparisons => {1, 2} \subseteq DOMAIN e.args
    BY <1>3 DEF IsCondition
  <2>2. e.op = "!=" /\ column.op = "enum" => e.args[2].info \in Labels
    <3> SUFFICES ASSUME e.op = "!=", column.op = "enum" PROVE e.args[2].info \in Labels
      BY Zenon
    <3>1. c[2][1] \in Labels
      BY <1>3
    <3>2. 1 \in DOMAIN c[2] /\ c[2][1] \in Int
      BY <1>3, <1>9 DEF IsCondition, Comparisons
    <3>3. e.args[2] = Constant(c[2][1])
      BY <1>3, <1>9, <3>2
    <3> QED BY <1>10, <3>1, <3>2, <3>3, Zenon
  <2>3. e.op = "between" => {1, 2, 3} \subseteq DOMAIN e.args
    BY <1>3 DEF IsCondition
  <2>4. 1 \in DOMAIN e.args /\ e.args[1].op = "ref" /\ e.op \notin {"ref", "constant", "and", "or", "not_in"}
    BY <1>3, <1>4 DEF IsCondition, Comparisons, Ordered, Hints
  <2> QED BY <2>1, <2>2, <2>3, <2>4 DEF IsFilterNode
<1>13. e \in FilterTrees(column)
  BY ONLY <1>6, <1>11, <1>12, FilterNode
<1> QED BY <1>1, <1>13, Zenon

\* What the planner takes from the outputs of an operator refers to them.
LEMMA RefBound ==
    ASSUME AreExpressions, NEW indexes, NEW i \in indexes, i \in Nat
    PROVE  Ref(i) \in BoundTrees(indexes)
<1>1. PICK e : e = Ref(i)
  OBVIOUS
<1>2. e.op = "ref" /\ e.info = i /\ DOMAIN e.args = {}
  BY ONLY <1>1 DEF Ref, Node
<1>3. e \in Trees
  <2>1. "ref" \in Ops /\ i \in Infos
    BY NodeOps DEF Ops
  <2> QED BY <1>1, <2>1, LeafTree DEF Ref
<1>4. IsExpressionNode(e, indexes)
  BY <1>2 DEF IsExpressionNode, Comparisons, Ordered
<1>5. e \in BoundTrees(indexes)
  BY ONLY <1>2, <1>3, <1>4, BoundNode
<1> QED BY <1>1, <1>5, Zenon

\* The outputs of plan[n].
LEMMA PlanTypes ==
    ASSUME PlanInv, NEW n \in 1..Len(plan)
    PROVE  /\ Types(plan)[n] \in Seq({"value", "truth"}) /\ Len(Types(plan)[n]) \in Nat
           /\ Len(Types(plan)[n]) >= 1
           /\ DOMAIN Types(plan)[n] = 1..Len(Types(plan)[n])
<1>1. Types(plan)[n] \in OutputTypes
  BY TypesTyped, Zenon DEF PlanInv
<1>2. PICK t : t = Types(plan)[n]
  OBVIOUS
<1>3. t \in Seq({"value", "truth"}) /\ t # <<>>
  BY <1>1, <1>2, Zenon DEF OutputTypes
<1>4. Len(t) \in Nat /\ Len(t) >= 1 /\ DOMAIN t = 1..Len(t)
  BY ONLY <1>3
<1> QED BY ONLY <1>2, <1>3, <1>4, Zenon

LEMMA RefsBound ==
    ASSUME AreExpressions, PlanInv, NEW n \in 1..Len(plan), NEW type, NEW x \in Refs(type, n)
    PROVE  /\ x \in BoundTrees(DOMAIN Types(plan)[n])
           /\ \E i \in DOMAIN Types(plan)[n] : x = Ref(i) /\ x.op = "ref" /\ x.info = i
<1>1. PICK i \in DOMAIN Types(plan)[n] : x = Ref(i)
  BY Zenon DEF Refs
<1>2. i \in Nat
  <2>1. i \in 1..Len(Types(plan)[n]) /\ Len(Types(plan)[n]) \in Nat
    BY PlanTypes, Zenon
  <2> QED BY ONLY <2>1
<1>3. x.op = "ref" /\ x.info = i
  BY ONLY <1>1 DEF Ref, Node
<1> QED BY <1>1, <1>2, <1>3, RefBound, Zenon

\* An operator over what refers to outputs refers to them too.
LEMMA OneArgBound ==
    ASSUME AreExpressions, NEW indexes, NEW x \in BoundTrees(indexes), NEW op \in {"not", "is_null"}
    PROVE  Node(op, 0, <<x>>) \in BoundTrees(indexes)
<1>1. PICK e : e = Node(op, 0, <<x>>)
  OBVIOUS
<1>2. e.op = op /\ DOMAIN e.args = {1} /\ e.args[1] = x
  BY ONLY <1>1 DEF Node
<1>3. x \in Trees
  BY Zenon DEF BoundTrees
<1>4. e \in Trees
  <2>1. op \in Ops /\ 0 \in Infos
    BY NodeOps DEF Ops
  <2> QED BY <1>1, <1>3, <2>1, TreeOverOne
<1>5. IsExpressionNode(e, indexes)
  BY <1>2 DEF IsExpressionNode, Comparisons, Ordered
<1>6. \A i \in DOMAIN e.args : e.args[i] \in BoundTrees(indexes)
  BY <1>2
<1>7. e \in BoundTrees(indexes)
  BY ONLY <1>4, <1>5, <1>6, BoundNode
<1> QED BY <1>1, <1>7, Zenon

LEMMA TwoArgsBound ==
    ASSUME AreExpressions, NEW indexes, NEW x \in BoundTrees(indexes), NEW y \in BoundTrees(indexes),
           NEW op \in {"or", "coalesce"}
    PROVE  Node(op, 0, <<x, y>>) \in BoundTrees(indexes)
<1>1. PICK e : e = Node(op, 0, <<x, y>>)
  OBVIOUS
<1>2. e.op = op /\ DOMAIN e.args = {1, 2} /\ e.args[1] = x /\ e.args[2] = y
  BY ONLY <1>1 DEF Node
<1>3. x \in Trees /\ y \in Trees
  BY Zenon DEF BoundTrees
<1>4. e \in Trees
  <2>1. op \in Ops /\ 0 \in Infos
    BY NodeOps DEF Ops
  <2> QED BY <1>1, <1>3, <2>1, TreeOverTwo
<1>5. IsExpressionNode(e, indexes)
  BY <1>2 DEF IsExpressionNode, Comparisons, Ordered
<1>6. \A i \in DOMAIN e.args : e.args[i] \in BoundTrees(indexes)
  BY <1>2
<1>7. e \in BoundTrees(indexes)
  BY ONLY <1>4, <1>5, <1>6, BoundNode
<1> QED BY <1>1, <1>7, Zenon

\* Whatever the planner filters by or computes refers to outputs there are.
LEMMA PredicatesBound ==
    ASSUME AreExpressions, PlanInv, NEW n \in 1..Len(plan), NEW e \in Predicates(n)
    PROVE  e \in BoundTrees(DOMAIN Types(plan)[n])
<1>1. CASE \E x \in Refs("value", n), c \in Conditions : e = Condition(x, c)
  <2>1. PICK x \in Refs("value", n), c \in Conditions : e = Condition(x, c)
    BY <1>1
  <2>2. x \in BoundTrees(DOMAIN Types(plan)[n])
    BY RefsBound, Zenon
  <2>3. IsCondition(c, Int \cup {Null})
    BY ConditionsAssumption, Zenon
  <2> QED BY ONLY AreExpressions, <2>1, <2>2, <2>3, ConditionBound
<1>2. CASE e \in Refs("truth", n)
  BY <1>2, RefsBound, Zenon
<1>3. CASE \E x \in Refs("truth", n) : e = Node("not", 0, <<x>>)
  <2>1. PICK x \in Refs("truth", n) : e = Node("not", 0, <<x>>)
    BY <1>3
  <2>2. x \in BoundTrees(DOMAIN Types(plan)[n])
    BY RefsBound, Zenon
  <2> QED BY ONLY AreExpressions, <2>1, <2>2, OneArgBound
<1>4. e \in {Condition(x, c) : x \in Refs("value", n), c \in Conditions}
        => \E x \in Refs("value", n), c \in Conditions : e = Condition(x, c)
  OBVIOUS
<1>5. e \in {Node("not", 0, <<x>>) : x \in Refs("truth", n)} => \E x \in Refs("truth", n) : e = Node("not", 0, <<x>>)
  OBVIOUS
<1> QED BY <1>1, <1>2, <1>3, <1>4, <1>5 DEF Predicates

LEMMA ComputedBound ==
    ASSUME AreExpressions, PlanInv, NEW e \in Computed
    PROVE  e \in BoundTrees(DOMAIN Types(plan)[Len(plan)])
<1>0. Len(plan) \in 1..Len(plan)
  BY DEF PlanInv, IsPlan, IsTuple
<1>1. CASE e \in Refs("value", Top) \cup Refs("truth", Top)
  BY <1>0, <1>1, RefsBound, Zenon DEF Top
<1>2. CASE e = Constant(Null)
  BY <1>2, ConstantBound, NodeOps
<1>3. CASE \E x \in Refs("value", Top) : e = Node("coalesce", 0, <<x, Constant(0)>>) \/ e = Node("is_null", 0, <<x>>)
  <2>1. PICK x \in Refs("value", Top) : e = Node("coalesce", 0, <<x, Constant(0)>>) \/ e = Node("is_null", 0, <<x>>)
    BY <1>3
  <2>2. x \in BoundTrees(DOMAIN Types(plan)[Len(plan)])
    BY <1>0, RefsBound, Zenon DEF Top
  <2>3. Constant(0) \in BoundTrees(DOMAIN Types(plan)[Len(plan)])
    BY ConstantBound, NodeOps
  <2> QED BY ONLY AreExpressions, <2>1, <2>2, <2>3, OneArgBound, TwoArgsBound
<1> QED BY <1>1, <1>2, <1>3, Zenon DEF Computed

\* A step that adds an operator, or replaces the top one, keeps the invariant.
LEMMA Appended ==
    ASSUME PlanInv, NEW op, IsOperator(op, Len(plan) + 1, DOMAIN Types(plan)[Len(plan)], table.columns),
           plan' = Append(plan, op), table' = table
    PROVE  PlanInv'
<1>1. IsPlan(Append(plan, op), table.columns)
  BY AppendPlan, Zenon DEF PlanInv
<1> QED BY <1>1, Zenon DEF PlanInv

LEMMA Replaced ==
    ASSUME PlanInv, NEW op, IsOperator(op, Len(plan), DOMAIN Types(plan)[Len(plan) - 1], table.columns),
           plan' = [plan EXCEPT ![Len(plan)] = op], table' = table
    PROVE  PlanInv'
<1>1. IsPlan([plan EXCEPT ![Len(plan)] = op], table.columns)
  BY ReplacePlan, Zenon DEF PlanInv
<1> QED BY <1>1, Zenon DEF PlanInv

\* What every step of the planner does.
LEMMA Grown ==
    ASSUME NEW newPlan, AsCondition(newPlan) \/ AsOperator(newPlan)
    PROVE  plan' = newPlan /\ table' = table
BY Zenon DEF AsCondition, AsOperator, Grow

\* The operators the planner adds are operators of a plan.
LEMMA AddedOperators ==
    ASSUME NEW n, n # 1, NEW indexes, NEW columns
    PROVE  /\ \A e \in BoundTrees(indexes) : IsOperator(Filter(e, <<>>), n, indexes, columns)
           /\ \A e, f \in BoundTrees(indexes) : IsOperator(Projection(<<e, f>>), n, indexes, columns)
           /\ \A e \in BoundTrees(indexes), list \in Seq(Int \cup {Null}) : \A exact :
                IsOperator(Mark(e, list, <<>>, exact), n, indexes, columns)
           /\ \A i \in indexes : IsOperator(TopN(i), n, indexes, columns)
           /\ IsOperator(Limit, n, indexes, columns)
           /\ IsOperator(Empty, n, indexes, columns)
           /\ IsOperator(Other, n, indexes, columns)
<1>1. ASSUME NEW e \in BoundTrees(indexes) PROVE IsOperator(Filter(e, <<>>), n, indexes, columns)
  <2>1. PICK op : op = Filter(e, <<>>)
    OBVIOUS
  <2>2. op.type = "filter" /\ op.exprs = <<e>> /\ op.map = <<>>
        /\ op = [type |-> "filter", exprs |-> op.exprs, map |-> op.map]
    BY ONLY <2>1 DEF Filter
  <2>3. IsFilter(op, indexes)
    BY <2>2 DEF IsFilter
  <2> QED BY <2>1, <2>2, <2>3 DEF IsOperator
<1>2. ASSUME NEW e \in BoundTrees(indexes), NEW f \in BoundTrees(indexes)
      PROVE  IsOperator(Projection(<<e, f>>), n, indexes, columns)
  <2>1. PICK op : op = Projection(<<e, f>>)
    OBVIOUS
  <2>2. op.type = "projection" /\ op.exprs = <<e, f>>
    BY ONLY <2>1 DEF Projection
  <2>3. IsProjection(op, indexes)
    BY <2>2 DEF IsProjection
  <2> QED BY <2>1, <2>2, <2>3 DEF IsOperator
<1>3. ASSUME NEW e \in BoundTrees(indexes), NEW list \in Seq(Int \cup {Null}), NEW exact
      PROVE  IsOperator(Mark(e, list, <<>>, exact), n, indexes, columns)
  <2>1. PICK op : op = Mark(e, list, <<>>, exact)
    OBVIOUS
  <2>2. op.type = "mark" /\ op.left = e /\ op.constants = list /\ op.map = <<>>
        /\ op = [type |-> "mark", left |-> op.left, constants |-> op.constants, map |-> op.map, exact |-> op.exact]
    BY ONLY <2>1 DEF Mark
  <2>3. IsMark(op, indexes)
    BY <2>2 DEF IsMark
  <2> QED BY <2>1, <2>2, <2>3 DEF IsOperator
<1>4. ASSUME NEW i \in indexes PROVE IsOperator(TopN(i), n, indexes, columns)
  BY DEF TopN, IsOperator
<1>5. IsOperator(Limit, n, indexes, columns)
  BY DEF Limit, IsOperator
<1>6. IsOperator(Empty, n, indexes, columns)
  BY DEF Empty, IsOperator
<1>7. IsOperator(Other, n, indexes, columns)
  BY DEF Other, IsOperator
<1> QED BY <1>1, <1>2, <1>3, <1>4, <1>5, <1>6, <1>7, Zenon

\* The actions that add an operator.
LEMMA AppendsKeep ==
    ASSUME AreExpressions, PlanInv,
           \/ AddFilter \/ AddProjection \/ AddMark \/ AddOtherMark
           \/ AddLimit \/ AddTopN \/ AddEmpty \/ AddOther
    PROVE  PlanInv'
<1>1. PICK n, D, columns : n = Len(plan) + 1 /\ D = DOMAIN Types(plan)[Len(plan)] /\ columns = table.columns
  OBVIOUS
<1>2. Len(plan) \in Nat /\ Len(plan) \in 1..Len(plan) /\ n # 1
  BY <1>1 DEF PlanInv, IsPlan, IsTuple
<1> DEFINE Adds(op) == IsOperator(op, n, D, columns) /\ plan' = Append(plan, op) /\ table' = table
<1>3. SUFFICES \E op : Adds(op)
  BY <1>1, Appended, Zenon
<1>4. /\ \A e \in BoundTrees(D) : IsOperator(Filter(e, <<>>), n, D, columns)
      /\ \A e, f \in BoundTrees(D) : IsOperator(Projection(<<e, f>>), n, D, columns)
      /\ \A e \in BoundTrees(D), list \in Seq(Int \cup {Null}) : \A exact :
           IsOperator(Mark(e, list, <<>>, exact), n, D, columns)
      /\ \A i \in D : IsOperator(TopN(i), n, D, columns)
      /\ IsOperator(Limit, n, D, columns)
      /\ IsOperator(Empty, n, D, columns)
      /\ IsOperator(Other, n, D, columns)
  BY <1>2, AddedOperators, Zenon
<1>5. \A type : \A x \in Refs(type, Top) : x \in BoundTrees(D) /\ x.info \in D
  BY <1>1, <1>2, RefsBound, Zenon DEF Top
<1>6. CASE AddFilter
  <2>1. PICK e \in Predicates(Top) : AsCondition(With(Filter(e, <<>>)))
    BY <1>6, Zenon DEF AddFilter
  <2>2. e \in BoundTrees(D)
    BY <1>1, <1>2, PredicatesBound, Zenon DEF Top
  <2>3. Adds(Filter(e, <<>>))
    BY <1>4, <2>1, <2>2, Grown, Zenon DEF With
  <2> QED BY <2>3, Zenon
<1>7. CASE AddProjection
  <2>1. PICK e \in Computed : AsOperator(With(Projection(<<Ref(Len(Types(plan)[Top])), e>>)))
    BY <1>7, Zenon DEF AddProjection
  <2>2. e \in BoundTrees(D)
    BY <1>1, ComputedBound, Zenon
  <2>3. PICK k : k = Len(Types(plan)[Len(plan)])
    OBVIOUS
  <2>4. k \in Nat /\ k \in D
    <3>1. k \in Nat /\ k >= 1 /\ D = 1..k
      BY <1>1, <1>2, <2>3, PlanTypes, Zenon
    <3> QED BY ONLY <3>1
  <2>5. Ref(k) \in BoundTrees(D)
    BY <2>4, RefBound, Zenon
  <2>6. PICK op : op = Projection(<<Ref(k), e>>)
    OBVIOUS
  <2>7. IsOperator(op, n, D, columns)
    BY <1>4, <2>2, <2>5, <2>6, Zenon
  <2>8. plan' = Append(plan, op) /\ table' = table
    BY <2>1, <2>3, <2>6, Grown, Zenon DEF With, Top
  <2> QED BY <2>7, <2>8, Zenon
<1>8. CASE AddMark
  <2>1. PICK x \in Refs("value", Top), list \in Lists : AsOperator(With(Mark(x, list, <<>>, TRUE)))
    BY <1>8, Zenon DEF AddMark
  <2>2. list \in Seq(Int \cup {Null})
    BY ConditionsAssumption, Zenon
  <2>3. Adds(Mark(x, list, <<>>, TRUE))
    BY <1>4, <1>5, <2>1, <2>2, Grown, Zenon DEF With
  <2> QED BY <2>3, Zenon
<1>9. CASE AddOtherMark
  <2>1. PICK x \in Refs("value", Top) : AsOperator(With(Mark(x, <<>>, <<>>, FALSE)))
    BY <1>9, Zenon DEF AddOtherMark
  <2>2. PICK list \in Seq(Int \cup {Null}) : list = <<>>
    <3>1. <<>> \in Seq(Int \cup {Null})
      OBVIOUS
    <3> QED BY <3>1, Zenon
  <2>3. AsOperator(With(Mark(x, list, <<>>, FALSE)))
    BY <2>1, <2>2, Zenon
  <2>4. Adds(Mark(x, list, <<>>, FALSE))
    BY <1>4, <1>5, <2>3, Grown, Zenon DEF With
  <2> QED BY <2>4, Zenon
<1>10. CASE AddLimit
  <2>1. Adds(Limit)
    BY <1>4, <1>10, Grown, Zenon DEF AddLimit, With
  <2> QED BY <2>1, Zenon
<1>11. CASE AddTopN
  <2>1. PICK x \in Refs("value", Top) : AsOperator(With(TopN(x.info)))
    BY <1>11, Zenon DEF AddTopN
  <2>2. Adds(TopN(x.info))
    BY <1>4, <1>5, <2>1, Grown, Zenon DEF With
  <2> QED BY <2>2, Zenon
<1>12. CASE AddEmpty
  <2>1. Adds(Empty)
    BY <1>4, <1>12, Grown, Zenon DEF AddEmpty, With
  <2> QED BY <2>1, Zenon
<1>13. CASE AddOther
  <2>1. Adds(Other)
    BY <1>4, <1>13, Grown, Zenon DEF AddOther, With
  <2> QED BY <2>1, Zenon
<1> QED BY <1>6, <1>7, <1>8, <1>9, <1>10, <1>11, <1>12, <1>13, Zenon

\* A condition that DuckDB leaves to the scan is a filter of the column.
LEMMA ScanCondition ==
    ASSUME AreExpressions, NEW position, NEW c \in ScanConditions, LeftToScan(position, c),
           plan[1].ids[position] # 0
    PROVE  Condition(Ref(1), c) \in FilterTrees(LeafOf(table.columns, plan[1].ids[position]))
<1>1. PICK column : column = LeafOf(table.columns, plan[1].ids[position])
  OBVIOUS
<1>2. IsCondition(c, Int) /\ c[1] # "not_in"
  BY ConditionsAssumption, Zenon
<1>3. ASSUME c[1] = "!=", column.op = "enum" PROVE c[2][1] \in Labels
  <2>1. table.columns[plan[1].ids[position]].kind = "enum"
    BY <1>1, <1>3 DEF LeafOf, Node, Column
  <2>2. IsEnum(position)
    BY <2>1, Zenon DEF IsEnum, Kind
  <2>3. PushdownExpression(position, c)
    BY <1>3, <2>2 DEF LeftToScan, Hints
  <2> QED BY <1>3, <2>3 DEF PushdownExpression
<1>4. Condition(Ref(1), c) \in FilterTrees(column)
  BY <1>2, <1>3, ConditionFilter
<1> QED BY <1>1, <1>4, Zenon

\* A condition that is left to the scan is an expression.
LEMMA ScanConditionTree ==
    ASSUME AreExpressions, NEW c \in ScanConditions
    PROVE  Condition(Ref(1), c) \in Trees
<1>1. IsCondition(c, Int)
  BY ConditionsAssumption, Zenon
<1>2. Ref(1) \in Trees
  <2>1. "ref" \in Ops /\ 1 \in Infos
    BY NodeOps DEF Ops
  <2> QED BY <2>1, LeafTree DEF Ref
<1>3. Int \subseteq Int \cup {Null}
  OBVIOUS
<1> QED BY ONLY AreExpressions, <1>1, <1>2, <1>3, ConditionTree

\* AND and OR of filters are filters.
LEMMA ConjunctionFilter ==
    ASSUME AreExpressions, NEW column, NEW x \in FilterTrees(column), NEW y \in FilterTrees(column),
           NEW op \in {"and", "or"}
    PROVE  Node(op, 0, <<x, y>>) \in FilterTrees(column)
<1>1. PICK e : e = Node(op, 0, <<x, y>>)
  OBVIOUS
<1>2. e.op = op /\ DOMAIN e.args = {1, 2} /\ e.args[1] = x /\ e.args[2] = y
  BY ONLY <1>1 DEF Node
<1>3. x \in Trees /\ y \in Trees
  BY Zenon DEF FilterTrees
<1>4. e \in Trees
  <2>1. op \in Ops /\ 0 \in Infos
    BY NodeOps DEF Ops
  <2> QED BY <1>1, <1>3, <2>1, TreeOverTwo
<1>5. IsFilterNode(e, column)
  BY <1>2 DEF IsFilterNode, Comparisons, Ordered
<1>6. \A i \in DOMAIN e.args : e.args[i] \in FilterTrees(column)
  BY <1>2
<1>7. e \in FilterTrees(column)
  BY ONLY <1>4, <1>5, <1>6, FilterNode
<1> QED BY <1>1, <1>7, Zenon

\* A scan with other filters.
LEMMA ScanWith ==
    ASSUME PlanInv, Len(plan) = 1, NEW filters, filters \in Seq(ScanFilters(plan[1].ids, table.columns)),
           plan' = [plan EXCEPT ![1] = [plan[1] EXCEPT !.filters = filters]], table' = table
    PROVE  PlanInv'
<1>1. PICK g, columns : g = plan[1] /\ columns = table.columns
  OBVIOUS
<1>2. IsOperator(g, 1, DOMAIN Types(plan)[0], columns)
  <2>1. IsOperator(plan[1], 1, DOMAIN Types(plan)[1 - 1], table.columns)
    BY DEF PlanInv, IsPlan
  <2> QED BY <1>1, <2>1
<1>3. g.type = "get" /\ IsGet(g, columns)
  BY <1>2 DEF IsOperator
<1>4. PICK op : op = [g EXCEPT !.filters = filters]
  OBVIOUS
<1>5. g = [type |-> "get", ids |-> g.ids, map |-> g.map, filters |-> g.filters]
  BY <1>3 DEF IsGet
<1>6. /\ op = [type |-> "get", ids |-> op.ids, map |-> op.map, filters |-> op.filters]
      /\ op.type = "get" /\ op.ids = g.ids /\ op.map = g.map /\ op.filters = filters
  BY ONLY <1>4, <1>5
<1>7. IsGet(op, columns)
  <2>1. filters \in Seq(ScanFilters(op.ids, columns))
    BY <1>1, <1>6, Zenon
  <2> QED BY <1>3, <1>6, <2>1, Zenon DEF IsGet
<1>8. IsOperator(op, 1, DOMAIN Types(plan)[0], columns)
  BY <1>6, <1>7 DEF IsOperator
<1>9. plan' = [plan EXCEPT ![Len(plan)] = op]
  BY <1>1, <1>4, Zenon
<1>10. IsOperator(op, Len(plan), DOMAIN Types(plan)[Len(plan) - 1], table.columns)
  BY <1>1, <1>8
<1> QED BY <1>9, <1>10, Replaced, Zenon

\* A filter or MARK join with other expressions or another map.
LEMMA FilterWith ==
    ASSUME PlanInv, plan[Len(plan)].type = "filter", NEW op, op.type = "filter",
           IsFilter(op, DOMAIN Types(plan)[Len(plan) - 1]),
           plan' = [plan EXCEPT ![Len(plan)] = op], table' = table
    PROVE  PlanInv'
<1>1. IsOperator(plan[Len(plan)], Len(plan), DOMAIN Types(plan)[Len(plan) - 1], table.columns)
  BY DEF PlanInv, IsPlan, IsTuple
<1>2. Len(plan) # 1
  BY <1>1 DEF IsOperator
<1>3. IsOperator(op, Len(plan), DOMAIN Types(plan)[Len(plan) - 1], table.columns)
  BY <1>2 DEF IsOperator
<1> QED BY <1>3, Replaced, Zenon

\* The actions that change the top operator.
LEMMA ReplacesKeep ==
    ASSUME AreExpressions, PlanInv, PushFilter \/ ExtendPushedFilter \/ ExtendFilter \/ RemoveUnusedColumns
    PROVE  PlanInv'
<1>0. PICK top \in Nat : top = Len(plan) /\ top >= 1
  BY DEF PlanInv, IsPlan, IsTuple
<1>1. IsOperator(plan[top], top, DOMAIN Types(plan)[top - 1], table.columns)
  BY <1>0 DEF PlanInv, IsPlan
<1>2. ASSUME top = 1
      PROVE  /\ plan[1] = [type |-> "get", ids |-> plan[1].ids, map |-> plan[1].map, filters |-> plan[1].filters]
             /\ plan[1].filters \in Seq(ScanFilters(plan[1].ids, table.columns))
  <2>1. IsGet(plan[1], table.columns)
    BY <1>1, <1>2 DEF IsOperator
  <2> QED BY <2>1 DEF IsGet
<1>3. CASE PushFilter
  <2>1. PICK position \in DOMAIN plan[1].ids, c \in ScanConditions :
          /\ top = 1 /\ LeftToScan(position, c)
          /\ AsCondition(Replacing([plan[1] EXCEPT !.filters =
                 Append(plan[1].filters, [position |-> position, expr |-> Condition(Ref(1), c)])]))
    BY <1>0, <1>3, Zenon DEF PushFilter, Top
  <2>2. PICK f : f = [position |-> position, expr |-> Condition(Ref(1), c)]
    OBVIOUS
  <2>3. f \in ScanFilters(plan[1].ids, table.columns)
    <3>1. f.position = position /\ f.expr = Condition(Ref(1), c) /\ f = [position |-> f.position, expr |-> f.expr]
      BY ONLY <2>2
    <3>2. f \in [position : DOMAIN plan[1].ids, expr : Trees]
      <4>1. f.expr \in Trees /\ f.position \in DOMAIN plan[1].ids
        BY <3>1, ScanConditionTree, Zenon
      <4> QED BY ONLY <3>1, <4>1
    <3>3. plan[1].ids[f.position] # 0 => f.expr \in FilterTrees(LeafOf(table.columns, plan[1].ids[f.position]))
      BY <2>1, <3>1, ScanCondition, Zenon
    <3> QED BY <3>2, <3>3, Zenon DEF ScanFilters
  <2>4. PICK filters : filters = Append(plan[1].filters, f)
    OBVIOUS
  <2>5. filters \in Seq(ScanFilters(plan[1].ids, table.columns))
    BY <1>2, <2>1, <2>3, <2>4, AppendProperties, Zenon
  <2>6. plan' = [plan EXCEPT ![1] = [plan[1] EXCEPT !.filters = filters]] /\ table' = table
    <3>1. AsCondition(Replacing([plan[1] EXCEPT !.filters = filters]))
      BY <2>1, <2>2, <2>4, Zenon
    <3> QED BY <1>0, <2>1, <3>1, Grown, Zenon DEF Replacing, Top
  <2> QED BY <1>0, <2>1, <2>5, <2>6, ScanWith, Zenon
<1>4. CASE ExtendPushedFilter
  <2>1. PICK i \in DOMAIN plan[1].filters, op \in {"and", "or"}, c \in ScanConditions :
          /\ top = 1 /\ LeftToScan(plan[1].filters[i].position, c)
          /\ AsCondition(Replacing([plan[1] EXCEPT !.filters[i].expr =
                 Node(op, 0, <<plan[1].filters[i].expr, Condition(Ref(1), c)>>)]))
    BY <1>0, <1>4, Zenon DEF ExtendPushedFilter, Top
  <2>2. PICK x : x = Node(op, 0, <<plan[1].filters[i].expr, Condition(Ref(1), c)>>)
    OBVIOUS
  <2>3. PICK f : f = [plan[1].filters[i] EXCEPT !.expr = x]
    OBVIOUS
  <2>4. PICK filters : filters = [plan[1].filters EXCEPT ![i] = f]
    OBVIOUS
  <2>5. plan[1].filters[i] \in ScanFilters(plan[1].ids, table.columns)
    BY <1>2, <2>1
  <2>6. PICK g : g = plan[1].filters[i] /\ g \in ScanFilters(plan[1].ids, table.columns)
    BY <2>5, Zenon
  <2>7. /\ g \in [position : DOMAIN plan[1].ids, expr : Trees]
        /\ plan[1].ids[g.position] # 0 => g.expr \in FilterTrees(LeafOf(table.columns, plan[1].ids[g.position]))
    BY <2>6, Zenon DEF ScanFilters
  <2>8. f \in ScanFilters(plan[1].ids, table.columns)
    <3>1. x \in Trees
      <4>1. Condition(Ref(1), c) \in Trees /\ g.expr \in Trees
        BY <2>7, ScanConditionTree
      <4>2. op \in Ops /\ 0 \in Infos
        BY NodeOps DEF Ops
      <4> QED BY ONLY AreExpressions, <2>2, <2>6, <4>1, <4>2, TreeOverTwo
    <3>2. f \in [position : DOMAIN plan[1].ids, expr : Trees] /\ f.position = g.position /\ f.expr = x
      BY ONLY <2>3, <2>6, <2>7, <3>1
    <3>3. ASSUME plan[1].ids[g.position] # 0
          PROVE  x \in FilterTrees(LeafOf(table.columns, plan[1].ids[g.position]))
      <4>1. PICK column : column = LeafOf(table.columns, plan[1].ids[g.position])
        OBVIOUS
      <4>2. g.expr \in FilterTrees(column)
        BY <2>7, <3>3, <4>1, Zenon
      <4>3. Condition(Ref(1), c) \in FilterTrees(column)
        BY <2>1, <2>6, <3>3, <4>1, ScanCondition, Zenon
      <4>4. x \in FilterTrees(column)
        BY ONLY AreExpressions, op \in {"and", "or"}, <2>2, <2>6, <4>2, <4>3, ConjunctionFilter
      <4> QED BY <4>1, <4>4, Zenon
    <3> QED BY <3>2, <3>3, Zenon DEF ScanFilters
  <2>9. filters \in Seq(ScanFilters(plan[1].ids, table.columns))
    <3>1. plan[1].filters \in Seq(ScanFilters(plan[1].ids, table.columns))
      BY <1>2, <2>1, Zenon
    <3> QED BY ONLY <2>4, <2>8, <3>1, i \in DOMAIN plan[1].filters
  <2>10. plan' = [plan EXCEPT ![1] = [plan[1] EXCEPT !.filters = filters]] /\ table' = table
    <3>1. [plan[1] EXCEPT !.filters[i].expr = x] = [plan[1] EXCEPT !.filters = filters]
      BY ONLY <2>3, <2>4
    <3>2. AsCondition(Replacing([plan[1] EXCEPT !.filters = filters]))
      BY <2>1, <2>2, <3>1, Zenon
    <3> QED BY <1>0, <2>1, <3>2, Grown, Zenon DEF Replacing, Top
  <2> QED BY <1>0, <2>1, <2>9, <2>10, ScanWith, Zenon
<1>5. CASE ExtendFilter
  <2>0. plan[top].type = "filter"
    BY <1>0, <1>5, Zenon DEF ExtendFilter, Top
  <2>1. PICK D : D = DOMAIN Types(plan)[top - 1]
    OBVIOUS
  <2>2. IsFilter(plan[top], D) /\ top # 1
    BY <1>1, <2>0, <2>1 DEF IsOperator
  <2>3. PICK e \in Predicates(top - 1) :
          \/ AsCondition(Replacing([plan[Top] EXCEPT !.exprs = Append(plan[Top].exprs, e)]))
          \/ AsCondition(Replacing([plan[Top] EXCEPT
                 !.exprs[1] = Node("not", 0, <<Node("or", 0, <<plan[Top].exprs[1], e>>)>>)]))
    BY <1>0, <1>5, Zenon DEF ExtendFilter, Top
  <2>4. e \in BoundTrees(D)
    <3>1. top - 1 \in 1..Len(plan)
      BY <1>0, <2>2
    <3> QED BY <2>1, <3>1, PredicatesBound, Zenon
  <2>5. PICK g : g = plan[top]
    OBVIOUS
  <2>6. /\ g = [type |-> "filter", exprs |-> g.exprs, map |-> g.map]
        /\ g.exprs \in Seq(BoundTrees(D)) /\ g.exprs # <<>> /\ g.map \in Seq(D)
    BY <2>2, <2>5, Zenon DEF IsFilter
  <2>7. PICK x : x = Node("not", 0, <<Node("or", 0, <<g.exprs[1], e>>)>>)
    OBVIOUS
  <2>8. x \in BoundTrees(D)
    <3>1. PICK either : either = Node("or", 0, <<g.exprs[1], e>>)
      OBVIOUS
    <3>2. g.exprs[1] \in BoundTrees(D)
      BY ONLY <2>6
    <3>3. either \in BoundTrees(D)
      BY ONLY AreExpressions, <2>4, <3>1, <3>2, TwoArgsBound
    <3>4. x = Node("not", 0, <<either>>)
      BY <2>7, <3>1, Zenon
    <3> QED BY ONLY AreExpressions, <3>3, <3>4, OneArgBound
  <2>9. PICK exprs : \/ exprs = Append(g.exprs, e) /\ AsCondition(Replacing([g EXCEPT !.exprs = Append(g.exprs, e)]))
                     \/ exprs = [g.exprs EXCEPT ![1] = x] /\ AsCondition(Replacing([g EXCEPT !.exprs[1] = x]))
    BY <1>0, <2>3, <2>5, <2>7, Zenon DEF Top
  <2>10. exprs \in Seq(BoundTrees(D)) /\ exprs # <<>>
    <3>1. CASE exprs = Append(g.exprs, e)
      BY ONLY <2>4, <2>6, <3>1
    <3>2. CASE exprs = [g.exprs EXCEPT ![1] = x]
      BY ONLY <2>6, <2>8, <3>2
    <3> QED BY <2>9, <3>1, <3>2
  <2>11. PICK op : op = [g EXCEPT !.exprs = exprs]
    OBVIOUS
  <2>12. AsCondition(Replacing(op))
    <3>1. CASE exprs = Append(g.exprs, e) /\ AsCondition(Replacing([g EXCEPT !.exprs = Append(g.exprs, e)]))
      BY <2>11, <3>1, Zenon
    <3>2. CASE exprs = [g.exprs EXCEPT ![1] = x] /\ AsCondition(Replacing([g EXCEPT !.exprs[1] = x]))
      <4>1. [g EXCEPT !.exprs[1] = x] = op
        BY ONLY <2>11, <3>2
      <4> QED BY <3>2, <4>1, Zenon
    <3> QED BY <2>9, <3>1, <3>2, Zenon
  <2>13. /\ op.type = "filter" /\ op.exprs = exprs /\ op.map = g.map
         /\ op = [type |-> "filter", exprs |-> op.exprs, map |-> op.map]
    BY ONLY <2>6, <2>11
  <2>14. IsFilter(op, D)
    BY <2>6, <2>10, <2>13, Zenon DEF IsFilter
  <2>15. plan' = [plan EXCEPT ![Len(plan)] = op] /\ table' = table
    BY <2>12, Grown, Zenon DEF Replacing, Top
  <2> QED BY <1>0, <2>0, <2>1, <2>13, <2>14, <2>15, FilterWith, Zenon
<1>6. CASE RemoveUnusedColumns
  <2>1. PICK D : D = DOMAIN Types(plan)[top - 1]
    OBVIOUS
  <2>2. PICK g : g = plan[top]
    OBVIOUS
  <2>3. PICK map : map = <<Len(Types(plan)[top - 1])>>
    OBVIOUS
  <2>4. PICK op : op = [g EXCEPT !.map = map]
    OBVIOUS
  <2>5. g.type \in {"filter", "mark"} /\ AsOperator(Replacing(op))
    BY <1>0, <1>6, <2>2, <2>3, <2>4, Zenon DEF RemoveUnusedColumns, Top
  <2>6. IsOperator(g, top, D, table.columns)
    BY <1>1, <2>1, <2>2, Zenon
  <2>7. top # 1
    BY <2>5, <2>6 DEF IsOperator
  <2>8. map \in Seq(D)
    <3>1. top - 1 \in 1..Len(plan)
      BY <1>0, <2>7
    <3>2. PICK k : k = Len(Types(plan)[top - 1])
      OBVIOUS
    <3>3. k \in Nat /\ k >= 1 /\ D = 1..k
      BY <2>1, <3>1, <3>2, PlanTypes, Zenon
    <3>4. map = <<k>>
      BY <2>3, <3>2, Zenon
    <3> QED BY ONLY <3>3, <3>4
  <2>9. IsOperator(op, top, D, table.columns)
    <3>1. CASE g.type = "filter"
      <4>1. IsFilter(g, D)
        BY <2>6, <3>1, Zenon DEF IsOperator
      <4>2. g = [type |-> "filter", exprs |-> g.exprs, map |-> g.map]
        BY <4>1, Zenon DEF IsFilter
      <4>3. /\ op.type = "filter" /\ op.exprs = g.exprs /\ op.map = map
            /\ op = [type |-> "filter", exprs |-> op.exprs, map |-> op.map]
        BY ONLY <2>4, <4>2
      <4>4. IsFilter(op, D)
        BY <2>8, <4>1, <4>3, Zenon DEF IsFilter
      <4> QED BY <2>7, <4>3, <4>4 DEF IsOperator
    <3>2. CASE g.type = "mark"
      <4>1. IsMark(g, D)
        BY <2>6, <3>2, Zenon DEF IsOperator
      <4>2. g = [type |-> "mark", left |-> g.left, constants |-> g.constants, map |-> g.map, exact |-> g.exact]
        BY <4>1, Zenon DEF IsMark
      <4>3. /\ op.type = "mark" /\ op.left = g.left /\ op.constants = g.constants /\ op.map = map
            /\ op = [type |-> "mark", left |-> op.left, constants |-> op.constants, map |-> op.map,
                     exact |-> op.exact]
        BY ONLY <2>4, <4>2
      <4>4. IsMark(op, D)
        BY <2>8, <4>1, <4>3, Zenon DEF IsMark
      <4> QED BY <2>7, <4>3, <4>4 DEF IsOperator
    <3> QED BY <2>5, <3>1, <3>2
  <2>10. plan' = [plan EXCEPT ![Len(plan)] = op] /\ table' = table
    BY <2>5, Grown, Zenon DEF Replacing, Top
  <2> QED BY <1>0, <2>1, <2>9, <2>10, Replaced, Zenon
<1> QED BY <1>3, <1>4, <1>5, <1>6, Zenon

\* A plan starts as one, and stays one.
LEMMA InitPlan ==
    ASSUME Init
    PROVE  PlanInv
<1>1. PICK s \in Scans : table = s.table /\ plan = <<s.get>>
  BY Zenon DEF Init
<1>2. PICK g, columns : g = s.get /\ columns = table.columns
  OBVIOUS
<1>3. /\ DOMAIN columns \subseteq Nat \ {0}
      /\ g = Get(g.ids, g.map)
      /\ g.ids \in Seq({0} \cup DOMAIN columns) /\ g.ids # <<>>
      /\ g.map \in Seq(DOMAIN g.ids)
  BY <1>1, <1>2, ScansAssumption, Zenon
<1>4. /\ g = [type |-> "get", ids |-> g.ids, map |-> g.map, filters |-> g.filters]
      /\ g.type = "get" /\ g.filters = <<>>
  BY <1>3 DEF Get
<1>5. IsGet(g, columns)
  BY <1>3, <1>4 DEF IsGet
<1>6. plan[1] = g /\ Len(plan) = 1 /\ IsTuple(plan)
  <2>1. plan = <<g>>
    BY <1>1, <1>2, Zenon
  <2> QED BY ONLY <2>1 DEF IsTuple
<1>7. IsOperator(g, 1, DOMAIN Types(plan)[0], columns)
  BY <1>4, <1>5 DEF IsOperator
<1>8. IsPlan(plan, columns)
  BY <1>6, <1>7 DEF IsPlan
<1> QED BY <1>2, <1>3, <1>8, Zenon DEF PlanInv

LEMMA NextPlan ==
    ASSUME AreExpressions, PlanInv, [Next]_vars
    PROVE  PlanInv'
<1>1. CASE Next
  BY <1>1, AppendsKeep, ReplacesKeep, Zenon DEF Next
<1>2. CASE UNCHANGED vars
  BY <1>2, Zenon DEF vars, PlanInv
<1> QED BY <1>1, <1>2, Zenon

\* Every plan DuckDB's planner puts together refers, in each operator, to
\* outputs that the operator below has, and in the filters of the scan to one
\* column each: what the translations rely on.
THEOREM PlanInvariant ==
    ASSUME AreExpressions
    PROVE  Spec => []PlanInv
<1>1. Init => PlanInv
  BY InitPlan
<1>2. PlanInv /\ [Next]_vars => PlanInv'
  BY NextPlan
<1> QED BY <1>1, <1>2, PTL DEF Spec

-----------------------------------------------------------------------------
(* The scan's own filters.                                                 *)

\* The scan is at the bottom of a plan, and nowhere else.
LEMMA PlanScan ==
    ASSUME PlanInv
    PROVE  /\ Len(plan) \in Nat /\ Len(plan) >= 1 /\ DOMAIN plan = 1..Len(plan)
           /\ plan[1].type = "get" /\ \A n \in 1..Len(plan) : plan[n].type = "get" => n = 1
           /\ IsGet(plan[1], table.columns)
           /\ \A n \in 1..Len(plan) : IsOperator(plan[n], n, DOMAIN Types(plan)[n - 1], table.columns)
<1>1. IsTuple(plan) /\ Len(plan) >= 1
  BY Zenon DEF PlanInv, IsPlan
<1>2. Len(plan) \in Nat /\ DOMAIN plan = 1..Len(plan)
  BY <1>1, TupleDomain, Zenon DEF IsTuple
<1>3. \A n \in 1..Len(plan) : IsOperator(plan[n], n, DOMAIN Types(plan)[n - 1], table.columns)
  BY Zenon DEF PlanInv, IsPlan
<1>4. 1 \in 1..Len(plan)
  BY <1>1, <1>2
<1>5. plan[1].type = "get" /\ IsGet(plan[1], table.columns)
  BY <1>3, <1>4, Zenon DEF IsOperator
<1>6. \A n \in 1..Len(plan) : plan[n].type = "get" => n = 1
  BY <1>3, Zenon DEF IsOperator
<1> QED BY <1>1, <1>2, <1>3, <1>5, <1>6, Zenon

\* A filter of the scan is one over its column.
LEMMA PlanFilters ==
    ASSUME PlanInv, NEW i \in DOMAIN plan[1].filters
    PROVE  LET f == plan[1].filters[i]
               c == plan[1].ids[f.position]
           IN /\ f.position \in DOMAIN plan[1].ids
              /\ c \in {0} \cup DOMAIN table.columns
              /\ c # 0 => f.expr \in FilterTrees(Leaf(c))
<1>1. IsGet(plan[1], table.columns)
  BY PlanScan, Zenon
<1>2. PICK g : g = plan[1]
  OBVIOUS
<1>3. g.filters \in Seq(ScanFilters(g.ids, table.columns)) /\ g.ids \in Seq({0} \cup DOMAIN table.columns)
  BY <1>1, <1>2, Zenon DEF IsGet
<1>4. PICK f : f = g.filters[i]
  OBVIOUS
<1>5. f \in ScanFilters(g.ids, table.columns)
  BY <1>2, <1>3, <1>4
<1>6. /\ f.position \in DOMAIN g.ids
      /\ g.ids[f.position] # 0 => f.expr \in FilterTrees(LeafOf(table.columns, g.ids[f.position]))
  BY <1>5 DEF ScanFilters
<1>7. g.ids[f.position] \in {0} \cup DOMAIN table.columns
  BY ONLY <1>3, <1>6
<1> QED BY <1>2, <1>4, <1>6, <1>7, LeafIs, Zenon

\* What a column holds.
LEMMA RowValue ==
    ASSUME NEW row \in Rows, NEW c \in DOMAIN table.columns
    PROVE  row[c] \in Stored(c) /\ DOMAIN row = DOMAIN table.columns
<1>1. DOMAIN row = DOMAIN table.columns /\ \A d \in DOMAIN row : row[d] \in Stored(d)
  BY DEF Rows
<1> QED BY <1>1, Zenon

\* DuckDB reads what ClickHouse holds, unless the column is coarse.
LEMMA NotCoarse ==
    ASSUME NEW row \in Rows, NEW c \in DOMAIN table.columns, c # 0, Kind(c) # "coarse"
    PROVE  /\ Read(c, row) = row[c] /\ row[c] \in Values \cup {Null}
           /\ (~CanHoldNull(c)) => row[c] # Null
<1>1. row[c] \in Stored(c)
  BY RowValue, Zenon
<1>2. Stored(c) = Values \cup (IF CanHoldNull(c) THEN {Null} ELSE {})
  BY Zenon DEF Stored
<1>3. Null \notin Values
  BY ValuesAssumption, RepresentableAssumption, NullAssumption
<1>4. Read(c, row) = row[c]
  BY Zenon DEF Read
<1> QED BY <1>1, <1>2, <1>3, <1>4

\* A leaf is the expression of a column, of its kind.
LEMMA LeafTreeOf ==
    ASSUME AreExpressions, PlanInv, NEW c \in DOMAIN table.columns
    PROVE  /\ Leaf(c) \in Trees /\ Leaf(c).info = c /\ Leaf(c).op \in {"column", "uuid", "enum"}
           /\ Leaf(c).op = "uuid" <=> Kind(c) = "uuid"
           /\ Leaf(c).op = "enum" <=> Kind(c) = "enum"
<1>1. c \in Infos
  BY NodeOps DEF PlanInv
<1>2. CASE Kind(c) \in {"uuid", "enum"}
  <2>1. PICK op \in {"uuid", "enum"}, e \in {Node(Kind(c), c, <<>>)} : op = Kind(c)
    BY <1>2
  <2>2. Leaf(c) = Node(op, c, <<>>)
    BY <1>2, <2>1, Zenon DEF Leaf
  <2>3. Leaf(c) \in Trees
    <3>1. op \in Ops
      BY DEF Ops
    <3> QED BY <1>1, <2>2, <3>1, LeafTree, Zenon
  <2>4. Leaf(c).op = op /\ Leaf(c).info = c
    BY <2>2 DEF Node
  <2> QED BY <2>1, <2>3, <2>4
<1>3. CASE Kind(c) \notin {"uuid", "enum"}
  <2>1. Leaf(c) = Node("column", c, <<>>)
    BY <1>3, Zenon DEF Leaf, Column
  <2>2. Leaf(c) \in Trees
    <3>1. "column" \in Ops
      BY DEF Ops
    <3> QED BY <1>1, <2>1, <3>1, LeafTree, Zenon
  <2>3. Leaf(c).op = "column" /\ Leaf(c).info = c
    BY <2>1 DEF Node
  <2> QED BY <1>3, <2>2, <2>3
<1> QED BY <1>2, <1>3

\* The condition of a filter that is pushed keeps the rows the filter keeps.
LEMMA PushedFilter ==
    ASSUME AreExpressions, PlanInv, NEW i \in DOMAIN plan[1].filters,
           Pushable(plan[1].filters[i]), TransformFilter(plan[1].filters[i]).op # "throw", NEW row \in Rows
    PROVE  Returned(plan[1].filters[i], row) <=> Passes(plan[1].filters[i], row)
<1>1. PICK f, c : f = plan[1].filters[i] /\ c = plan[1].ids[f.position]
  OBVIOUS
<1>2. c \in {0} \cup DOMAIN table.columns /\ (c # 0 => f.expr \in FilterTrees(Leaf(c)))
  BY <1>1, PlanFilters, Zenon
<1>3. c # 0 /\ Kind(c) \in {"plain", "enum", "uuid"}
  <2>1. Pushable(f)
    BY <1>1, Zenon
  <2> QED BY <1>1, <2>1 DEF Pushable, ResolvePushdownableColumn, SupportsFilterPushdown, SupportsPushdown
<1>4. c \in DOMAIN table.columns /\ Kind(c) # "coarse"
  BY <1>2, <1>3
<1>5. Read(c, row) = row[c] /\ row[c] \in Values \cup {Null}
  BY <1>3, <1>4, NotCoarse, Zenon
<1>6. PICK column, env, x : column = Leaf(c) /\ env = <<Read(c, row)>> /\ x = row[c]
  OBVIOUS
<1>7. ColumnReads(column, row, env, x)
  <2>1. env[1] = x
    BY <1>5, <1>6
  <2>2. x \in Representable \cup {Null}
    BY <1>5, <1>6, ValuesAssumption
  <2>3. column \in Trees /\ column.op \in {"column", "uuid", "enum"} /\ row[column.info] = x
    BY <1>4, <1>6, LeafTreeOf
  <2> QED BY <2>1, <2>2, <2>3, Zenon DEF ColumnReads
<1>8. PICK S : S = FilterTrees(column)
  OBVIOUS
<1>9. AreFilters(S, column) /\ f.expr \in S
  BY <1>2, <1>3, <1>6, <1>8, FilterTreesFilters, Zenon
<1>10. Exact(TransformExpressionFilter(column, f.expr), f.expr, row, env)
  BY ONLY AreExpressions, <1>7, <1>9, TransformExact
<1>11. TransformFilter(f) = TransformExpressionFilter(column, f.expr)
  BY <1>1, <1>6, Zenon DEF TransformFilter
<1>12. Passes(f, row) <=> Eval(f.expr, env, "duckdb") = TRUE
  BY <1>1, <1>6, Zenon DEF Passes, Holds
<1>13. Returned(f, row) <=> \/ TransformFilter(f).op = "nothing"
                           \/ Eval(TransformFilter(f), row, "clickhouse") = TRUE
  BY Zenon DEF Returned, Holds
<1>14. TransformFilter(f).op # "throw"
  BY <1>1, Zenon
<1>15. Returned(f, row) <=> Passes(f, row)
  BY ONLY <1>10, <1>11, <1>12, <1>13, <1>14, Zenon DEF Exact
<1> QED BY <1>1, <1>15, Zenon

\* PushedFilterExact holds of every plan: what ClickHouse returns for a filter
\* that DuckDB leaves to the scan are the rows DuckDB would have kept
\* (TransformFilter()).
THEOREM PushedFiltersExact ==
    ASSUME AreExpressions
    PROVE  Spec => []PushedFilterExact
<1>1. PlanInv => PushedFilterExact
  BY PushedFilter, Zenon DEF PushedFilterExact
<1> QED BY <1>1, PlanInvariant, PTL

-----------------------------------------------------------------------------
(* What the operators put out for a row.                                   *)

MarkConstants(op) == {op.constants[i] : i \in DOMAIN op.constants}

\* Output i of an operator over one with `width` outputs, which are `below`.
IsOutput(op, below, width, i, value, row) ==
    /\ op.type = "get" =>
         Mapped(op.map, i) \in DOMAIN op.ids /\ value = Read(op.ids[Mapped(op.map, i)], row)
    /\ op.type = "filter" => Mapped(op.map, i) \in 1..width /\ value = below[Mapped(op.map, i)]
    /\ op.type = "projection" => i \in DOMAIN op.exprs /\ value = Eval(op.exprs[i], below, "duckdb")
    /\ op.type = "mark" =>
         IF i = Len(Through(op.map, width)) + 1
           THEN value = In3(Eval(op.left, below, "duckdb"), MarkConstants(op))
           ELSE Mapped(op.map, i) \in 1..width /\ value = below[Mapped(op.map, i)]
    /\ op.type \notin {"get", "filter", "projection", "mark"} => i \in 1..width /\ value = below[i]

\* The outputs that an operator has for each type of operator.
LEMMA OutputsCases ==
    ASSUME NEW op, NEW below, NEW row
    PROVE  /\ op.type = "get" =>
                OutputsOf(op, below, row) = Kept(op.map, [i \in DOMAIN op.ids |-> Read(op.ids[i], row)])
           /\ op.type = "filter" => OutputsOf(op, below, row) = Kept(op.map, below)
           /\ op.type = "projection" =>
                OutputsOf(op, below, row) = [i \in DOMAIN op.exprs |-> Eval(op.exprs[i], below, "duckdb")]
           /\ op.type = "mark" =>
                OutputsOf(op, below, row) =
                  Append(Kept(op.map, below), In3(Eval(op.left, below, "duckdb"), MarkConstants(op)))
           /\ op.type \notin {"get", "filter", "projection", "mark"} => OutputsOf(op, below, row) = below
<1>1. op.type = "get" =>
        OutputsOf(op, below, row) = Kept(op.map, [i \in DOMAIN op.ids |-> Read(op.ids[i], row)])
  BY DEF OutputsOf
<1>2. op.type = "filter" => OutputsOf(op, below, row) = Kept(op.map, below)
  BY DEF OutputsOf
<1>3. op.type = "projection" =>
        OutputsOf(op, below, row) = [i \in DOMAIN op.exprs |-> Eval(op.exprs[i], below, "duckdb")]
  BY DEF OutputsOf
<1>4. op.type = "mark" =>
        OutputsOf(op, below, row) =
          Append(Kept(op.map, below), In3(Eval(op.left, below, "duckdb"), MarkConstants(op)))
  BY DEF OutputsOf, MarkConstants
<1>5. op.type \notin {"get", "filter", "projection", "mark"} => OutputsOf(op, below, row) = below
  BY DEF OutputsOf
<1> QED BY ONLY <1>1, <1>2, <1>3, <1>4, <1>5, Zenon

\* A map of outputs, applied to the values of the outputs and to their types.
LEMMA KeptAlike ==
    ASSUME NEW map, NEW types, NEW below, IsTuple(types), IsTuple(below), Len(below) = Len(types),
           map \in Seq(1..Len(types))
    PROVE  /\ IsTuple(Kept(map, below)) /\ IsTuple(Kept(map, types))
           /\ Len(Kept(map, below)) = Len(Kept(map, types))
           /\ Len(Kept(map, types)) = Len(Through(map, Len(types)))
           /\ DOMAIN Through(map, Len(types)) = 1..Len(Kept(map, types))
           /\ \A i \in 1..Len(Kept(map, types)) :
                Mapped(map, i) \in 1..Len(types) /\ Kept(map, below)[i] = below[Mapped(map, i)]
<1>1. PICK width : width = IF map = <<>> THEN Len(types) ELSE Len(map)
  OBVIOUS
<1>2. /\ IsTuple(Kept(map, types)) /\ Len(Kept(map, types)) = width
      /\ \A n : n = Len(types) => Len(Through(map, n)) = width
  BY ONLY IsTuple(types), map \in Seq(1..Len(types)), <1>1, KeptValue
<1>3. /\ IsTuple(Kept(map, below)) /\ Len(Kept(map, below)) = width
      /\ \A i \in 1..width : Mapped(map, i) \in 1..Len(below) /\ Kept(map, below)[i] = below[Mapped(map, i)]
  <2>1. width = (IF map = <<>> THEN Len(below) ELSE Len(map)) /\ map \in Seq(1..Len(below))
    BY <1>1, Zenon
  <2> QED BY ONLY IsTuple(below), <2>1, KeptValue
<1>4. DOMAIN Kept(map, types) = DOMAIN Through(map, Len(types))
  <2>1. PICK t : t = Through(map, Len(types))
    OBVIOUS
  <2>2. Kept(map, types) = [i \in DOMAIN t |-> types[t[i]]]
    BY <2>1, Zenon DEF Kept
  <2> QED BY ONLY <2>1, <2>2
<1>5. DOMAIN Kept(map, types) = 1..Len(Kept(map, types))
  BY <1>2, TupleDomain, Zenon
<1> QED BY <1>2, <1>3, <1>4, <1>5, Zenon

\* An operator puts out as many values as it has types, and each is what
\* IsOutput() says.
LEMMA OperatorOutputs ==
    ASSUME NEW op, NEW n, NEW types, NEW below, NEW row, NEW columns,
           IsOperator(op, n, DOMAIN types, columns),
           n # 1 => IsTuple(types) /\ IsTuple(below) /\ Len(below) = Len(types)
    PROVE  /\ IsTuple(OutputsOf(op, below, row))
           /\ Len(OutputsOf(op, below, row)) = Len(TypesOf(op, types))
           /\ \A i \in 1..Len(TypesOf(op, types)) :
                IsOutput(op, below, Len(types), i, OutputsOf(op, below, row)[i], row)
<1>1. CASE op.type = "get"
  <2>1. op.ids \in Seq({0} \cup DOMAIN columns) /\ op.map \in Seq(DOMAIN op.ids)
    BY <1>1 DEF IsOperator, IsGet
  <2>2. PICK ids, k : ids = op.ids /\ k = Len(op.ids)
    OBVIOUS
  <2>3. k \in Nat /\ DOMAIN ids = 1..k /\ ids = [i \in 1..k |-> ids[i]]
    BY <2>1, <2>2
  <2>4. PICK reads : reads = [i \in DOMAIN ids |-> Read(ids[i], row)]
    OBVIOUS
  <2>5. IsTuple(reads) /\ Len(reads) = k
    <3>1. DOMAIN reads = 1..k /\ reads = [i \in 1..k |-> reads[i]]
      BY ONLY <2>3, <2>4
    <3> QED BY ONLY <2>3, <3>1, TupleOf
  <2>6. IsTuple(ids) /\ Len(ids) = k
    BY ONLY <2>3, TupleOf
  <2>7. op.map \in Seq(1..k)
    BY <2>1, <2>2, <2>3, Zenon
  <2>8. /\ IsTuple(Kept(op.map, reads))
        /\ Len(Kept(op.map, reads)) = Len(Kept(op.map, ids))
        /\ DOMAIN Through(op.map, Len(ids)) = 1..Len(Kept(op.map, ids))
        /\ \A i \in 1..Len(Kept(op.map, ids)) :
             Mapped(op.map, i) \in 1..Len(ids) /\ Kept(op.map, reads)[i] = reads[Mapped(op.map, i)]
    <3>1. IsTuple(ids) /\ IsTuple(reads) /\ Len(reads) = Len(ids) /\ op.map \in Seq(1..Len(ids))
      BY <2>5, <2>6, <2>7, Zenon
    <3> QED BY ONLY <3>1, KeptAlike
  <2>9. OutputsOf(op, below, row) = Kept(op.map, reads)
    <3>1. OutputsOf(op, below, row) = Kept(op.map, [i \in DOMAIN op.ids |-> Read(op.ids[i], row)])
      BY ONLY <1>1 DEF OutputsOf
    <3>2. reads = [i \in DOMAIN op.ids |-> Read(op.ids[i], row)]
      BY ONLY <2>2, <2>4, Zenon
    <3> QED BY ONLY <3>1, <3>2, Zenon
  <2>10. TypesOf(op, types) = [i \in DOMAIN Through(op.map, Len(ids)) |-> "value"]
    BY <1>1, <2>2, TypesCases, Zenon
  <2>11. PICK w : w = Len(Kept(op.map, ids))
    OBVIOUS
  <2>12. w \in Nat /\ Len(TypesOf(op, types)) = w
    <3>1. w \in Nat
      BY <2>8, <2>11, Zenon DEF IsTuple
    <3>2. PICK t : t = TypesOf(op, types)
      OBVIOUS
    <3>3. t = [i \in 1..w |-> "value"]
      BY <2>8, <2>10, <2>11, <3>2, Zenon
    <3>4. DOMAIN t = 1..w /\ t = [i \in 1..w |-> t[i]]
      BY ONLY <3>3
    <3>5. Len(t) = w
      BY ONLY <3>1, <3>4, TupleOf
    <3> QED BY <3>1, <3>2, <3>5, Zenon
  <2>13. ASSUME NEW i \in 1..w
         PROVE  IsOutput(op, below, Len(types), i, OutputsOf(op, below, row)[i], row)
    <3>1. Mapped(op.map, i) \in 1..k /\ Kept(op.map, reads)[i] = reads[Mapped(op.map, i)]
      BY <2>6, <2>8, <2>11, Zenon
    <3>2. Mapped(op.map, i) \in DOMAIN ids /\ reads[Mapped(op.map, i)] = Read(ids[Mapped(op.map, i)], row)
      BY <2>3, <2>4, <3>1, Zenon
    <3>3. op.type \notin {"filter", "projection", "mark"} /\ op.type = "get"
      BY <1>1
    <3> QED BY <2>2, <2>9, <3>1, <3>2, <3>3, Zenon DEF IsOutput
  <2> QED BY <2>8, <2>9, <2>11, <2>12, <2>13, Zenon
<1>2. CASE op.type # "get"
  <2>1. IsTuple(types) /\ IsTuple(below) /\ Len(below) = Len(types) /\ DOMAIN types = 1..Len(types)
    BY <1>2, TupleDomain DEF IsOperator
  <2>2. CASE op.type = "filter"
    <3>1. op.map \in Seq(1..Len(types))
      BY <2>1, <2>2 DEF IsOperator, IsFilter
    <3>2. /\ IsTuple(Kept(op.map, below))
          /\ Len(Kept(op.map, below)) = Len(Kept(op.map, types))
          /\ \A i \in 1..Len(Kept(op.map, types)) :
               Mapped(op.map, i) \in 1..Len(types) /\ Kept(op.map, below)[i] = below[Mapped(op.map, i)]
      BY ONLY <2>1, <3>1, KeptAlike
    <3>3. OutputsOf(op, below, row) = Kept(op.map, below) /\ TypesOf(op, types) = Kept(op.map, types)
      <4>1. OutputsOf(op, below, row) = Kept(op.map, below)
        BY <2>2, OutputsCases, Zenon
      <4>2. TypesOf(op, types) = Kept(op.map, types)
        BY <2>2, TypesCases, Zenon
      <4> QED BY <4>1, <4>2
    <3>4. op.type \notin {"get", "projection", "mark"} /\ op.type = "filter"
      BY <2>2
    <3> QED BY <3>2, <3>3, <3>4, Zenon DEF IsOutput
  <2>3. CASE op.type = "projection"
    <3>1. op.exprs \in Seq(BoundTrees(DOMAIN types))
      BY <2>3 DEF IsOperator, IsProjection
    <3>2. PICK k \in Nat : DOMAIN op.exprs = 1..k
      BY <3>1
    <3>3. PICK out, t : out = OutputsOf(op, below, row) /\ t = TypesOf(op, types)
      OBVIOUS
    <3>4. out = [i \in 1..k |-> Eval(op.exprs[i], below, "duckdb")] /\ t = [i \in 1..k |-> TypeOf(op.exprs[i], types)]
      <4>1. OutputsOf(op, below, row) = [i \in DOMAIN op.exprs |-> Eval(op.exprs[i], below, "duckdb")]
        BY ONLY <2>3 DEF OutputsOf
      <4>2. TypesOf(op, types) = [i \in DOMAIN op.exprs |-> TypeOf(op.exprs[i], types)]
        BY <2>3, TypesCases, Zenon
      <4> QED BY <3>2, <3>3, <4>1, <4>2, Zenon
    <3>5. /\ DOMAIN out = 1..k /\ out = [i \in 1..k |-> out[i]]
          /\ DOMAIN t = 1..k /\ t = [i \in 1..k |-> t[i]]
          /\ \A i \in 1..k : out[i] = Eval(op.exprs[i], below, "duckdb")
      BY ONLY <3>4
    <3>6. IsTuple(out) /\ Len(out) = k /\ Len(t) = k
      BY ONLY k \in Nat, <3>5, TupleOf
    <3>7. op.type \notin {"get", "filter", "mark"} /\ op.type = "projection"
      BY <2>3
    <3>8. \A i \in 1..k : IsOutput(op, below, Len(types), i, out[i], row)
      BY <3>2, <3>5, <3>7, Zenon DEF IsOutput
    <3> QED BY <3>3, <3>6, <3>8, Zenon
  <2>4. CASE op.type = "mark"
    <3>1. op.map \in Seq(1..Len(types))
      BY <2>1, <2>4 DEF IsOperator, IsMark
    <3>2. PICK kept, keptTypes : kept = Kept(op.map, below) /\ keptTypes = Kept(op.map, types)
      OBVIOUS
    <3>3. /\ IsTuple(kept) /\ IsTuple(keptTypes) /\ Len(kept) = Len(keptTypes)
          /\ Len(keptTypes) = Len(Through(op.map, Len(types)))
          /\ \A i \in 1..Len(keptTypes) :
               Mapped(op.map, i) \in 1..Len(types) /\ kept[i] = below[Mapped(op.map, i)]
      BY ONLY <2>1, <3>1, <3>2, KeptAlike
    <3>4. PICK x : x = In3(Eval(op.left, below, "duckdb"), MarkConstants(op))
      OBVIOUS
    <3>5. OutputsOf(op, below, row) = Append(kept, x) /\ TypesOf(op, types) = Append(keptTypes, "truth")
      BY <2>4, <3>2, <3>4, OutputsCases, TypesCases, Zenon
    <3>6. /\ IsTuple(Append(kept, x)) /\ Len(Append(kept, x)) = Len(kept) + 1
          /\ \A i \in 1..Len(kept) : Append(kept, x)[i] = kept[i]
          /\ Append(kept, x)[Len(kept) + 1] = x
      BY ONLY <3>3, TupleAppend
    <3>7. Len(Append(keptTypes, "truth")) = Len(keptTypes) + 1
      BY ONLY <3>3, TupleAppend
    <3>8. ASSUME NEW i \in 1..(Len(kept) + 1)
          PROVE  IsOutput(op, below, Len(types), i, Append(kept, x)[i], row)
      <4>1. op.type \notin {"get", "filter", "projection"} /\ op.type = "mark"
        BY <2>4
      <4>2. Len(kept) \in Nat
        BY <3>3, Zenon DEF IsTuple
      <4>3. i # Len(kept) + 1 => i \in 1..Len(kept)
        BY ONLY <4>2, i \in 1..(Len(kept) + 1)
      <4> QED BY <3>3, <3>4, <3>6, <4>1, <4>3, Zenon DEF IsOutput
    <3> QED BY <3>3, <3>5, <3>6, <3>7, <3>8, Zenon
  <2>5. CASE op.type \notin {"get", "filter", "projection", "mark"}
    <3>1. OutputsOf(op, below, row) = below /\ TypesOf(op, types) = types
      BY <2>5, OutputsCases, TypesCases, Zenon
    <3>2. op.type # "get" /\ op.type # "filter" /\ op.type # "projection" /\ op.type # "mark"
      BY <2>5
    <3>3. \A i \in 1..Len(types) : IsOutput(op, below, Len(types), i, below[i], row)
      BY <3>2, Zenon DEF IsOutput
    <3> QED BY <2>1, <3>1, <3>3, Zenon
  <2> QED BY <1>2, <2>2, <2>3, <2>4, <2>5
<1> QED BY <1>1, <1>2

\* For every row, an operator has as many outputs as it has types of outputs.
LEMMA PlanOutputs ==
    ASSUME PlanInv, NEW row
    PROVE  \A n \in 1..Len(plan) :
             /\ IsTuple(Outputs(plan, row)[n]) /\ Len(Outputs(plan, row)[n]) = Len(Types(plan)[n])
             /\ \A i \in 1..Len(Types(plan)[n]) :
                  IsOutput(plan[n], Outputs(plan, row)[n - 1], Len(Types(plan)[n - 1]), i,
                           Outputs(plan, row)[n][i], row)
<1> DEFINE good(n) ==
             /\ IsTuple(Outputs(plan, row)[n]) /\ Len(Outputs(plan, row)[n]) = Len(Types(plan)[n])
             /\ \A i \in 1..Len(Types(plan)[n]) :
                  IsOutput(plan[n], Outputs(plan, row)[n - 1], Len(Types(plan)[n - 1]), i,
                           Outputs(plan, row)[n][i], row)
           Bad == {n \in 1..Len(plan) : ~good(n)}
<1> SUFFICES ASSUME Bad # {} PROVE FALSE
  BY Zenon
<1>1. Len(plan) \in Nat
  BY PlanScan, Zenon
<1>2. PICK n \in Bad : \A m \in Bad : n <= m
  <2>1. Bad \subseteq Nat
    BY <1>1
  <2> HIDE DEF Bad
  <2> QED BY <2>1, AlongTypes!LeastNatural
<1>3. n \in 1..Len(plan) /\ ~good(n)
  BY <1>2, Zenon
<1> HIDE DEF Bad
<1>4. n # 1 => n - 1 \in 1..Len(plan) /\ good(n - 1)
  <2> SUFFICES ASSUME n # 1 PROVE n - 1 \in 1..Len(plan) /\ good(n - 1)
    BY Zenon
  <2>1. n - 1 \in 1..Len(plan) /\ ~(n <= n - 1)
    BY ONLY <1>1, <1>3, n # 1
  <2>2. n - 1 \notin Bad
    BY <1>2, <2>1, Zenon
  <2> QED BY <2>1, <2>2, Zenon DEF Bad
<1>5. PICK op, types, below : op = plan[n] /\ types = Types(plan)[n - 1] /\ below = Outputs(plan, row)[n - 1]
  OBVIOUS
<1>6. IsOperator(op, n, DOMAIN types, table.columns)
  BY <1>3, <1>5, PlanScan, Zenon
<1>7. n # 1 => IsTuple(types) /\ IsTuple(below) /\ Len(below) = Len(types)
  <2> SUFFICES ASSUME n # 1 PROVE IsTuple(types) /\ IsTuple(below) /\ Len(below) = Len(types)
    BY Zenon
  <2>1. types \in Seq({"value", "truth"})
    BY <1>4, <1>5, PlanTypes, Zenon
  <2>2. IsTuple(types)
    BY ONLY <2>1, SeqTuple
  <2> QED BY <1>4, <1>5, <2>2, Zenon
<1>8. /\ IsTuple(OutputsOf(op, below, row))
      /\ Len(OutputsOf(op, below, row)) = Len(TypesOf(op, types))
      /\ \A i \in 1..Len(TypesOf(op, types)) :
           IsOutput(op, below, Len(types), i, OutputsOf(op, below, row)[i], row)
  BY ONLY <1>6, <1>7, OperatorOutputs
<1>9. Types(plan)[n] = TypesOf(op, types) /\ Outputs(plan, row)[n] = OutputsOf(op, below, row)
  BY <1>1, <1>3, <1>5, TypesUnfold, OutputsUnfold, Zenon
<1> QED BY ONLY <1>3, <1>5, <1>8, <1>9, Zenon

\* The outputs of a plan's operators are those in a longer plan.
LEMMA OutputsPrefix ==
    ASSUME NEW p, NEW q, NEW m \in Nat, Len(p) \in Nat, Len(q) \in Nat, m <= Len(p), m <= Len(q),
           \A n \in 1..m : p[n] = q[n], NEW row
    PROVE  \A n \in 0..m : Outputs(p, row)[n] = Outputs(q, row)[n]
<1> DEFINE Bad == {n \in 0..m : Outputs(p, row)[n] # Outputs(q, row)[n]}
<1> SUFFICES ASSUME Bad # {} PROVE FALSE
  BY Zenon
<1>1. PICK n \in Bad : \A k \in Bad : n <= k
  <2>1. Bad \subseteq Nat
    OBVIOUS
  <2> HIDE DEF Bad
  <2> QED BY <2>1, AlongTypes!LeastNatural
<1>2. n \in 0..m /\ Outputs(p, row)[n] # Outputs(q, row)[n]
  BY <1>1, Zenon
<1>3. CASE n = 0
  BY <1>2, <1>3, OutputsUnfold, Zenon
<1>4. CASE n # 0
  <2>1. n \in 1..m /\ n \in 1..Len(p) /\ n \in 1..Len(q) /\ n - 1 \in 0..m /\ ~(n <= n - 1)
    BY <1>2, <1>4
  <2>2. Outputs(p, row)[n - 1] = Outputs(q, row)[n - 1]
    BY <1>1, <2>1, Zenon
  <2>3. /\ Outputs(p, row)[n] = OutputsOf(p[n], Outputs(p, row)[n - 1], row)
        /\ Outputs(q, row)[n] = OutputsOf(q[n], Outputs(q, row)[n - 1], row)
    BY <2>1, OutputsUnfold, Zenon
  <2>4. p[n] = q[n]
    BY <2>1, Zenon
  <2> QED BY ONLY <1>2, <2>2, <2>3, <2>4, Zenon
<1> QED BY <1>3, <1>4

\* What an operator does to a row, the outputs of the operator below being these.
LetsPass(op, below, row) ==
    /\ op.type = "get" => \A i \in DOMAIN op.filters :
         Holds(op.filters[i].expr, <<Read(op.ids[op.filters[i].position], row)>>, "duckdb")
    /\ op.type = "filter" => \A i \in DOMAIN op.exprs : Holds(op.exprs[i], below, "duckdb")
    /\ op.type # "empty"

\* A row passes a plan if each operator lets it pass.
LEMMA SurvivesCases ==
    ASSUME NEW p, NEW row
    PROVE  Survives(p, row) <=> \A n \in DOMAIN p : LetsPass(p[n], Outputs(p, row)[n - 1], row)
<1> DEFINE passes(op, below) ==
        CASE op.type = "get" ->
               \A i \in DOMAIN op.filters :
                 Holds(op.filters[i].expr, <<Read(op.ids[op.filters[i].position], row)>>, "duckdb")
          [] op.type = "filter" -> \A i \in DOMAIN op.exprs : Holds(op.exprs[i], below, "duckdb")
          [] OTHER -> op.type # "empty"
<1>1. \A op, below : passes(op, below) <=> LetsPass(op, below, row)
  <2> SUFFICES ASSUME NEW op, NEW below PROVE passes(op, below) <=> LetsPass(op, below, row)
    BY Zenon
  <2> QED BY DEF LetsPass
<1>2. Survives(p, row) <=> \A n \in DOMAIN p : passes(p[n], Outputs(p, row)[n - 1])
  BY Zenon DEF Survives
<1> HIDE DEF passes
<1> QED BY <1>1, <1>2, Zenon

-----------------------------------------------------------------------------
(* A LIMIT or TOP N in the scan.                                           *)

\* StepColumn(), case by case.
LEMMA StepColumnCases ==
    ASSUME NEW n, NEW i, NEW below
    PROVE  /\ plan[n].type = "get" =>
                \/ StepColumn(n, i, below) = 0
                \/ /\ StepColumn(n, i, below) = plan[n].ids[Mapped(plan[n].map, i)]
                   /\ SupportsPushdown(plan[n].ids[Mapped(plan[n].map, i)])
           /\ plan[n].type = "projection" =>
                \/ StepColumn(n, i, below) = 0
                \/ /\ plan[n].exprs[i].op = "ref"
                   /\ StepColumn(n, i, below) = below[plan[n].exprs[i].info]
           /\ plan[n].type \notin {"get", "projection"} => StepColumn(n, i, below) = 0
<1>1. plan[n].type = "get" =>
        \/ StepColumn(n, i, below) = 0
        \/ /\ StepColumn(n, i, below) = plan[n].ids[Mapped(plan[n].map, i)]
           /\ SupportsPushdown(plan[n].ids[Mapped(plan[n].map, i)])
  BY DEF StepColumn
<1>2. plan[n].type = "projection" =>
        \/ StepColumn(n, i, below) = 0
        \/ /\ plan[n].exprs[i].op = "ref"
           /\ StepColumn(n, i, below) = below[plan[n].exprs[i].info]
  BY DEF StepColumn
<1>3. plan[n].type \notin {"get", "projection"} => StepColumn(n, i, below) = 0
  BY DEF StepColumn
<1> QED BY ONLY <1>1, <1>2, <1>3, Zenon

\* The expressions of a projection refer to outputs of the operator below.
LEMMA ProjectionExpr ==
    ASSUME PlanInv, NEW n \in 1..Len(plan), plan[n].type = "projection", NEW i \in DOMAIN plan[n].exprs
    PROVE  /\ n - 1 \in 1..Len(plan)
           /\ plan[n].exprs[i] \in BoundTrees(DOMAIN Types(plan)[n - 1])
           /\ plan[n].exprs[i] \in Trees
           /\ plan[n].exprs[i].op = "ref" => plan[n].exprs[i].info \in 1..Len(Types(plan)[n - 1])
<1>1. PICK op, D : op = plan[n] /\ D = DOMAIN Types(plan)[n - 1]
  OBVIOUS
<1>2. IsOperator(op, n, D, table.columns)
  BY <1>1, PlanScan, Zenon
<1>3. op.type = "projection"
  BY <1>1, Zenon
<1>4. IsProjection(op, D) /\ n # 1
  BY ONLY <1>2, <1>3 DEF IsOperator
<1>5. n - 1 \in 1..Len(plan)
  <2>1. Len(plan) \in Nat
    BY PlanScan, Zenon
  <2> QED BY ONLY <1>4, <2>1, n \in 1..Len(plan)
<1>6. D = 1..Len(Types(plan)[n - 1])
  BY <1>1, <1>5, PlanTypes, Zenon
<1>7. PICK e : e = op.exprs[i]
  OBVIOUS
<1>8. e \in BoundTrees(D)
  <2>1. op.exprs \in Seq(BoundTrees(D)) /\ i \in DOMAIN op.exprs
    BY <1>1, <1>4, Zenon DEF IsProjection
  <2> QED BY ONLY <1>7, <2>1
<1>9. e \in Trees /\ IsExpressionNode(e, D)
  BY <1>8, BoundTreesBound, Zenon DEF AreBound
<1>10. e.op = "ref" => e.info \in D
  BY <1>9, Zenon DEF IsExpressionNode
<1> QED BY <1>1, <1>5, <1>6, <1>7, <1>8, <1>9, <1>10, Zenon

IsTracedColumn(n, i) ==
    LET c == TraceColumns[n][i] IN
    c # 0 => /\ c \in DOMAIN table.columns
             /\ SupportsPushdown(c)
             /\ \A row : Outputs(plan, row)[n][i] = Read(c, row)

\* The column TraceColumn() finds is the one DuckDB reads.
LEMMA ColumnTraced ==
    ASSUME AreExpressions, PlanInv
    PROVE  \A n \in 1..Len(plan) : \A i \in 1..Len(Types(plan)[n]) : IsTracedColumn(n, i)
<1> DEFINE good(n) == \A i \in 1..Len(Types(plan)[n]) : IsTracedColumn(n, i)
           Bad == {n \in 1..Len(plan) : ~good(n)}
<1> SUFFICES ASSUME Bad # {} PROVE FALSE
  BY Zenon
<1>1. Len(plan) \in Nat
  BY PlanScan, Zenon
<1>2. PICK n \in Bad : \A m \in Bad : n <= m
  <2>1. Bad \subseteq Nat
    BY <1>1
  <2> HIDE DEF Bad
  <2> QED BY <2>1, AlongTypes!LeastNatural
<1>3. n \in 1..Len(plan) /\ ~good(n)
  BY <1>2, Zenon
<1> HIDE DEF Bad
<1>4. PICK i \in 1..Len(Types(plan)[n]) : ~IsTracedColumn(n, i)
  BY <1>3, Zenon
<1>5. PICK op, below, c : op = plan[n] /\ below = TraceColumns[n - 1] /\ c = TraceColumns[n][i]
  OBVIOUS
<1>6. c = StepColumn(n, i, below)
  <2>1. TraceColumns[n] = ColumnsStep(0, n, below)
    BY <1>1, <1>3, <1>5, ColumnsUnfold, Zenon
  <2>2. TraceColumns[n] = [j \in DOMAIN Types(plan)[n] |-> StepColumn(n, j, below)]
    BY <2>1, Zenon DEF ColumnsStep
  <2>3. i \in DOMAIN Types(plan)[n]
    BY <1>3, PlanTypes, Zenon
  <2> QED BY <1>5, <2>2, <2>3, Zenon
<1>7. \A row : IsOutput(op, Outputs(plan, row)[n - 1], Len(Types(plan)[n - 1]), i, Outputs(plan, row)[n][i], row)
  BY <1>3, <1>5, PlanOutputs, Zenon
<1>8. c # 0
  BY <1>4, <1>5, Zenon DEF IsTracedColumn
<1>9. CASE op.type = "get"
  <2>1. c = op.ids[Mapped(op.map, i)] /\ SupportsPushdown(c)
    <3>1. plan[n].type = "get"
      BY <1>5, <1>9, Zenon
    <3>2. \/ c = 0
          \/ c = plan[n].ids[Mapped(plan[n].map, i)] /\ SupportsPushdown(plan[n].ids[Mapped(plan[n].map, i)])
      BY ONLY <1>6, <3>1, StepColumnCases
    <3> QED BY <1>5, <1>8, <3>2, Zenon
  <2>2. Mapped(op.map, i) \in DOMAIN op.ids /\ \A row : Outputs(plan, row)[n][i] = Read(c, row)
    BY <1>7, <1>9, <2>1, Zenon DEF IsOutput
  <2>3. op.ids \in Seq({0} \cup DOMAIN table.columns)
    <3>1. n = 1 /\ IsGet(plan[1], table.columns)
      BY <1>3, <1>5, <1>9, PlanScan, Zenon
    <3> QED BY <1>5, <3>1, Zenon DEF IsGet
  <2>4. c \in DOMAIN table.columns
    BY ONLY <1>8, <2>1, <2>2, <2>3
  <2> QED BY <1>4, <1>5, <2>1, <2>2, <2>4, Zenon DEF IsTracedColumn
<1>10. CASE op.type = "projection"
  <2>1. op.exprs[i].op = "ref" /\ c = below[op.exprs[i].info]
    <3>1. plan[n].type = "projection" =>
            \/ StepColumn(n, i, below) = 0
            \/ /\ plan[n].exprs[i].op = "ref"
               /\ StepColumn(n, i, below) = below[plan[n].exprs[i].info]
      BY DEF StepColumn
    <3> QED BY ONLY <1>5, <1>6, <1>8, <1>10, <3>1, Zenon
  <2>2. i \in DOMAIN op.exprs /\ \A row : Outputs(plan, row)[n][i] = Eval(op.exprs[i], Outputs(plan, row)[n - 1], "duckdb")
    BY <1>7, <1>10, Zenon DEF IsOutput
  <2>3. PICK e, j : e = op.exprs[i] /\ j = e.info
    OBVIOUS
  <2>4. n - 1 \in 1..Len(plan) /\ e \in Trees /\ e.op = "ref" /\ j \in 1..Len(Types(plan)[n - 1])
    BY <1>3, <1>5, <1>10, <2>1, <2>2, <2>3, ProjectionExpr, Zenon
  <2>5. \A row : Outputs(plan, row)[n][i] = Outputs(plan, row)[n - 1][j]
    <3>1. e.op \in {"ref", "column", "uuid", "enum"}
      BY <2>4
    <3>2. \A env : Eval(e, env, "duckdb") = env[j]
      BY <2>3, <2>4, <3>1, EvalLeaf, Zenon
    <3> QED BY <2>2, <2>3, <3>2, Zenon
  <2>6. IsTracedColumn(n - 1, j)
    <3>1. ~(n <= n - 1)
      BY ONLY <1>1, <1>3
    <3>2. n - 1 \notin Bad
      BY <1>2, <3>1, Zenon
    <3> QED BY <2>4, <3>2, Zenon DEF Bad
  <2>7. c = TraceColumns[n - 1][j]
    BY <1>5, <2>1, <2>3, Zenon
  <2>8. /\ c \in DOMAIN table.columns /\ SupportsPushdown(c)
        /\ \A row : Outputs(plan, row)[n - 1][j] = Read(c, row)
    BY <1>8, <2>6, <2>7, Zenon DEF IsTracedColumn
  <2> QED BY <1>4, <1>5, <2>5, <2>8, Zenon DEF IsTracedColumn
<1>11. CASE op.type \notin {"get", "projection"}
  BY <1>5, <1>6, <1>8, <1>11, StepColumnCases, Zenon
<1> QED BY <1>9, <1>10, <1>11

\* The order of a column that is compared as DuckDB compares it.
LEMMA KeyCompares ==
    ASSUME AreExpressions, PlanInv, NEW c \in DOMAIN table.columns, SupportsPushdown(c),
           NEW a \in Rows, NEW b \in Rows
    PROVE  Compare3("<", Read(c, a), Read(c, b))
             = Eval(Node("<", 0, <<Leaf(c), Constant(b[c])>>), a, "clickhouse")
<1>1. c # 0 /\ Kind(c) \in {"plain", "enum"}
  BY DEF PlanInv, SupportsPushdown
<1>2. /\ Read(c, a) = a[c] /\ Read(c, b) = b[c] /\ b[c] \in Values \cup {Null}
  <2>1. Kind(c) # "coarse"
    BY <1>1
  <2> QED BY <1>1, <2>1, NotCoarse, Zenon
<1>3. b[c] \in Int \cup {Null}
  BY <1>2, ValuesAssumption, RepresentableAssumption
<1>4. PICK leaf, d : leaf = Leaf(c) /\ d = Constant(b[c])
  OBVIOUS
<1>5. leaf \in Trees /\ leaf.info = c /\ leaf.op \in {"column", "uuid", "enum"} /\ leaf.op # "uuid"
  <2>1. Kind(c) # "uuid"
    BY <1>1
  <2> QED BY <1>4, <2>1, LeafTreeOf, Zenon
<1>6. d \in Trees /\ Eval(d, a, "clickhouse") = b[c]
  <2>1. PICK v : v = b[c]
    OBVIOUS
  <2>2. v \in Int \cup {Null}
    BY <1>3, <2>1, Zenon
  <2>3. Constant(v) \in Trees /\ Eval(Constant(v), a, "clickhouse") = v
    BY <2>2, ConstantTree, Zenon
  <2> QED BY <1>4, <2>1, <2>3, Zenon
<1>7. Eval(leaf, a, "clickhouse") = a[c]
  <2>1. leaf.op \in {"ref", "column", "uuid", "enum"}
    BY <1>5
  <2> QED BY <1>5, <2>1, EvalLeaf, Zenon
<1>8. PICK e : e = Node("<", 0, <<leaf, d>>)
  OBVIOUS
<1>9. e.op = "<" /\ DOMAIN e.args = {1, 2} /\ e.args[1] = leaf /\ e.args[2] = d
  BY ONLY <1>8 DEF Node
<1>10. e \in Trees
  <2>1. "<" \in Ops /\ 0 \in Infos
    BY NodeOps DEF Comparisons, Ordered
  <2> QED BY <1>5, <1>6, <1>8, <2>1, TreeOverTwo
<1>11. Eval(e, a, "clickhouse") = Compare3("<", Eval(leaf, a, "clickhouse"), Eval(d, a, "clickhouse"))
  <2>1. /\ e.op \in Comparisons /\ {1, 2} \subseteq DOMAIN e.args
        /\ ~(e.op \in Ordered /\ e.args[1].op = "uuid") /\ e.op # "!="
    BY <1>5, <1>9 DEF Comparisons, Ordered
  <2>2. Eval(e, a, "clickhouse")
          = Compare3(e.op, Eval(e.args[1], a, "clickhouse"), Eval(e.args[2], a, "clickhouse"))
    BY ONLY AreExpressions, <1>10, <2>1, EvalComparison
  <2> QED BY ONLY <1>9, <2>2, Zenon
<1> QED BY <1>2, <1>4, <1>6, <1>7, <1>8, <1>11, Zenon

\* Below a LIMIT that is pushed: the scan, all of its filters pushed, and projections.
LEMMA LimitExact ==
    ASSUME AreExpressions, PlanInv, NEW n \in 2..Len(plan), PushesLimit(n),
           NEW below, below = SubSeq(plan, 1, n - 1)
    PROVE  /\ \A row \in Rows :
                (\A i \in DOMAIN plan[1].filters :
                    Pushable(plan[1].filters[i]) => Returned(plan[1].filters[i], row)) <=> Survives(below, row)
           /\ plan[n].type = "top_n" => \A a, b \in Rows :
                Compare3("<", Outputs(below, a)[n - 1][plan[n].order], Outputs(below, b)[n - 1][plan[n].order])
                  = Eval(Node("<", 0, <<Leaf(TraceColumn(n - 1, plan[n].order)),
                                        Constant(b[TraceColumn(n - 1, plan[n].order)])>>), a, "clickhouse")
<1>1. Len(plan) \in Nat /\ IsTuple(plan) /\ n - 1 \in 1..Len(plan) /\ n \in 1..Len(plan)
  <2>1. Len(plan) \in Nat
    BY PlanScan, Zenon
  <2>2. IsTuple(plan)
    BY Zenon DEF PlanInv, IsPlan
  <2>3. n - 1 \in 1..Len(plan) /\ n \in 1..Len(plan)
    BY ONLY <2>1, n \in 2..Len(plan)
  <2> QED BY <2>1, <2>2, <2>3
<1>2. PICK m \in Nat : m = n - 1 /\ m >= 1 /\ m <= Len(plan)
  BY ONLY <1>1
<1>3. Len(below) = m /\ DOMAIN below = 1..m /\ \A k \in 1..m : below[k] = plan[k]
  <2>1. PICK p, S : p = plan /\ S = {plan[k] : k \in 1..Len(plan)}
    OBVIOUS
  <2>2. p \in Seq(S) /\ Len(p) = Len(plan)
    BY ONLY <1>1, <2>1 DEF IsTuple
  <2>3. below = SubSeq(p, 1, m)
    BY <1>2, <2>1, Zenon
  <2>4. PICK q : q = SubSeq(p, 1, m)
    OBVIOUS
  <2>5. Len(q) = m /\ q \in Seq(S) /\ \A k \in 1..m : q[k] = p[k]
    BY ONLY <1>2, <2>2, <2>4
  <2>6. DOMAIN q = 1..m
    BY ONLY <2>5
  <2> QED BY ONLY <2>1, <2>3, <2>4, <2>5, <2>6, Zenon
<1>4. \A row : Outputs(below, row)[m] = Outputs(plan, row)[m]
  <2>1. m \in 0..m /\ Len(below) \in Nat /\ m <= Len(below) /\ Len(plan) \in Nat /\ m <= Len(plan)
    BY <1>1, <1>2, <1>3
  <2>2. \A k \in 1..m : below[k] = plan[k]
    BY <1>3, Zenon
  <2>3. ASSUME NEW row PROVE \A k \in 0..m : Outputs(below, row)[k] = Outputs(plan, row)[k]
    <3>1. PICK p : p = plan
      OBVIOUS
    <3>2. /\ Len(below) \in Nat /\ m <= Len(below) /\ Len(p) \in Nat /\ m <= Len(p)
          /\ \A k \in 1..m : below[k] = p[k]
      BY ONLY <2>1, <2>2, <3>1, Zenon
    <3>3. \A k \in 0..m : Outputs(below, row)[k] = Outputs(p, row)[k]
      BY ONLY <3>2, m \in Nat, OutputsPrefix
    <3> QED BY ONLY <3>1, <3>3, Zenon
  <2> QED BY <2>1, <2>3, Zenon
<1>5. ASSUME NEW row \in Rows
      PROVE  (\A i \in DOMAIN plan[1].filters :
                  Pushable(plan[1].filters[i]) => Returned(plan[1].filters[i], row)) <=> Survives(below, row)
  <2>1. \A i \in DOMAIN plan[1].filters :
            Pushable(plan[1].filters[i]) /\ TransformFilter(plan[1].filters[i]).op # "throw"
    BY Zenon DEF PushesLimit, AllFiltersPushed
  <2>2. \A i \in DOMAIN plan[1].filters : Returned(plan[1].filters[i], row) <=> Passes(plan[1].filters[i], row)
    BY <2>1, PushedFilter, Zenon
  <2>3. ASSUME NEW k \in 1..m, NEW outputs
        PROVE  LetsPass(plan[k], outputs, row)
                 <=> (k = 1 => \A i \in DOMAIN plan[1].filters : Passes(plan[1].filters[i], row))
    <3>1. CASE k = 1
      <4>1. PICK op : op = plan[1]
        OBVIOUS
      <4>2. op.type = "get"
        BY <4>1, PlanScan, Zenon
      <4>3. LetsPass(op, outputs, row) <=> \A i \in DOMAIN op.filters :
              Holds(op.filters[i].expr, <<Read(op.ids[op.filters[i].position], row)>>, "duckdb")
        BY <4>2 DEF LetsPass
      <4>4. \A i \in DOMAIN op.filters : Passes(op.filters[i], row)
              <=> Holds(op.filters[i].expr, <<Read(op.ids[op.filters[i].position], row)>>, "duckdb")
        BY <4>1, Zenon DEF Passes
      <4> QED BY <3>1, <4>1, <4>3, <4>4, Zenon
    <3>2. CASE k # 1
      <4>1. k \in 2..(n - 1)
        BY ONLY <1>2, <3>2, k \in 1..m, n \in 2..Len(plan)
      <4>2. plan[k].type = "projection"
        BY <4>1, Zenon DEF PushesLimit, FindClickhouseScan
      <4>3. LetsPass(plan[k], outputs, row)
        BY <4>2 DEF LetsPass
      <4> QED BY <3>2, <4>3
    <3> QED BY <3>1, <3>2
  <2>4. Survives(below, row) <=> \A k \in 1..m : LetsPass(plan[k], Outputs(below, row)[k - 1], row)
    BY <1>3, SurvivesCases, Zenon
  <2>5. 1 \in 1..m
    BY <1>2
  <2>6. Survives(below, row) <=> \A i \in DOMAIN plan[1].filters : Passes(plan[1].filters[i], row)
    BY <2>3, <2>4, <2>5, Zenon
  <2> QED BY <2>1, <2>2, <2>6, Zenon
<1>6. ASSUME plan[n].type = "top_n", NEW a \in Rows, NEW b \in Rows
      PROVE  Compare3("<", Outputs(below, a)[n - 1][plan[n].order], Outputs(below, b)[n - 1][plan[n].order])
               = Eval(Node("<", 0, <<Leaf(TraceColumn(n - 1, plan[n].order)),
                                     Constant(b[TraceColumn(n - 1, plan[n].order)])>>), a, "clickhouse")
  <2>1. PICK i, c : i = plan[n].order /\ c = TraceColumn(n - 1, plan[n].order)
    OBVIOUS
  <2>2. c # 0 /\ c = TraceColumns[m][i]
    BY <1>2, <1>6, <2>1, Zenon DEF PushesLimit, TraceColumn
  <2>3. i \in 1..Len(Types(plan)[m])
    <3>1. IsOperator(plan[n], n, DOMAIN Types(plan)[m], table.columns)
      BY <1>1, <1>2, PlanScan, Zenon
    <3>2. i \in DOMAIN Types(plan)[m]
      BY <1>6, <2>1, <3>1, Zenon DEF IsOperator
    <3> QED BY <1>1, <1>2, <3>2, PlanTypes, Zenon
  <2>4. IsTracedColumn(m, i)
    BY <1>1, <1>2, <2>3, ColumnTraced, Zenon
  <2>5. /\ c \in DOMAIN table.columns /\ SupportsPushdown(c)
        /\ \A row : Outputs(plan, row)[m][i] = Read(c, row)
    BY <2>2, <2>4, Zenon DEF IsTracedColumn
  <2>6. \A row : Outputs(below, row)[n - 1][i] = Read(c, row)
    BY <1>2, <1>4, <2>5, Zenon
  <2>7. Compare3("<", Read(c, a), Read(c, b)) = Eval(Node("<", 0, <<Leaf(c), Constant(b[c])>>), a, "clickhouse")
    BY <2>5, KeyCompares, Zenon
  <2> QED BY <2>1, <2>6, <2>7, Zenon
<1> QED BY <1>5, <1>6, Zenon

\* LimitOverExactRows holds of every plan: a LIMIT or TOP N that moves into the
\* scan's query cuts there what DuckDB would have cut (PushesLimit(),
\* TraceColumn()).
THEOREM LimitsExact ==
    ASSUME AreExpressions
    PROVE  Spec => []LimitOverExactRows
<1>1. PlanInv => LimitOverExactRows
  BY LimitExact, Zenon DEF LimitOverExactRows
<1> QED BY <1>1, PlanInvariant, PTL

-----------------------------------------------------------------------------
(* ClickhouseDml: what the outputs of the plan's operators become.         *)

\* A column an UPDATE or DELETE may refer to is read as DuckDB reads it.
LEMMA ColumnSqlValue ==
    ASSUME AreExpressions, PlanInv, NEW c \in {0} \cup DOMAIN table.columns, NEW row \in Rows, NEW system
    PROVE  \/ ColumnSql(c).op = "throw"
           \/ /\ c \in DOMAIN table.columns /\ Kind(c) # "coarse"
              /\ ColumnSql(c) \in Trees /\ ColumnSql(c).op \notin {"throw", "nothing", "enum"}
              /\ ColumnSql(c).op = "uuid" => Kind(c) = "uuid"
              /\ Eval(ColumnSql(c), row, system) = Read(c, row)
<1>1. CASE c = 0 \/ Kind(c) = "coarse"
  <2>1. ColumnSql(c) = Throw
    BY <1>1, Zenon DEF ColumnSql, IsComparedExactly
  <2> QED BY <2>1, ThrowOp, Zenon
<1>2. CASE ~(c = 0 \/ Kind(c) = "coarse")
  <2>1. c \in DOMAIN table.columns /\ c # 0 /\ Kind(c) # "coarse"
    BY <1>2
  <2>2. Read(c, row) = row[c]
    BY <2>1, NotCoarse, Zenon
  <2>3. PICK leaf : leaf = Leaf(c)
    OBVIOUS
  <2>4. /\ leaf \in Trees /\ leaf.info = c /\ leaf.op \in {"column", "uuid", "enum"}
        /\ leaf.op = "uuid" <=> Kind(c) = "uuid"
        /\ leaf.op = "enum" <=> Kind(c) = "enum"
    BY <2>1, <2>3, LeafTreeOf, Zenon
  <2>5. Eval(leaf, row, system) = row[c]
    <3>1. leaf.op \in {"ref", "column", "uuid", "enum"}
      BY <2>4
    <3> QED BY <2>4, <3>1, EvalLeaf, Zenon
  <2>6. CASE Kind(c) = "enum"
    <3>1. PICK e : e = Node("text", 0, <<leaf>>)
      OBVIOUS
    <3>2. e.op = "text" /\ DOMAIN e.args = {1} /\ e.args[1] = leaf
      BY ONLY <3>1 DEF Node
    <3>3. e \in Trees
      <4>1. "text" \in Ops /\ 0 \in Infos
        BY NodeOps
      <4> QED BY <2>4, <3>1, <4>1, TreeOverOne
    <3>4. Eval(e, row, system) = row[c]
      <4>1. 1 \in DOMAIN e.args
        BY <3>2
      <4>2. Eval(e, row, system) = Eval(e.args[1], row, system)
        BY ONLY AreExpressions, <3>2, <3>3, <4>1, EvalText
      <4> QED BY <2>5, <3>2, <4>2, Zenon
    <3>5. ColumnSql(c) = e
      BY <2>1, <2>3, <2>6, <3>1, Zenon DEF ColumnSql, IsComparedExactly
    <3>6. e.op \notin {"throw", "nothing", "enum"} /\ e.op # "uuid"
      BY <3>2
    <3> QED BY <2>1, <2>2, <3>3, <3>4, <3>5, <3>6, Zenon
  <2>7. CASE Kind(c) # "enum"
    <3>1. ColumnSql(c) = leaf
      BY <2>1, <2>3, <2>7, Zenon DEF ColumnSql, IsComparedExactly
    <3>2. leaf.op \notin {"throw", "nothing", "enum"}
      BY <2>1, <2>4, <2>7
    <3> QED BY <2>1, <2>2, <2>4, <2>5, <3>1, <3>2, Zenon
  <2> QED BY <2>6, <2>7
<1> QED BY <1>1, <1>2

\* The SQL of a column has the value DuckDB reads of it, or there is none.
LEMMA ColumnSqlExact ==
    ASSUME AreExpressions, PlanInv, NoUuid, NEW c \in {0} \cup DOMAIN table.columns,
           NEW row \in Rows, NEW system
    PROVE  \/ ColumnSql(c).op = "throw"
           \/ /\ c \in DOMAIN table.columns /\ Kind(c) # "coarse"
              /\ ColumnSql(c) \in Trees /\ ColumnSql(c).op \notin {"throw", "nothing", "uuid", "enum"}
              /\ Eval(ColumnSql(c), row, system) = Read(c, row)
<1>1. CASE ColumnSql(c).op = "throw"
  BY <1>1
<1>2. CASE ColumnSql(c).op # "throw"
  <2>1. /\ c \in DOMAIN table.columns /\ Kind(c) # "coarse"
        /\ ColumnSql(c) \in Trees /\ ColumnSql(c).op \notin {"throw", "nothing", "enum"}
        /\ ColumnSql(c).op = "uuid" => Kind(c) = "uuid"
        /\ Eval(ColumnSql(c), row, system) = Read(c, row)
    BY <1>2, ColumnSqlValue, Zenon
  <2>2. Kind(c) # "uuid"
    BY <2>1, Zenon DEF NoUuid
  <2> QED BY ONLY <2>1, <2>2
<1> QED BY <1>1, <1>2

\* The expression of output i of an operator, from those of the one below.
IsResolved(op, below, width, i, sql) ==
    /\ op.type = "get" => sql = ColumnSql(op.ids[Mapped(op.map, i)])
    /\ op.type = "filter" => sql = below[Mapped(op.map, i)]
    /\ op.type = "projection" => sql = Translate(op.exprs[i], below)
    /\ op.type = "mark" =>
         IF op.exact /\ i # Len(Through(op.map, width)) + 1 THEN sql = below[Mapped(op.map, i)] ELSE sql = Throw
    /\ op.type \notin {"get", "filter", "projection", "mark"} => sql = Throw

\* Where output i of plan[n] comes from, by the type of the operator.
IsStep(op, n, i, width, step) ==
    /\ op.type = "get" => step = Step("scan", n, op.ids[Mapped(op.map, i)])
    /\ op.type = "filter" => step = Step("pass", n - 1, Mapped(op.map, i))
    /\ op.type = "projection" =>
         step = IF op.exprs[i].op = "ref" THEN Step("pass", n - 1, op.exprs[i].info) ELSE Step("expression", n, i)
    /\ op.type = "mark" =>
         step = IF ~op.exact THEN Step("throw", n, i)
                ELSE IF i = Len(Through(op.map, width)) + 1 THEN Step("mark", n, i)
                ELSE Step("pass", n - 1, Mapped(op.map, i))
    /\ op.type \notin {"get", "filter", "projection", "mark"} => step = Step("unresolved", n, i)

\* StepReference(), case by case.
LEMMA StepReferenceIs ==
    ASSUME NEW n, NEW i
    PROVE  IsStep(plan[n], n, i, Len(Types(plan)[n - 1]), StepReference(n, i))
<1>1. PICK op, width : op = plan[n] /\ width = Len(Types(plan)[n - 1])
  OBVIOUS
<1>2. op.type = "get" => StepReference(n, i) = Step("scan", n, op.ids[Mapped(op.map, i)])
  BY <1>1 DEF StepReference
<1>3. op.type = "filter" => StepReference(n, i) = Step("pass", n - 1, Mapped(op.map, i))
  BY <1>1 DEF StepReference
<1>4. op.type = "projection" =>
        StepReference(n, i) = IF op.exprs[i].op = "ref" THEN Step("pass", n - 1, op.exprs[i].info)
                                                        ELSE Step("expression", n, i)
  BY <1>1 DEF StepReference
<1>5. op.type = "mark" =>
        StepReference(n, i) = IF ~op.exact THEN Step("throw", n, i)
                              ELSE IF i = Len(Through(op.map, width)) + 1 THEN Step("mark", n, i)
                              ELSE Step("pass", n - 1, Mapped(op.map, i))
  BY <1>1 DEF StepReference
<1>6. op.type \notin {"get", "filter", "projection", "mark"} => StepReference(n, i) = Step("unresolved", n, i)
  BY <1>1 DEF StepReference
<1>7. IsStep(op, n, i, width, StepReference(n, i))
  BY ONLY <1>2, <1>3, <1>4, <1>5, <1>6, Zenon DEF IsStep
<1> QED BY <1>1, <1>7, Zenon

\* ResolveOutput(), case by case.
LEMMA ResolveCases ==
    ASSUME PlanInv, NEW n \in 1..Len(plan), NEW i \in 1..Len(Types(plan)[n])
    PROVE  IsResolved(plan[n], ResolveOutput[n - 1], Len(Types(plan)[n - 1]), i, ResolveOutput[n][i])
<1>1. PICK op, step, below, sql :
          op = plan[n] /\ step = StepReference(n, i) /\ below = ResolveOutput[n - 1] /\ sql = ResolveOutput[n][i]
  OBVIOUS
<1>2. sql = CASE op.type = "projection" -> Translate(op.exprs[i], below)
              [] op.type # "projection" /\ step.kind = "scan" -> ColumnSql(step.index)
              [] op.type # "projection" /\ step.kind = "pass" -> below[step.index]
              [] OTHER -> Throw
  <2>1. ResolveOutput[n] = ResolveStep(0, n, below)
    BY <1>1, PlanScan, ResolveUnfold, Zenon
  <2>2. i \in DOMAIN Types(plan)[n]
    BY PlanTypes, Zenon
  <2>3. ResolveStep(0, n, below)[i]
          = CASE plan[n].type = "projection" -> Translate(plan[n].exprs[i], below)
              [] plan[n].type # "projection" /\ StepReference(n, i).kind = "scan" ->
                   ColumnSql(StepReference(n, i).index)
              [] plan[n].type # "projection" /\ StepReference(n, i).kind = "pass" ->
                   below[StepReference(n, i).index]
              [] OTHER -> Throw
    BY <2>2, Zenon DEF ResolveStep
  <2> QED BY ONLY <1>1, <2>1, <2>3, Zenon
<1>3. PICK width : width = Len(Types(plan)[n - 1])
  OBVIOUS
<1>9. IsStep(op, n, i, width, step)
  BY <1>1, <1>3, StepReferenceIs, Zenon
<1>4. CASE op.type = "get"
  <2>1. step = Step("scan", n, op.ids[Mapped(op.map, i)])
    BY ONLY <1>4, <1>9 DEF IsStep
  <2>2. step.kind = "scan" /\ step.index = op.ids[Mapped(op.map, i)]
    BY ONLY <2>1 DEF Step
  <2>3. sql = ColumnSql(step.index)
    BY ONLY <1>2, <1>4, <2>2
  <2>4. op.type = "get" /\ op.type \notin {"filter", "projection", "mark"}
    BY <1>4
  <2> QED BY <1>1, <2>2, <2>3, <2>4, Zenon DEF IsResolved
<1>5. CASE op.type = "filter"
  <2>1. step = Step("pass", n - 1, Mapped(op.map, i))
    BY ONLY <1>5, <1>9 DEF IsStep
  <2>2. step.kind = "pass" /\ step.index = Mapped(op.map, i)
    BY ONLY <2>1 DEF Step
  <2>3. sql = below[step.index]
    BY ONLY <1>2, <1>5, <2>2
  <2>4. op.type = "filter" /\ op.type \notin {"get", "projection", "mark"}
    BY <1>5
  <2> QED BY <1>1, <2>2, <2>3, <2>4, Zenon DEF IsResolved
<1>6. CASE op.type = "projection"
  <2>1. sql = Translate(op.exprs[i], below)
    BY ONLY <1>2, <1>6
  <2>2. op.type = "projection" /\ op.type \notin {"get", "filter", "mark"}
    BY <1>6
  <2> QED BY <1>1, <2>1, <2>2, Zenon DEF IsResolved
<1>7. CASE op.type = "mark"
  <2>1. step = IF ~op.exact THEN Step("throw", n, i)
               ELSE IF i = Len(Through(op.map, width)) + 1 THEN Step("mark", n, i)
               ELSE Step("pass", n - 1, Mapped(op.map, i))
    BY ONLY <1>7, <1>9 DEF IsStep
  <2>2. IF op.exact /\ i # Len(Through(op.map, width)) + 1
          THEN step.kind = "pass" /\ step.index = Mapped(op.map, i)
          ELSE step.kind \in {"throw", "mark"}
    BY ONLY <2>1 DEF Step
  <2>3. IF op.exact /\ i # Len(Through(op.map, width)) + 1 THEN sql = below[Mapped(op.map, i)] ELSE sql = Throw
    BY ONLY <1>2, <1>7, <2>2
  <2>4. op.type = "mark" /\ op.type \notin {"get", "filter", "projection"}
    BY <1>7
  <2> QED BY <1>1, <1>3, <2>3, <2>4, Zenon DEF IsResolved
<1>8. CASE op.type \notin {"get", "filter", "projection", "mark"}
  <2>1. step = Step("unresolved", n, i)
    BY ONLY <1>8, <1>9 DEF IsStep
  <2>2. step.kind = "unresolved"
    BY ONLY <2>1 DEF Step
  <2>3. sql = Throw
    BY ONLY <1>2, <1>8, <2>2
  <2>4. op.type # "get" /\ op.type # "filter" /\ op.type # "projection" /\ op.type # "mark"
    BY <1>8
  <2> QED BY <1>1, <2>3, <2>4, Zenon DEF IsResolved
<1> QED BY <1>4, <1>5, <1>6, <1>7, <1>8

IsInput(sql, value, row, system) ==
    \/ sql.op = "throw"
    \/ /\ sql \in Trees /\ sql.op \notin {"throw", "nothing", "uuid", "enum"}
       /\ Eval(sql, row, system) = value

\* Every output of an operator is in ClickHouse what it is in DuckDB, or there
\* is no expression for it.
LEMMA ResolveExact ==
    ASSUME AreExpressions, PlanInv, NoUuid, NEW row \in Rows, NEW system \in {"clickhouse", "null_in"}
    PROVE  \A n \in 1..Len(plan) :
             EqualInputs(ResolveOutput[n], DOMAIN Types(plan)[n], row, Outputs(plan, row)[n], system)
<1> DEFINE good(n) == \A i \in 1..Len(Types(plan)[n]) :
                        IsInput(ResolveOutput[n][i], Outputs(plan, row)[n][i], row, system)
           Bad == {n \in 1..Len(plan) : ~good(n)}
<1>1. Len(plan) \in Nat
  BY PlanScan, Zenon
<1>2. ASSUME NEW n \in 1..Len(plan), good(n)
      PROVE  EqualInputs(ResolveOutput[n], DOMAIN Types(plan)[n], row, Outputs(plan, row)[n], system)
  <2>1. DOMAIN Types(plan)[n] = 1..Len(Types(plan)[n])
    BY PlanTypes, Zenon
  <2> QED BY <1>2, <2>1, Zenon DEF EqualInputs, IsInput
<1> SUFFICES ASSUME Bad # {} PROVE FALSE
  BY <1>2, Zenon
<1>3. PICK n \in Bad : \A m \in Bad : n <= m
  <2>1. Bad \subseteq Nat
    BY <1>1
  <2> HIDE DEF Bad
  <2> QED BY <2>1, AlongTypes!LeastNatural
<1>4. n \in 1..Len(plan) /\ ~good(n)
  BY <1>3, Zenon
<1> HIDE DEF Bad
<1>5. n # 1 => n - 1 \in 1..Len(plan) /\ good(n - 1)
  <2> SUFFICES ASSUME n # 1 PROVE n - 1 \in 1..Len(plan) /\ good(n - 1)
    BY Zenon
  <2>1. n - 1 \in 1..Len(plan) /\ ~(n <= n - 1)
    BY ONLY <1>1, <1>4, n # 1
  <2>2. n - 1 \notin Bad
    BY <1>3, <2>1, Zenon
  <2> QED BY <2>1, <2>2, Zenon DEF Bad
<1>6. PICK i \in 1..Len(Types(plan)[n]) : ~IsInput(ResolveOutput[n][i], Outputs(plan, row)[n][i], row, system)
  BY <1>4, Zenon
<1>7. PICK op, below, inputs, width, sql, value :
          /\ op = plan[n] /\ below = Outputs(plan, row)[n - 1] /\ inputs = ResolveOutput[n - 1]
          /\ width = Len(Types(plan)[n - 1]) /\ sql = ResolveOutput[n][i] /\ value = Outputs(plan, row)[n][i]
  OBVIOUS
<1>8. IsOutput(op, below, width, i, value, row)
  BY <1>4, <1>7, PlanOutputs, Zenon
<1>9. IsResolved(op, inputs, width, i, sql)
  BY <1>4, <1>7, ResolveCases, Zenon
<1>10. ~IsInput(sql, value, row, system)
  BY <1>6, <1>7, Zenon
<1>11. ASSUME op.type # "get" PROVE \A j \in 1..width : IsInput(inputs[j], below[j], row, system)
  <2>1. n # 1
    BY <1>7, <1>11, PlanScan, Zenon
  <2> QED BY <1>5, <1>7, <2>1, Zenon
<1>12. sql # Throw
  BY <1>10, ThrowOp, Zenon DEF IsInput
<1>13. CASE op.type = "get"
  <2>1. PICK c : c = op.ids[Mapped(op.map, i)]
    OBVIOUS
  <2>2. /\ Mapped(op.map, i) \in DOMAIN op.ids /\ value = Read(c, row) /\ sql = ColumnSql(c)
    BY <1>8, <1>9, <1>13, <2>1, Zenon DEF IsOutput, IsResolved
  <2>3. op.ids \in Seq({0} \cup DOMAIN table.columns)
    <3>1. n = 1 /\ IsGet(plan[1], table.columns)
      BY <1>4, <1>7, <1>13, PlanScan, Zenon
    <3> QED BY <1>7, <3>1, Zenon DEF IsGet
  <2>4. c \in {0} \cup DOMAIN table.columns
    BY ONLY <2>1, <2>2, <2>3
  <2>5. \/ ColumnSql(c).op = "throw"
        \/ /\ ColumnSql(c) \in Trees /\ ColumnSql(c).op \notin {"throw", "nothing", "uuid", "enum"}
           /\ Eval(ColumnSql(c), row, system) = Read(c, row)
    BY <2>4, ColumnSqlExact, Zenon
  <2> QED BY <1>10, <2>2, <2>5, Zenon DEF IsInput
<1>14. CASE op.type = "filter"
  <2>1. /\ Mapped(op.map, i) \in 1..width /\ value = below[Mapped(op.map, i)]
        /\ sql = inputs[Mapped(op.map, i)]
    BY <1>8, <1>9, <1>14, Zenon DEF IsOutput, IsResolved
  <2> QED BY <1>10, <1>11, <1>14, <2>1
<1>15. CASE op.type = "mark"
  <2>1. i # Len(Through(op.map, width)) + 1 /\ sql = inputs[Mapped(op.map, i)]
    BY <1>9, <1>12, <1>15, Zenon DEF IsResolved
  <2>2. Mapped(op.map, i) \in 1..width /\ value = below[Mapped(op.map, i)]
    BY <1>8, <1>15, <2>1, Zenon DEF IsOutput
  <2> QED BY <1>10, <1>11, <1>15, <2>1, <2>2
<1>16. CASE op.type = "projection"
  <2>1. PICK e, D : e = op.exprs[i] /\ D = DOMAIN Types(plan)[n - 1]
    OBVIOUS
  <2>2. i \in DOMAIN op.exprs /\ value = Eval(e, below, "duckdb") /\ sql = Translate(e, inputs)
    BY <1>8, <1>9, <1>16, <2>1, Zenon DEF IsOutput, IsResolved
  <2>3. n - 1 \in 1..Len(plan) /\ e \in BoundTrees(D)
    BY <1>4, <1>7, <1>16, <2>1, <2>2, ProjectionExpr, Zenon
  <2>4. n # 1
    BY <1>7, <1>16, <1>4, PlanScan
  <2>5. EqualInputs(inputs, D, row, below, system)
    BY <1>2, <1>5, <1>7, <2>1, <2>4, Zenon
  <2>6. AreBound(BoundTrees(D), D)
    BY BoundTreesBound, Zenon
  <2>7. Equal(Translate(e, inputs), e, row, below, system)
    BY ONLY AreExpressions, system \in {"clickhouse", "null_in"}, <2>3, <2>5, <2>6, TranslateExact
  <2> QED BY <1>10, <2>2, <2>7, Zenon DEF IsInput, Equal
<1>17. CASE op.type \notin {"get", "filter", "projection", "mark"}
  <2>1. sql = Throw
    BY <1>9, <1>17, Zenon DEF IsResolved
  <2> QED BY <1>12, <2>1
<1> QED BY <1>13, <1>14, <1>15, <1>16, <1>17

\* A reference becomes what it refers to, and a constant a literal.
LEMMA TranslateLeaf ==
    ASSUME AreExpressions, NEW e \in Trees, DOMAIN e.args = {}, NEW inputs
    PROVE  /\ e.op = "ref" => Translate(e, inputs) = inputs[e.info]
           /\ e.op = "constant" => Translate(e, inputs) = Literal(e.info)
<1>1. PICK args : args = [i \in DOMAIN e.args |-> Translate(e.args[i], inputs)]
  OBVIOUS
<1>2. Translate(e, inputs) = TranslateExpression(e, args, inputs)
  BY <1>1, TranslateUnfold, Zenon
<1>3. \A i \in DOMAIN args : args[i].op # "throw"
  BY <1>1
<1>4. /\ e.op = "ref" => TranslateExpression(e, args, inputs) = inputs[e.info]
      /\ e.op = "constant" => TranslateExpression(e, args, inputs) = Literal(e.info)
  BY ONLY <1>3, TranslateCases
<1> QED BY <1>2, <1>4, Zenon

\* What TraceReferences() says of output i of plan[n], whose expression is sql.
IsTraced(t, sql, n, i) ==
    /\ t.kind \in {"scan", "expression", "mark", "throw", "unresolved"}
    /\ t.kind = "scan" =>
         /\ t.index \in {0} \cup DOMAIN table.columns
         /\ sql = ColumnSql(t.index)
         /\ \A row : Outputs(plan, row)[n][i] = Read(t.index, row)
    /\ t.kind = "expression" =>
         /\ t.at \in 2..Len(plan) /\ plan[t.at].type = "projection"
         /\ t.index \in DOMAIN plan[t.at].exprs /\ plan[t.at].exprs[t.index].op # "ref"
         /\ sql = Translate(plan[t.at].exprs[t.index], ResolveOutput[t.at - 1])
         /\ \A row : Outputs(plan, row)[n][i]
                       = Eval(plan[t.at].exprs[t.index], Outputs(plan, row)[t.at - 1], "duckdb")
    /\ t.kind = "mark" =>
         /\ t.at \in 2..Len(plan) /\ plan[t.at].type = "mark"
         /\ \A row : Outputs(plan, row)[n][i]
                       = In3(Eval(plan[t.at].left, Outputs(plan, row)[t.at - 1], "duckdb"),
                             MarkConstants(plan[t.at]))

\* An output that is passed on comes from where it came from.
LEMMA TracedThrough ==
    ASSUME NEW t, NEW sql, NEW n, NEW i, NEW m, NEW j, IsTraced(t, sql, m, j),
           \A row : Outputs(plan, row)[n][i] = Outputs(plan, row)[m][j]
    PROVE  IsTraced(t, sql, n, i)
<1>1. t.kind \in {"scan", "expression", "mark", "throw", "unresolved"}
  BY Zenon DEF IsTraced
<1>2. t.kind = "scan" =>
         /\ t.index \in {0} \cup DOMAIN table.columns
         /\ sql = ColumnSql(t.index)
         /\ \A row : Outputs(plan, row)[n][i] = Read(t.index, row)
  BY Zenon DEF IsTraced
<1>3. t.kind = "expression" =>
         /\ t.at \in 2..Len(plan) /\ plan[t.at].type = "projection"
         /\ t.index \in DOMAIN plan[t.at].exprs /\ plan[t.at].exprs[t.index].op # "ref"
         /\ sql = Translate(plan[t.at].exprs[t.index], ResolveOutput[t.at - 1])
         /\ \A row : Outputs(plan, row)[n][i]
                       = Eval(plan[t.at].exprs[t.index], Outputs(plan, row)[t.at - 1], "duckdb")
  BY Zenon DEF IsTraced
<1>4. t.kind = "mark" =>
         /\ t.at \in 2..Len(plan) /\ plan[t.at].type = "mark"
         /\ \A row : Outputs(plan, row)[n][i]
                       = In3(Eval(plan[t.at].left, Outputs(plan, row)[t.at - 1], "duckdb"),
                             MarkConstants(plan[t.at]))
  BY Zenon DEF IsTraced
<1> QED BY ONLY <1>1, <1>2, <1>3, <1>4, Zenon DEF IsTraced

\* The value of an output and its expression are those of what it is traced to.
LEMMA ReferencesTraced ==
    ASSUME AreExpressions, PlanInv
    PROVE  \A n \in 1..Len(plan) : \A i \in 1..Len(Types(plan)[n]) :
             IsTraced(TraceReference(n, i), ResolveOutput[n][i], n, i)
<1> DEFINE good(n) == \A i \in 1..Len(Types(plan)[n]) :
                        IsTraced(TraceReferences[n][i], ResolveOutput[n][i], n, i)
           Bad == {n \in 1..Len(plan) : ~good(n)}
<1> SUFFICES ASSUME Bad # {} PROVE FALSE
  BY Zenon DEF TraceReference
<1>1. Len(plan) \in Nat
  BY PlanScan, Zenon
<1>2. PICK n \in Bad : \A m \in Bad : n <= m
  <2>1. Bad \subseteq Nat
    BY <1>1
  <2> HIDE DEF Bad
  <2> QED BY <2>1, AlongTypes!LeastNatural
<1>3. n \in 1..Len(plan) /\ ~good(n)
  BY <1>2, Zenon
<1> HIDE DEF Bad
<1>4. n # 1 => n - 1 \in 1..Len(plan) /\ good(n - 1)
  <2> SUFFICES ASSUME n # 1 PROVE n - 1 \in 1..Len(plan) /\ good(n - 1)
    BY Zenon
  <2>1. n - 1 \in 1..Len(plan) /\ ~(n <= n - 1)
    BY ONLY <1>1, <1>3, n # 1
  <2>2. n - 1 \notin Bad
    BY <1>2, <2>1, Zenon
  <2> QED BY <2>1, <2>2, Zenon DEF Bad
<1>5. PICK i \in 1..Len(Types(plan)[n]) : ~IsTraced(TraceReferences[n][i], ResolveOutput[n][i], n, i)
  BY <1>3, Zenon
<1>6. PICK op, below, inputs, width, step, t, sql :
          /\ op = plan[n] /\ below = TraceReferences[n - 1] /\ inputs = ResolveOutput[n - 1]
          /\ width = Len(Types(plan)[n - 1]) /\ step = StepReference(n, i)
          /\ t = TraceReferences[n][i] /\ sql = ResolveOutput[n][i]
  OBVIOUS
<1>7. ~IsTraced(t, sql, n, i)
  BY <1>5, <1>6, Zenon
<1>8. t = IF step.kind = "pass" THEN below[step.index] ELSE step
  <2>1. TraceReferences[n] = ReferencesStep(0, n, below)
    BY <1>1, <1>3, <1>6, ReferencesUnfold, Zenon
  <2>2. i \in DOMAIN Types(plan)[n]
    BY <1>3, PlanTypes, Zenon
  <2>3. ReferencesStep(0, n, below)[i]
          = IF StepReference(n, i).kind = "pass" THEN below[StepReference(n, i).index] ELSE StepReference(n, i)
    BY <2>2, Zenon DEF ReferencesStep
  <2> QED BY ONLY <1>6, <2>1, <2>3, Zenon
<1>9. IsStep(op, n, i, width, step)
  BY <1>6, StepReferenceIs, Zenon
<1>10. IsResolved(op, inputs, width, i, sql)
  BY <1>3, <1>6, ResolveCases, Zenon
<1>11. \A row : IsOutput(op, Outputs(plan, row)[n - 1], width, i, Outputs(plan, row)[n][i], row)
  BY <1>3, <1>6, PlanOutputs, Zenon
<1>12. op.type # "get" => n - 1 \in 1..Len(plan) /\ n \in 2..Len(plan)
  <2> SUFFICES ASSUME op.type # "get" PROVE n - 1 \in 1..Len(plan) /\ n \in 2..Len(plan)
    BY Zenon
  <2>1. n # 1
    BY <1>6, PlanScan, Zenon
  <2> QED BY ONLY <1>1, <1>3, <2>1
<1>13. \* What is passed on is traced below.
       ASSUME op.type # "get", NEW j \in 1..width, t = below[j], sql = inputs[j],
              \A row : Outputs(plan, row)[n][i] = Outputs(plan, row)[n - 1][j]
       PROVE  FALSE
  <2>1. n # 1 /\ j \in 1..Len(Types(plan)[n - 1])
    BY <1>6, <1>13, PlanScan, Zenon
  <2>2. IsTraced(t, sql, n - 1, j)
    BY <1>4, <1>6, <1>13, <2>1, Zenon
  <2>3. PICK m : m = n - 1
    OBVIOUS
  <2>4. IsTraced(t, sql, m, j) /\ \A row : Outputs(plan, row)[n][i] = Outputs(plan, row)[m][j]
    BY <1>13, <2>2, <2>3, Zenon
  <2>5. IsTraced(t, sql, n, i)
    BY <2>4, TracedThrough, Zenon
  <2> QED BY <1>7, <2>5
<1>14. CASE op.type = "get"
  <2>1. PICK c : c = op.ids[Mapped(op.map, i)]
    OBVIOUS
  <2>2. t.kind = "scan" /\ t.index = c
    <3>1. step = Step("scan", n, c)
      BY ONLY <1>9, <1>14, <2>1 DEF IsStep
    <3>2. step.kind = "scan" /\ step.index = c
      BY ONLY <3>1 DEF Step
    <3> QED BY ONLY <1>8, <3>2
  <2>3. Mapped(op.map, i) \in DOMAIN op.ids /\ \A row : Outputs(plan, row)[n][i] = Read(c, row)
    BY <1>11, <1>14, <2>1, Zenon DEF IsOutput
  <2>4. sql = ColumnSql(c)
    BY <1>10, <1>14, <2>1, Zenon DEF IsResolved
  <2>5. c \in {0} \cup DOMAIN table.columns
    <3>1. n = 1 /\ IsGet(plan[1], table.columns)
      BY <1>3, <1>6, <1>14, PlanScan, Zenon
    <3>2. op.ids \in Seq({0} \cup DOMAIN table.columns)
      BY <1>6, <3>1, Zenon DEF IsGet
    <3> QED BY ONLY <2>1, <2>3, <3>2
  <2>6. t.kind \in {"scan", "expression", "mark", "throw", "unresolved"} /\ t.kind # "expression" /\ t.kind # "mark"
    BY ONLY <2>2
  <2>7. IsTraced(t, sql, n, i)
    BY ONLY <2>2, <2>3, <2>4, <2>5, <2>6, Zenon DEF IsTraced
  <2> QED BY <1>7, <2>7
<1>15. CASE op.type = "filter"
  <2>1. t = below[Mapped(op.map, i)]
    <3>1. step = Step("pass", n - 1, Mapped(op.map, i))
      BY ONLY <1>9, <1>15 DEF IsStep
    <3>2. step.kind = "pass" /\ step.index = Mapped(op.map, i)
      BY ONLY <3>1 DEF Step
    <3> QED BY ONLY <1>8, <3>2
  <2>2. sql = inputs[Mapped(op.map, i)]
    BY <1>10, <1>15, Zenon DEF IsResolved
  <2>3. /\ Mapped(op.map, i) \in 1..width
        /\ \A row : Outputs(plan, row)[n][i] = Outputs(plan, row)[n - 1][Mapped(op.map, i)]
    BY <1>11, <1>15, Zenon DEF IsOutput
  <2>4. op.type # "get"
    BY <1>15
  <2> QED BY <1>13, <2>1, <2>2, <2>3, <2>4, Zenon
<1>16. CASE op.type = "mark"
  <2>1. op.type # "get" /\ n \in 2..Len(plan)
    BY <1>12, <1>16
  <2>2. CASE ~op.exact
    <3>1. step = Step("throw", n, i)
      BY ONLY <1>9, <1>16, <2>2 DEF IsStep
    <3>2. step.kind = "throw"
      BY ONLY <3>1 DEF Step
    <3>3. t.kind = "throw"
      BY ONLY <1>8, <3>2
    <3> QED BY <1>7, <3>3 DEF IsTraced
  <2>3. CASE op.exact /\ i = Len(Through(op.map, width)) + 1
    <3>1. step = Step("mark", n, i)
      BY ONLY <1>9, <1>16, <2>3 DEF IsStep
    <3>2. step.kind = "mark" /\ step.at = n
      BY ONLY <3>1 DEF Step
    <3>3. t.kind = "mark" /\ t.at = n
      BY ONLY <1>8, <3>2
    <3>4. \A row : Outputs(plan, row)[n][i]
                     = In3(Eval(op.left, Outputs(plan, row)[n - 1], "duckdb"), MarkConstants(op))
      BY <1>11, <1>16, <2>3, Zenon DEF IsOutput
    <3>5. /\ t.kind \in {"scan", "expression", "mark", "throw", "unresolved"}
          /\ t.kind # "scan" /\ t.kind # "expression"
      BY ONLY <3>3
    <3>6. t.at \in 2..Len(plan) /\ plan[t.at].type = "mark" /\ plan[t.at] = op
      BY ONLY <1>6, <1>16, <2>1, <3>3, Zenon
    <3>7. \A row : Outputs(plan, row)[n][i]
                     = In3(Eval(plan[t.at].left, Outputs(plan, row)[t.at - 1], "duckdb"), MarkConstants(plan[t.at]))
      BY ONLY <1>6, <3>3, <3>4, Zenon
    <3>8. IsTraced(t, sql, n, i)
      BY ONLY <3>3, <3>5, <3>6, <3>7, Zenon DEF IsTraced
    <3> QED BY <1>7, <3>8
  <2>4. CASE op.exact /\ i # Len(Through(op.map, width)) + 1
    <3>1. t = below[Mapped(op.map, i)]
      <4>1. step = Step("pass", n - 1, Mapped(op.map, i))
        BY ONLY <1>9, <1>16, <2>4 DEF IsStep
      <4>2. step.kind = "pass" /\ step.index = Mapped(op.map, i)
        BY ONLY <4>1 DEF Step
      <4> QED BY ONLY <1>8, <4>2
    <3>2. sql = inputs[Mapped(op.map, i)]
      BY <1>10, <1>16, <2>4, Zenon DEF IsResolved
    <3>3. /\ Mapped(op.map, i) \in 1..width
          /\ \A row : Outputs(plan, row)[n][i] = Outputs(plan, row)[n - 1][Mapped(op.map, i)]
      BY <1>11, <1>16, <2>4, Zenon DEF IsOutput
    <3> QED BY <1>13, <2>1, <3>1, <3>2, <3>3, Zenon
  <2> QED BY <2>2, <2>3, <2>4
<1>17. CASE op.type = "projection"
  <2>1. PICK e : e = op.exprs[i]
    OBVIOUS
  <2>2. op.type # "get" /\ n \in 2..Len(plan)
    BY <1>12, <1>17
  <2>3. i \in DOMAIN op.exprs /\ \A row : Outputs(plan, row)[n][i] = Eval(e, Outputs(plan, row)[n - 1], "duckdb")
    BY <1>11, <1>17, <2>1, Zenon DEF IsOutput
  <2>4. sql = Translate(e, inputs)
    BY <1>10, <1>17, <2>1, Zenon DEF IsResolved
  <2>5. e \in Trees /\ (e.op = "ref" => e.info \in 1..width /\ DOMAIN e.args = {})
    <3>1. PICK D : D = DOMAIN Types(plan)[n - 1]
      OBVIOUS
    <3>2. /\ e \in BoundTrees(D) /\ e \in Trees
          /\ e.op = "ref" => e.info \in 1..Len(Types(plan)[n - 1])
      BY <1>3, <1>6, <1>17, <2>1, <2>3, <3>1, ProjectionExpr, Zenon
    <3>3. IsExpressionNode(e, D)
      BY <3>2, BoundTreesBound, Zenon DEF AreBound
    <3>4. e.op = "ref" => DOMAIN e.args = {}
      BY ONLY <3>3 DEF IsExpressionNode
    <3> QED BY <1>6, <3>2, <3>4, Zenon
  <2>6. CASE e.op = "ref"
    <3>1. PICK j : j = e.info
      OBVIOUS
    <3>2. t = below[j]
      <4>1. step = Step("pass", n - 1, j)
        BY ONLY <1>9, <1>17, <2>1, <2>6, <3>1 DEF IsStep
      <4>2. step.kind = "pass" /\ step.index = j
        BY ONLY <4>1 DEF Step
      <4> QED BY ONLY <1>8, <4>2
    <3>3. sql = inputs[j]
      <4>1. DOMAIN e.args = {}
        BY <2>5, <2>6
      <4>2. Translate(e, inputs) = inputs[e.info]
        BY ONLY AreExpressions, <2>5, <2>6, <4>1, TranslateLeaf
      <4> QED BY <2>4, <3>1, <4>2, Zenon
    <3>4. \A row : Outputs(plan, row)[n][i] = Outputs(plan, row)[n - 1][j]
      <4>1. e.op \in {"ref", "column", "uuid", "enum"}
        BY <2>6
      <4>2. \A env : Eval(e, env, "duckdb") = env[j]
        BY <2>5, <3>1, <4>1, EvalLeaf, Zenon
      <4> QED BY <2>3, <4>2, Zenon
    <3>5. j \in 1..width
      BY <2>5, <2>6, <3>1, Zenon
    <3> QED BY <1>13, <2>2, <3>2, <3>3, <3>4, <3>5, Zenon
  <2>7. CASE e.op # "ref"
    <3>1. step = Step("expression", n, i)
      BY ONLY <1>9, <1>17, <2>1, <2>7 DEF IsStep
    <3>2. step.kind = "expression" /\ step.at = n /\ step.index = i
      BY ONLY <3>1 DEF Step
    <3>3. t.kind = "expression" /\ t.at = n /\ t.index = i
      BY ONLY <1>8, <3>2
    <3>4. /\ t.kind \in {"scan", "expression", "mark", "throw", "unresolved"}
          /\ t.kind # "scan" /\ t.kind # "mark"
      BY ONLY <3>3
    <3>5. /\ t.at \in 2..Len(plan) /\ plan[t.at].type = "projection" /\ plan[t.at].exprs[t.index] = e
          /\ t.index \in DOMAIN plan[t.at].exprs
      BY ONLY <1>6, <1>17, <2>1, <2>2, <2>3, <3>3, Zenon
    <3>6. sql = Translate(plan[t.at].exprs[t.index], ResolveOutput[t.at - 1])
      BY ONLY <1>6, <2>4, <3>3, <3>5, Zenon
    <3>7. \A row : Outputs(plan, row)[n][i]
                     = Eval(plan[t.at].exprs[t.index], Outputs(plan, row)[t.at - 1], "duckdb")
      BY ONLY <2>3, <3>3, <3>5, Zenon
    <3>8. plan[t.at].exprs[t.index].op # "ref"
      BY ONLY <2>7, <3>5, Zenon
    <3>9. IsTraced(t, sql, n, i)
      BY ONLY <3>3, <3>4, <3>5, <3>6, <3>7, <3>8, Zenon DEF IsTraced
    <3> QED BY <1>7, <3>9
  <2> QED BY <2>6, <2>7
<1>18. CASE op.type \notin {"get", "filter", "projection", "mark"}
  <2>1. step = Step("unresolved", n, i)
    BY ONLY <1>9, <1>18 DEF IsStep
  <2>2. step.kind = "unresolved"
    BY ONLY <2>1 DEF Step
  <2>3. t.kind = "unresolved"
    BY ONLY <1>8, <2>2
  <2> QED BY <1>7, <2>3 DEF IsTraced
<1> QED BY <1>14, <1>15, <1>16, <1>17, <1>18

-----------------------------------------------------------------------------
(* What the filters of the plan become in the statement's predicate.       *)

\* NOT, of SQL.
LEMMA EvalNot ==
    ASSUME AreExpressions, NEW e \in Trees, e.op = "not", 1 \in DOMAIN e.args, NEW env, NEW system
    PROVE  Eval(e, env, system) = Not3(Eval(e.args[1], env, system))
<1> DEFINE v == [i \in DOMAIN e.args |-> Eval(e.args[i], env, system)]
<1>1. Eval(e, env, system) = Apply(e, v, env, system)
  BY EvalUnfold, Zenon
<1>2. v[1] = Eval(e.args[1], env, system)
  BY Zenon
<1> HIDE DEF v
<1>3. Apply(e, v, env, system) = Not3(v[1])
  BY DEF Apply, Comparisons, Ordered, Hints
<1> QED BY <1>1, <1>2, <1>3, Zenon

\* A constant of an IN list that has a literal of its own.
LEMMA ExactLiteral ==
    ASSUME AreExpressions, NEW d, Literal(d).op # "throw", ~IsNullConstant(Literal(d)), NEW row, NEW system
    PROVE  Literal(d) \in Trees /\ Eval(Literal(d), row, system) = d /\ d # Null
<1>1. CASE d = Null
  <2>1. Literal(d) = Constant(Null)
    BY <1>1, Zenon DEF Literal
  <2>2. IsNullConstant(Literal(d))
    BY <2>1 DEF IsNullConstant, Constant, Node
  <2> QED BY <2>2
<1>2. CASE d # Null /\ d \in Representable
  <2>1. Literal(d) = Constant(d)
    BY <1>2, Zenon DEF Literal, TransformConstant
  <2>2. d \in Int \cup {Null}
    BY <1>2, RepresentableAssumption
  <2>3. Constant(d) \in Trees /\ Eval(Constant(d), row, system) = d
    BY <2>2, ConstantTree, Zenon
  <2> QED BY <1>2, <2>1, <2>3, Zenon
<1>3. CASE d # Null /\ d \notin Representable
  <2>1. Literal(d) = Throw
    BY <1>3, Zenon DEF Literal, TransformConstant
  <2> QED BY <2>1, ThrowOp, Zenon
<1> QED BY <1>1, <1>2, <1>3

\* [NOT] IN over a list of constants, as a MARK join has it.
IsInList(sql, op, value, row, system) ==
    \/ sql.op = "throw"
    \/ /\ sql \in Trees /\ sql.op = "if"
       /\ op = "in" => Eval(sql, row, system) = value
       /\ op = "not_in" => Eval(sql, row, system) = Not3(value)

\* The IN list of a join is refused, or has the value of IN over its constants.
LEMMA ExactInListValue ==
    ASSUME AreExpressions, NEW left, NEW constants, constants \in Seq(Int \cup {Null}),
           left.op # "throw" => left \in Trees,
           NEW op \in {"in", "not_in"}, NEW row, NEW system \in {"clickhouse", "null_in"},
           NEW list, list = [i \in DOMAIN constants |-> Literal(constants[i])]
    PROVE  IsInList(ExactInList(left, list, op), op,
                    In3(Eval(left, row, system), {constants[i] : i \in DOMAIN constants}), row, system)
<1>1. CASE \/ left.op = "throw" \/ list = <<>>
           \/ \E i \in DOMAIN list : list[i].op = "throw" \/ IsNullConstant(list[i])
  <2>1. ExactInList(left, list, op) = Throw
    BY <1>1, Zenon DEF ExactInList
  <2> QED BY <2>1, ThrowOp, Zenon DEF IsInList
<1>2. CASE /\ left.op # "throw" /\ list # <<>>
           /\ \A i \in DOMAIN list : ~(list[i].op = "throw" \/ IsNullConstant(list[i]))
  <2>1. left \in Trees
    BY <1>2
  <2>2. PICK k : k = Len(constants)
    OBVIOUS
  <2>3. /\ k \in Nat /\ DOMAIN list = 1..k /\ DOMAIN constants = 1..k
        /\ \A i \in 1..k : list[i] = Literal(constants[i])
        /\ list = [i \in 1..k |-> list[i]]
    BY <2>2
  <2>4. IsTuple(list) /\ Len(list) = k
    BY ONLY <2>3, TupleOf
  <2>5. k >= 1
    BY ONLY <1>2, <2>3, <2>4 DEF IsTuple
  <2>6. \A i \in 1..k : list[i] \in Trees /\ Eval(list[i], row, system) = constants[i] /\ constants[i] # Null
    <3> SUFFICES ASSUME NEW i \in 1..k
                 PROVE  list[i] \in Trees /\ Eval(list[i], row, system) = constants[i] /\ constants[i] # Null
      BY Zenon
    <3>1. PICK d : d = constants[i]
      OBVIOUS
    <3>2. list[i] = Literal(d)
      BY <2>3, <3>1, Zenon
    <3>3. Literal(d).op # "throw" /\ ~IsNullConstant(Literal(d))
      BY <1>2, <2>3, <3>2, Zenon
    <3>4. Literal(d) \in Trees /\ Eval(Literal(d), row, system) = d /\ d # Null
      BY ONLY AreExpressions, <3>3, ExactLiteral
    <3> QED BY <3>1, <3>2, <3>4, Zenon
  <2>7. list \in Seq(Trees)
    BY ONLY <2>4, <2>6, TupleSeq
  <2>8. PICK args : args = <<left>> \o list
    OBVIOUS
  <2>9. /\ IsTuple(args) /\ Len(args) = k + 1 /\ args[1] = left
        /\ \A i \in 2..(k + 1) : i - 1 \in 1..k /\ args[i] = list[i - 1]
    <3>1. /\ IsTuple(<<left>> \o list)
          /\ Len(<<left>> \o list) = Len(list) + 1
          /\ (<<left>> \o list)[1] = left
          /\ \A i \in 2..(Len(list) + 1) : i - 1 \in DOMAIN list /\ (<<left>> \o list)[i] = list[i - 1]
      BY ONLY <2>7, ConsList
    <3> QED BY ONLY <2>3, <2>4, <2>8, <3>1
  <2>10. PICK n \in Nat : n = k + 1 /\ n >= 2
    BY <2>3, <2>5
  <2>11. DOMAIN args = 1..n /\ args = [i \in 1..n |-> args[i]] /\ \A i \in 2..n : i - 1 \in 1..k /\ args[i] = list[i - 1]
    BY <2>9, <2>10 DEF IsTuple
  <2>12. args \in [1..n -> Trees]
    <3>1. ASSUME NEW i \in 1..n PROVE args[i] \in Trees
      <4>1. CASE i = 1
        BY <2>1, <2>9, <4>1
      <4>2. CASE i # 1
        <5>1. i \in 2..n
          BY <2>10, <4>2
        <5> QED BY <2>6, <2>11, <5>1, Zenon
      <4> QED BY <4>1, <4>2
    <3> QED BY ONLY <2>11, <3>1
  <2>13. ArgList(args, row, system) = {constants[i] : i \in DOMAIN constants}
    <3>1. ASSUME NEW x \in ArgList(args, row, system) PROVE x \in {constants[i] : i \in DOMAIN constants}
      <4>1. PICK i \in DOMAIN args \ {1} : x = Eval(args[i], row, system)
        BY Zenon DEF ArgList
      <4>2. i \in 2..n
        BY ONLY <2>10, <2>11, <4>1
      <4>3. i - 1 \in 1..k /\ x = Eval(list[i - 1], row, system)
        BY <2>11, <4>1, <4>2, Zenon
      <4>4. x = constants[i - 1]
        BY <2>6, <4>3, Zenon
      <4> QED BY ONLY <2>3, <4>3, <4>4
    <3>2. ASSUME NEW i \in DOMAIN constants PROVE constants[i] \in ArgList(args, row, system)
      <4>1. PICK j : j = i + 1
        OBVIOUS
      <4>2. i \in 1..k /\ j \in 2..n /\ j \in DOMAIN args \ {1} /\ j - 1 = i
        BY ONLY <2>3, <2>10, <2>11, <4>1, i \in DOMAIN constants
      <4>3. args[j] = list[i]
        BY ONLY <2>11, <4>2
      <4>4. Eval(args[j], row, system) = constants[i]
        BY <2>6, <4>2, <4>3, Zenon
      <4> QED BY <4>2, <4>4, Zenon DEF ArgList
    <3> QED BY <3>1, <3>2, Zenon
  <2>14. Null \notin ArgList(args, row, system)
    BY <2>3, <2>6, <2>13
  <2>15. ExactInList(left, list, op) = InList(args, op)
    BY <1>2, <2>8, Zenon DEF ExactInList
  <2>16. PICK sql : sql = InList(args, op)
    OBVIOUS
  <2>17. /\ sql \in Trees /\ sql.op = "if"
         /\ op = "in" =>
              Eval(sql, row, system) = In3(Eval(args[1], row, system), ArgList(args, row, system))
         /\ op = "not_in" =>
              Eval(sql, row, system) = Not3(In3(Eval(args[1], row, system), ArgList(args, row, system)))
    <3>1. 1..n \in SUBSET (1..n) /\ 1 \in 1..n /\ 2 \in 1..n
      BY <2>10
    <3> QED BY ONLY AreExpressions, n \in Nat, <3>1, <2>12, <2>14, <2>16, op \in {"in", "not_in"},
                    system \in {"clickhouse", "null_in"}, InListValue
  <2> QED BY <2>9, <2>13, <2>15, <2>16, <2>17, Zenon DEF IsInList
<1> QED BY <1>1, <1>2, Zenon

\* A reference becomes the IN list of the MARK join it comes from.
LEMMA MarkExact ==
    ASSUME AreExpressions, PlanInv, NoUuid, NEW row \in Rows, NEW system \in {"clickhouse", "null_in"},
           NEW n \in 1..Len(plan), NEW i \in 1..Len(Types(plan)[n]), NEW op \in {"in", "not_in"},
           NEW sql, sql = TranslateMark(TraceReference(n, i), op)
    PROVE  sql.op = "nothing" \/ IsInList(sql, op, Outputs(plan, row)[n][i], row, system)
<1>1. PICK t : t = TraceReference(n, i)
  OBVIOUS
<1>2. IsTraced(t, ResolveOutput[n][i], n, i)
  BY <1>1, ReferencesTraced, Zenon
<1>3. CASE t.kind = "mark"
  <2>1. /\ t.at \in 2..Len(plan) /\ plan[t.at].type = "mark"
        /\ Outputs(plan, row)[n][i]
             = In3(Eval(plan[t.at].left, Outputs(plan, row)[t.at - 1], "duckdb"), MarkConstants(plan[t.at]))
    BY ONLY <1>2, <1>3 DEF IsTraced
  <2>2. /\ Len(plan) \in Nat
        /\ \A k \in 1..Len(plan) : IsOperator(plan[k], k, DOMAIN Types(plan)[k - 1], table.columns)
    BY PlanScan, Zenon
  <2>3. PICK m : m = t.at - 1
    OBVIOUS
  <2>4. t.at \in 1..Len(plan) /\ m \in 1..Len(plan)
    BY ONLY <2>1, <2>2, <2>3
  <2>5. IsOperator(plan[t.at], t.at, DOMAIN Types(plan)[m], table.columns)
    BY <2>2, <2>3, <2>4, Zenon
  <2>6. PICK join : join = plan[t.at]
    OBVIOUS
  <2>7. join.left \in BoundTrees(DOMAIN Types(plan)[m]) /\ join.constants \in Seq(Int \cup {Null})
    BY ONLY <2>1, <2>5, <2>6 DEF IsOperator, IsMark
  <2>8. EqualInputs(ResolveOutput[m], DOMAIN Types(plan)[m], row, Outputs(plan, row)[m], system)
    BY <2>4, ResolveExact, Zenon
  <2>9. AreBound(BoundTrees(DOMAIN Types(plan)[m]), DOMAIN Types(plan)[m])
    BY BoundTreesBound, Zenon
  <2>10. PICK left : left = Translate(join.left, ResolveOutput[m])
    OBVIOUS
  <2>11. Equal(left, join.left, row, Outputs(plan, row)[m], system)
    BY <2>7, <2>8, <2>9, <2>10, TranslateExact, Zenon
  <2>12. left.op # "throw" =>
           left \in Trees /\ Eval(left, row, system) = Eval(join.left, Outputs(plan, row)[m], "duckdb")
    BY ONLY <2>11, Zenon DEF Equal
  <2>13. PICK list : list = [k \in DOMAIN join.constants |-> Literal(join.constants[k])]
    OBVIOUS
  <2>14. sql = ExactInList(left, list, op)
    BY <1>1, <1>3, <2>3, <2>6, <2>10, <2>13, Zenon DEF TranslateMark
  <2>15. PICK constants : constants = join.constants
    OBVIOUS
  <2>16. IsInList(ExactInList(left, list, op), op,
                  In3(Eval(left, row, system), {constants[k] : k \in DOMAIN constants}), row, system)
    <3>1. constants \in Seq(Int \cup {Null}) /\ list = [k \in DOMAIN constants |-> Literal(constants[k])]
      BY ONLY <2>7, <2>13, <2>15
    <3> QED BY ONLY AreExpressions, <3>1, <2>12, op \in {"in", "not_in"},
                    system \in {"clickhouse", "null_in"}, ExactInListValue
  <2>17. CASE left.op = "throw"
    <3>1. sql = Throw
      BY ONLY <2>14, <2>17, Zenon DEF ExactInList
    <3> QED BY <3>1, ThrowOp, Zenon DEF IsInList
  <2>18. CASE left.op # "throw"
    <3>1. {constants[k] : k \in DOMAIN constants} = MarkConstants(join)
      BY <2>15, Zenon DEF MarkConstants
    <3> QED BY <2>1, <2>3, <2>6, <2>12, <2>14, <2>16, <2>18, <3>1, Zenon
  <2> QED BY <2>17, <2>18
<1>4. CASE t.kind = "throw"
  <2>1. sql = Throw
    BY <1>1, <1>4 DEF TranslateMark
  <2> QED BY <2>1, ThrowOp, Zenon DEF IsInList
<1>5. CASE t.kind \notin {"mark", "throw"}
  <2>1. sql = Nothing
    BY <1>1, <1>5 DEF TranslateMark
  <2> QED BY <2>1, NothingOp, Zenon
<1> QED BY <1>3, <1>4, <1>5

\* An expression over the outputs of plan[n] that is translated at all has in
\* ClickHouse the value it has in DuckDB, NULL included.
LEMMA TranslatedExact ==
    ASSUME AreExpressions, PlanInv, NoUuid, NEW row \in Rows, NEW system \in {"clickhouse", "null_in"},
           NEW n \in 1..Len(plan), NEW e \in BoundTrees(DOMAIN Types(plan)[n])
    PROVE  Equal(Translate(e, ResolveOutput[n]), e, row, Outputs(plan, row)[n], system)
<1>1. EqualInputs(ResolveOutput[n], DOMAIN Types(plan)[n], row, Outputs(plan, row)[n], system)
  BY ResolveExact, Zenon
<1>2. AreBound(BoundTrees(DOMAIN Types(plan)[n]), DOMAIN Types(plan)[n])
  BY BoundTreesBound, Zenon
<1> QED BY <1>1, <1>2, TranslateExact, Zenon

\* And so has a filter above the scan.
LEMMA FilterExact ==
    ASSUME AreExpressions, PlanInv, NoUuid, NEW row \in Rows, NEW system \in {"clickhouse", "null_in"},
           NEW n \in 1..Len(plan), NEW e \in BoundTrees(DOMAIN Types(plan)[n])
    PROVE  Equal(TranslateFilter(e, n), e, row, Outputs(plan, row)[n], system)
<1>1. PICK env : env = Outputs(plan, row)[n]
  OBVIOUS
<1>2. Equal(Translate(e, ResolveOutput[n]), e, row, env, system)
  BY <1>1, TranslatedExact, Zenon
<1>3. PICK first : first = TranslateInListFilter(e, n)
  OBVIOUS
<1>4. PICK inner : inner = IF e.op = "not" THEN e.args[1] ELSE e
  OBVIOUS
<1>5. PICK op : op = IF e.op = "not" THEN "not_in" ELSE "in"
  OBVIOUS
<1>6. first = IF inner.op # "ref" THEN Nothing ELSE TranslateMark(TraceReference(n, inner.info), op)
  BY ONLY <1>3, <1>4, <1>5 DEF TranslateInListFilter
<1>7. DOMAIN Types(plan)[n] = 1..Len(Types(plan)[n])
  BY PlanTypes, Zenon
<1>8. AreBound(BoundTrees(DOMAIN Types(plan)[n]), DOMAIN Types(plan)[n])
  BY BoundTreesBound, Zenon
<1>9. /\ e \in Trees /\ IsExpressionNode(e, DOMAIN Types(plan)[n])
      /\ \A i \in DOMAIN e.args : e.args[i] \in BoundTrees(DOMAIN Types(plan)[n])
  BY <1>8, Zenon DEF AreBound
<1>10. e.op = "not" => 1 \in DOMAIN e.args
  BY ONLY <1>9 DEF IsExpressionNode
<1>11. inner \in BoundTrees(DOMAIN Types(plan)[n])
  BY <1>4, <1>9, <1>10, Zenon
<1>12. inner \in Trees /\ IsExpressionNode(inner, DOMAIN Types(plan)[n])
  BY <1>8, <1>11, Zenon DEF AreBound
<1>13. first.op = "nothing" \/ Equal(first, e, row, env, system)
  <2>1. CASE inner.op # "ref"
    BY <1>6, <2>1, NothingOp, Zenon
  <2>2. CASE inner.op = "ref"
    <3>1. inner.info \in 1..Len(Types(plan)[n])
      BY <1>7, <1>12, <2>2 DEF IsExpressionNode
    <3>2. first = TranslateMark(TraceReference(n, inner.info), op)
      BY <1>6, <2>2, Zenon
    <3>3. op \in {"in", "not_in"}
      BY <1>5
    <3>4. first.op = "nothing" \/ IsInList(first, op, env[inner.info], row, system)
      BY <1>1, <3>1, <3>2, <3>3, MarkExact, Zenon
    <3>5. Eval(inner, env, "duckdb") = env[inner.info]
      BY <1>12, <2>2, EvalLeaf, Zenon
    <3>6. e.op \in {"not", "ref"}
      BY <1>4, <2>2
    <3>7. ASSUME first.op # "throw", IsInList(first, op, env[inner.info], row, system)
          PROVE  Eval(first, row, system) = Eval(e, env, "duckdb")
      <4>1. CASE e.op = "not"
        <5>1. op = "not_in" /\ inner = e.args[1]
          BY <1>4, <1>5, <4>1
        <5>2. Eval(e, env, "duckdb") = Not3(Eval(inner, env, "duckdb"))
          BY <1>9, <1>10, <4>1, <5>1, EvalNot, Zenon
        <5>3. Eval(first, row, system) = Not3(env[inner.info])
          BY <3>7, <5>1, Zenon DEF IsInList
        <5> QED BY <3>5, <5>2, <5>3, Zenon
      <4>2. CASE e.op # "not"
        <5>1. op = "in" /\ inner = e
          BY <1>4, <1>5, <4>2
        <5>2. Eval(first, row, system) = env[inner.info]
          BY <3>7, <5>1, Zenon DEF IsInList
        <5> QED BY <3>5, <5>1, <5>2, Zenon
      <4> QED BY <4>1, <4>2
    <3>8. IsInList(first, op, env[inner.info], row, system)
            => first.op = "throw" \/ (first \in Trees /\ first.op = "if")
      BY Zenon DEF IsInList
    <3>9. CASE first.op = "nothing"
      BY <3>9
    <3>10. CASE first.op = "throw"
      BY <3>10, Zenon DEF Equal
    <3>11. CASE first.op \notin {"nothing", "throw"}
      <4>1. first \in Trees /\ first.op = "if" /\ Eval(first, row, system) = Eval(e, env, "duckdb")
        BY ONLY <3>4, <3>7, <3>8, <3>11, Zenon
      <4>2. e.op \notin {"uuid", "enum"} /\ first.op \notin {"throw", "nothing", "uuid", "enum"}
        BY ONLY <3>6, <4>1
      <4> QED BY ONLY <4>1, <4>2, Zenon DEF Equal
    <3> QED BY <3>9, <3>10, <3>11
  <2> QED BY <2>1, <2>2
<1>14. TranslateFilter(e, n) = IF first.op = "nothing" THEN Translate(e, ResolveOutput[n]) ELSE first
  BY <1>3, Zenon DEF TranslateFilter, OrElse
<1> QED BY <1>1, <1>2, <1>13, <1>14, Zenon

-----------------------------------------------------------------------------
(* The predicate of a DELETE or UPDATE.                                    *)

\* A filter of the scan is translated anew for it.
LEMMA ScanFilterExact ==
    ASSUME AreExpressions, PlanInv, NoUuid, NEW row \in Rows, NEW system \in {"clickhouse", "null_in"},
           NEW i \in DOMAIN plan[1].filters, NEW f, f = plan[1].filters[i]
    PROVE  EqualFilter(TranslateScanFilter(f), f.expr, row, <<Read(plan[1].ids[f.position], row)>>, system)
<1>1. PICK c : c = plan[1].ids[f.position]
  OBVIOUS
<1>2. c \in {0} \cup DOMAIN table.columns /\ (c # 0 => f.expr \in FilterTrees(Leaf(c)))
  BY <1>1, PlanFilters, Zenon
<1>3. PICK env : env = <<Read(c, row)>>
  OBVIOUS
<1>4. CASE ColumnSql(c).op = "throw"
  <2>1. TranslateScanFilter(f) = Throw
    BY <1>1, <1>4, Zenon DEF TranslateScanFilter
  <2> QED BY <2>1, ThrowEqual, Zenon DEF EqualFilter
<1>5. CASE ColumnSql(c).op # "throw"
  <2>1. TranslateScanFilter(f) = TranslateTableFilterExpression(f.expr, ColumnSql(c))
    BY <1>1, <1>5, Zenon DEF TranslateScanFilter
  <2>2. /\ c \in DOMAIN table.columns
        /\ ColumnSql(c) \in Trees /\ ColumnSql(c).op \notin {"throw", "nothing", "uuid", "enum"}
        /\ Eval(ColumnSql(c), row, system) = Read(c, row)
    BY <1>2, <1>5, ColumnSqlExact, Zenon
  <2>3. env[1] = Read(c, row)
    BY ONLY <1>3
  <2>4. IsColumnSql(ColumnSql(c), row, env, system)
    BY ONLY <2>2, <2>3, Zenon DEF IsColumnSql
  <2>5. c # 0
    BY <2>2 DEF PlanInv
  <2>6. f.expr \in FilterTrees(Leaf(c))
    BY <1>2, <2>5
  <2>7. AreBound(FilterTrees(Leaf(c)), {1})
    BY FilterTreesFilters, FiltersAreBound, Zenon
  <2>8. EqualFilter(TranslateTableFilterExpression(f.expr, ColumnSql(c)), f.expr, row, env, system)
    BY <2>4, <2>6, <2>7, TableFilterExact, Zenon
  <2> QED BY <1>1, <1>3, <2>1, <2>8, Zenon
<1> QED BY <1>4, <1>5

OfScan(e, i) == i \in DOMAIN plan[1].filters /\ e = TranslateScanFilter(plan[1].filters[i])
OfFilter(e, n, i) ==
    /\ n \in DOMAIN plan /\ plan[n].type = "filter" /\ i \in DOMAIN plan[n].exprs
    /\ e = TranslateFilter(plan[n].exprs[i], n - 1)

\* What the predicate is made of: filters of the scan and of the plan.
LEMMA PredicateMembers ==
    \A e : e \in Predicate <=> /\ e.op # "nothing"
                               /\ (\E i : OfScan(e, i)) \/ (\E n, i : OfFilter(e, n, i))
<1> SUFFICES ASSUME NEW e
             PROVE  e \in Predicate <=> /\ e.op # "nothing"
                                        /\ (\E i : OfScan(e, i)) \/ (\E n, i : OfFilter(e, n, i))
  BY Zenon
<1> DEFINE ofScan == {TranslateScanFilter(plan[1].filters[i]) : i \in DOMAIN plan[1].filters}
           of(n) == {TranslateFilter(plan[n].exprs[i], n - 1) : i \in DOMAIN plan[n].exprs}
           ofFilters == UNION {of(n) : n \in {m \in DOMAIN plan : plan[m].type = "filter"}}
<1>1. e \in ofScan <=> \E i : OfScan(e, i)
  BY Zenon DEF OfScan
<1>2. e \in ofFilters <=> \E n, i : OfFilter(e, n, i)
  <2>1. ASSUME e \in ofFilters PROVE \E n, i : OfFilter(e, n, i)
    <3>1. PICK n \in {m \in DOMAIN plan : plan[m].type = "filter"} : e \in of(n)
      BY <2>1, Zenon
    <3>2. PICK i \in DOMAIN plan[n].exprs : e = TranslateFilter(plan[n].exprs[i], n - 1)
      BY <3>1, Zenon
    <3> QED BY <3>1, <3>2, Zenon DEF OfFilter
  <2>2. ASSUME NEW n, NEW i, OfFilter(e, n, i) PROVE e \in ofFilters
    <3>1. e \in of(n)
      BY <2>2, Zenon DEF OfFilter
    <3>2. n \in {m \in DOMAIN plan : plan[m].type = "filter"}
      BY <2>2, Zenon DEF OfFilter
    <3> QED BY <3>1, <3>2, Zenon
  <2> QED BY <2>1, <2>2, Zenon
<1>3. Predicate = {x \in ofScan \cup ofFilters : x.op # "nothing"}
  BY Zenon DEF Predicate
<1> HIDE DEF ofScan, ofFilters
<1> QED BY <1>1, <1>2, <1>3, Zenon

\* A predicate no part of which is refused keeps the rows that the plan does.
LEMMA PredicateExact ==
    ASSUME AreExpressions, PlanInv, NoUuid, NEW row \in Rows, NEW system \in {"clickhouse", "null_in"},
           \A e \in Predicate : e.op # "throw",
           \A n \in 2..Len(plan) : plan[n].type \in {"projection", "filter", "mark"}
    PROVE  Survives(plan, row) <=> Matches(Predicate, row, system)
<1>1. /\ Len(plan) \in Nat /\ Len(plan) >= 1 /\ DOMAIN plan = 1..Len(plan)
      /\ plan[1].type = "get" /\ \A n \in 1..Len(plan) : plan[n].type = "get" => n = 1
      /\ \A n \in 1..Len(plan) : IsOperator(plan[n], n, DOMAIN Types(plan)[n - 1], table.columns)
  BY PlanScan, Zenon
<1>2. Survives(plan, row) <=> \A n \in DOMAIN plan : LetsPass(plan[n], Outputs(plan, row)[n - 1], row)
  BY SurvivesCases, Zenon
<1>3. ASSUME NEW i, NEW e, OfScan(e, i)
      PROVE  LET f == plan[1].filters[i] IN
             EqualFilter(e, f.expr, row, <<Read(plan[1].ids[f.position], row)>>, system)
  BY <1>3, ScanFilterExact, Zenon DEF OfScan
<1>4. ASSUME NEW n, NEW i, NEW e, OfFilter(e, n, i)
      PROVE  n \in 1..Len(plan) /\ Equal(e, plan[n].exprs[i], row, Outputs(plan, row)[n - 1], system)
  <2>1. n \in 1..Len(plan) /\ plan[n].type = "filter" /\ i \in DOMAIN plan[n].exprs
    BY <1>1, <1>4, Zenon DEF OfFilter
  <2>2. n # 1
    BY <1>1, <2>1
  <2>3. PICK m : m = n - 1
    OBVIOUS
  <2>4. m \in 1..Len(plan)
    BY <1>1, <2>1, <2>2, <2>3
  <2>5. IsOperator(plan[n], n, DOMAIN Types(plan)[m], table.columns)
    BY <1>1, <2>1, <2>3, Zenon
  <2>6. plan[n].exprs \in Seq(BoundTrees(DOMAIN Types(plan)[m]))
    BY ONLY <2>1, <2>5 DEF IsOperator, IsFilter
  <2>7. plan[n].exprs[i] \in BoundTrees(DOMAIN Types(plan)[m])
    BY ONLY <2>1, <2>6
  <2>8. Equal(TranslateFilter(plan[n].exprs[i], m), plan[n].exprs[i], row, Outputs(plan, row)[m], system)
    BY <2>4, <2>7, FilterExact, Zenon
  <2> QED BY <1>4, <2>1, <2>3, <2>8, Zenon DEF OfFilter
<1>5. ASSUME Survives(plan, row), NEW e \in Predicate PROVE Holds(e, row, system)
  <2>1. e.op # "nothing" /\ e.op # "throw" /\ ((\E i : OfScan(e, i)) \/ (\E n, i : OfFilter(e, n, i)))
    BY <1>5, PredicateMembers, Zenon
  <2>2. ASSUME NEW i, OfScan(e, i) PROVE Holds(e, row, system)
    <3>1. PICK f : f = plan[1].filters[i]
      OBVIOUS
    <3>2. EqualFilter(e, f.expr, row, <<Read(plan[1].ids[f.position], row)>>, system)
      BY <1>3, <2>2, <3>1, Zenon
    <3>3. 1 \in DOMAIN plan
      BY <1>1
    <3>4. LetsPass(plan[1], Outputs(plan, row)[1 - 1], row)
      BY <1>2, <1>5, <3>3, Zenon
    <3>5. Holds(f.expr, <<Read(plan[1].ids[f.position], row)>>, "duckdb")
      BY <1>1, <2>2, <3>1, <3>4, Zenon DEF LetsPass, OfScan
    <3> QED BY <2>1, <3>2, <3>5, Zenon DEF EqualFilter, Equal, Holds
  <2>3. ASSUME NEW n, NEW i, OfFilter(e, n, i) PROVE Holds(e, row, system)
    <3>1. Equal(e, plan[n].exprs[i], row, Outputs(plan, row)[n - 1], system)
      BY <1>4, <2>3, Zenon
    <3>2. LetsPass(plan[n], Outputs(plan, row)[n - 1], row)
      BY <1>2, <1>5, <2>3, Zenon DEF OfFilter
    <3>3. Holds(plan[n].exprs[i], Outputs(plan, row)[n - 1], "duckdb")
      BY <2>3, <3>2, Zenon DEF LetsPass, OfFilter
    <3> QED BY <2>1, <3>1, <3>3, Zenon DEF Equal, Holds
  <2> QED BY <2>1, <2>2, <2>3, Zenon
<1>6. ASSUME Matches(Predicate, row, system), NEW n \in DOMAIN plan
      PROVE  LetsPass(plan[n], Outputs(plan, row)[n - 1], row)
  <2>1. ASSUME NEW e, e.op # "nothing", (\E i : OfScan(e, i)) \/ (\E k, i : OfFilter(e, k, i))
        PROVE  e.op # "throw" /\ Eval(e, row, system) = TRUE
    BY <1>6, <2>1, PredicateMembers, Zenon DEF Matches, Holds
  <2>2. ASSUME plan[n].type = "get", NEW i \in DOMAIN plan[n].filters
        PROVE  Holds(plan[n].filters[i].expr, <<Read(plan[n].ids[plan[n].filters[i].position], row)>>, "duckdb")
    <3>1. n = 1
      BY <1>1, <1>6, <2>2, Zenon
    <3>2. PICK e : e = TranslateScanFilter(plan[1].filters[i])
      OBVIOUS
    <3>3. OfScan(e, i)
      BY <2>2, <3>1, <3>2, Zenon DEF OfScan
    <3>4. PICK f : f = plan[1].filters[i]
      OBVIOUS
    <3>5. EqualFilter(e, f.expr, row, <<Read(plan[1].ids[f.position], row)>>, system)
      BY <1>3, <3>3, <3>4, Zenon
    <3>6. e.op # "nothing" => e.op # "throw" /\ Eval(e, row, system) = TRUE
      BY <2>1, <3>3, Zenon
    <3>7. Eval(f.expr, <<Read(plan[1].ids[f.position], row)>>, "duckdb") = TRUE
      BY <3>5, <3>6, Zenon DEF EqualFilter, Equal
    <3> QED BY <3>1, <3>4, <3>7, Zenon DEF Holds
  <2>3. ASSUME plan[n].type = "filter", NEW i \in DOMAIN plan[n].exprs
        PROVE  Holds(plan[n].exprs[i], Outputs(plan, row)[n - 1], "duckdb")
    <3>1. PICK e : e = TranslateFilter(plan[n].exprs[i], n - 1)
      OBVIOUS
    <3>2. OfFilter(e, n, i)
      BY <1>6, <2>3, <3>1, Zenon DEF OfFilter
    <3>3. Equal(e, plan[n].exprs[i], row, Outputs(plan, row)[n - 1], system)
      BY <1>4, <3>2, Zenon
    <3>4. e.op # "nothing"
      BY <3>3 DEF Equal
    <3>5. e.op # "throw" /\ Eval(e, row, system) = TRUE
      BY <2>1, <3>2, <3>4, Zenon
    <3> QED BY <3>3, <3>5, Zenon DEF Equal, Holds
  <2>4. plan[n].type # "empty"
    <3>1. n = 1 \/ n \in 2..Len(plan)
      BY ONLY <1>1, n \in DOMAIN plan
    <3>2. ASSUME n \in 2..Len(plan) PROVE plan[n].type \in {"projection", "filter", "mark"}
      BY <3>2, Zenon
    <3> QED BY <1>1, <3>1, <3>2
  <2> QED BY <2>2, <2>3, <2>4, Zenon DEF LetsPass
<1> QED BY <1>2, <1>5, <1>6, Zenon DEF Matches

IsTarget(target) ==
    \/ target = Refused
    \/ target = MatchesNothing /\ \E n \in DOMAIN plan : plan[n].type = "empty"
    \/ /\ target = [status |-> "ok", predicate |-> Predicate]
       /\ \A e \in Predicate : e.op # "throw"
       /\ \A n \in 2..Len(plan) : plan[n].type \in {"projection", "filter", "mark"}

\* AnalyzeTarget(): refused, an empty result, or the predicate.
LEMMA TargetCases ==
    ASSUME PlanInv
    PROVE  IsTarget(AnalyzeTarget)
<1> DEFINE others == {n \in DOMAIN plan : plan[n].type \notin {"projection", "filter", "mark"}}
           current == CHOOSE n \in others : \A m \in others : m <= n
           inList(n) == plan[n].type = "mark" => plan[n].exact
           refused == \/ \E n \in (current + 1)..Len(plan) : ~inList(n)
                      \/ plan[current].type \notin {"get", "empty"}
                      \/ plan[current].type = "get" /\ \E e \in Predicate : e.op = "throw"
<1>1. AnalyzeTarget = IF refused THEN Refused
                      ELSE IF plan[current].type = "empty" THEN MatchesNothing
                      ELSE [status |-> "ok", predicate |-> Predicate]
  BY Zenon DEF AnalyzeTarget, TargetWith
<1>2. /\ Len(plan) \in Nat /\ Len(plan) >= 1 /\ DOMAIN plan = 1..Len(plan)
      /\ plan[1].type = "get" /\ \A n \in 1..Len(plan) : plan[n].type = "get" => n = 1
  BY PlanScan, Zenon
<1>3. current \in others /\ \A m \in others : m <= current
  <2> DEFINE distances == {Len(plan) - n : n \in others}
  <2>1. 1 \in others /\ others \subseteq 1..Len(plan)
    BY <1>2
  <2>2. distances \subseteq Nat /\ Len(plan) - 1 \in distances
    BY <1>2, <2>1
  <2> HIDE DEF distances
  <2>3. PICK d \in distances : \A k \in distances : d <= k
    BY <2>2, AlongTypes!LeastNatural, Zenon
  <2>4. PICK n \in others : d = Len(plan) - n
    BY <2>3 DEF distances
  <2> HIDE DEF others
  <2>5. ASSUME NEW m \in others PROVE m <= n
    <3>1. Len(plan) - m \in distances
      BY <2>5 DEF distances
    <3>2. d <= Len(plan) - m
      BY <2>3, <3>1, Zenon
    <3> QED BY ONLY <1>2, <2>1, <2>4, <3>2, n \in others, m \in others
  <2> QED BY <2>5, Zenon
<1> HIDE DEF current
<1>4. CASE refused
  BY <1>1, <1>4, Zenon DEF IsTarget
<1>5. CASE ~refused /\ plan[current].type = "empty"
  BY <1>1, <1>3, <1>5, Zenon DEF IsTarget
<1>6. CASE ~refused /\ plan[current].type # "empty"
  <2>1. plan[current].type = "get" /\ \A e \in Predicate : e.op # "throw"
    BY <1>6
  <2>2. current = 1
    BY <1>2, <1>3, <2>1
  <2>3. ASSUME NEW n \in 2..Len(plan) PROVE plan[n].type \in {"projection", "filter", "mark"}
    <3>1. n \notin others
      BY <1>2, <1>3, <2>2
    <3> QED BY <1>2, <3>1
  <2> QED BY <1>1, <1>6, <2>1, <2>3, Zenon DEF IsTarget
<1> QED BY <1>4, <1>5, <1>6

\* The three are told apart.
LEMMA Statuses ==
    /\ Refused.status = "refused" /\ MatchesNothing.status = "matches_nothing"
    /\ \A p : [status |-> "ok", predicate |-> p].status = "ok" /\ [status |-> "ok", predicate |-> p].predicate = p
BY DEF Refused, MatchesNothing

\* The rows of a target are those the plan selects.
LEMMA TargetExact ==
    ASSUME AreExpressions, PlanInv, NoUuid, NEW row \in Rows, NEW system \in {"clickhouse", "null_in"}
    PROVE  /\ AnalyzeTarget.status \in {"refused", "matches_nothing", "ok"}
           /\ AnalyzeTarget.status = "ok" =>
                (Survives(plan, row) <=> Matches(AnalyzeTarget.predicate, row, system))
           /\ AnalyzeTarget.status = "matches_nothing" => ~Survives(plan, row)
<1>1. PICK target : target = AnalyzeTarget
  OBVIOUS
<1>2. IsTarget(target)
  BY <1>1, TargetCases, Zenon
<1>3. CASE target = Refused
  <2>1. target.status = "refused"
    BY <1>3, Statuses, Zenon
  <2> QED BY <1>1, <2>1
<1>4. CASE target = MatchesNothing /\ \E n \in DOMAIN plan : plan[n].type = "empty"
  <2>1. target.status = "matches_nothing"
    BY <1>4, Statuses, Zenon
  <2>2. ~Survives(plan, row)
    BY <1>4, SurvivesCases, Zenon DEF LetsPass
  <2> QED BY <1>1, <2>1, <2>2
<1>5. CASE /\ target = [status |-> "ok", predicate |-> Predicate]
           /\ \A e \in Predicate : e.op # "throw"
           /\ \A n \in 2..Len(plan) : plan[n].type \in {"projection", "filter", "mark"}
  <2>1. target.status = "ok" /\ target.predicate = Predicate
    BY <1>5, Statuses, Zenon
  <2>2. Survives(plan, row) <=> Matches(Predicate, row, system)
    BY <1>5, PredicateExact, Zenon
  <2>3. Survives(plan, row) <=> Matches(target.predicate, row, system)
    BY <2>1, <2>2, Zenon
  <2> QED BY ONLY <1>1, <2>1, <2>3
<1> QED BY <1>2, <1>3, <1>4, <1>5, Zenon DEF IsTarget

\* What DELETE deletes, from the invariant.
LEMMA DeleteExact ==
    ASSUME AreExpressions, PlanInv
    PROVE  DeleteRemovesExactly
<1> SUFFICES ASSUME NoUuid, PlanDelete.status # "refused", NEW row \in Rows,
                    NEW system \in {"clickhouse", "null_in"}
             PROVE  Survives(plan, row)
                      <=> PlanDelete.status = "ok" /\ Matches(PlanDelete.predicate, row, system)
  BY Zenon DEF DeleteRemovesExactly
<1>1. PlanDelete = Refused \/ PlanDelete = AnalyzeTarget
  BY Zenon DEF PlanDelete
<1>2. PlanDelete = AnalyzeTarget
  BY <1>1, Statuses, Zenon
<1>3. PICK target : target = AnalyzeTarget
  OBVIOUS
<1>4. /\ target.status \in {"refused", "matches_nothing", "ok"}
      /\ target.status = "ok" => (Survives(plan, row) <=> Matches(target.predicate, row, system))
      /\ target.status = "matches_nothing" => ~Survives(plan, row)
  BY <1>3, TargetExact, Zenon
<1>5. target.status # "refused"
  BY <1>2, <1>3, Zenon
<1> QED BY ONLY <1>2, <1>3, <1>4, <1>5

\* A DELETE that ClickhouseDml does not refuse removes exactly the rows that
\* DuckDB's plan selects (AnalyzeTarget(), PlanDelete(), InList()), for every
\* plan, row and list, whatever transform_null_in is.
THEOREM DeletesExact ==
    ASSUME AreExpressions
    PROVE  Spec => []DeleteRemovesExactly
<1>1. PlanInv => DeleteRemovesExactly
  BY DeleteExact, Zenon
<1>2. Spec => []PlanInv
  BY PlanInvariant, Zenon
<1> QED BY <1>1, <1>2, PTL

-----------------------------------------------------------------------------
(* UPDATE.                                                                 *)

\* What UPDATE sets is an output of the plan, or a constant.
LEMMA SetValue ==
    ASSUME AreExpressions, PlanInv, NEW e \in SetValues
    PROVE  /\ Len(plan) \in 1..Len(plan)
           /\ e \in BoundTrees(DOMAIN Types(plan)[Len(plan)]) /\ e \in Trees /\ DOMAIN e.args = {}
           /\ \/ e.op = "ref" /\ e.info \in 1..Len(Types(plan)[Len(plan)])
              \/ e.op = "constant" /\ e.info \in {Null, 3}
<1>1. PICK n : n = Len(plan)
  OBVIOUS
<1>2. n \in 1..Len(plan)
  <2>1. Len(plan) \in Nat /\ Len(plan) >= 1
    BY PlanScan, Zenon
  <2> QED BY <1>1, <2>1
<1>3. AreBound(BoundTrees(DOMAIN Types(plan)[n]), DOMAIN Types(plan)[n])
  BY BoundTreesBound, Zenon
<1>4. DOMAIN Types(plan)[n] = 1..Len(Types(plan)[n])
  BY <1>2, PlanTypes, Zenon
<1>5. /\ e \in BoundTrees(DOMAIN Types(plan)[n])
      /\ \/ e.op = "ref" /\ e.info \in 1..Len(Types(plan)[n])
         \/ e.op = "constant" /\ e.info \in {Null, 3}
  <2>1. CASE e \in Refs("value", n)
    BY <1>2, <1>4, <2>1, RefsBound, Zenon
  <2>2. CASE e \in {Constant(Null), Constant(3)}
    <3>1. PICK v : e = Constant(v) /\ v \in {Null, 3}
      BY <2>2, Zenon
    <3>2. v \in Infos
      BY <3>1 DEF Infos
    <3>3. e \in BoundTrees(DOMAIN Types(plan)[n])
      BY <3>1, <3>2, ConstantBound, Zenon
    <3>4. e.op = "constant" /\ e.info = v
      BY <3>1 DEF Constant, Node
    <3> QED BY <3>1, <3>3, <3>4, Zenon
  <2> QED BY <1>1, <2>1, <2>2, Zenon DEF SetValues, Top
<1>6. e \in Trees /\ IsExpressionNode(e, DOMAIN Types(plan)[n])
  BY <1>3, <1>5, Zenon DEF AreBound
<1>7. DOMAIN e.args = {}
  BY ONLY <1>5, <1>6 DEF IsExpressionNode
<1> QED BY <1>1, <1>2, <1>5, <1>6, <1>7, Zenon

\* The assignments that PlanUpdate() can decide on.
IsAssigned(set, c, source, constant, value, target) ==
    \/ set = NoAssignment("refused")
    \/ set = NoAssignment("none") /\ target = "matches_nothing"
    \/ set = NoAssignment("keep") /\ target = "ok" /\ source = c
    \/ /\ set.action = "set" /\ set.value = value
       /\ target \notin {"matches_nothing", "refused"} /\ value.op # "throw"
       /\ ~CanHoldNull(c) /\ (source = 0 \/ CanHoldNull(source)) => ~IsNullConstant(constant)
       /\ ConvertedOnServer(c) /\ ~IsNullConstant(constant) =>
            ParsedFromTextExactly(c) /\ constant.op = "constant" /\ "value" \in set.checks
       /\ ~ConvertedOnServer(c) /\ ~CanHoldNull(c) /\ (source = 0 \/ CanHoldNull(source)) =>
            constant.op = "constant" \/ "nulls" \in set.checks

\* Assigned(), case by case.
LEMMA AssignedCases ==
    ASSUME NEW c, NEW e, NEW source, NEW constant, NEW value, NEW target,
           NEW set, set = Assigned(c, e, source, constant, value, target)
    PROVE  IsAssigned(set, c, source, constant, value, target)
<1> DEFINE isConstant == constant.op = "constant"
           nulls == CheckNulls(c, e, source)
           converted == ConvertedOnServer(c)
           null == IsNullConstant(constant)
           parsed == ParsedFromTextExactly(c)
           refused == \/ target = "refused"
                      \/ nulls /\ null
                      \/ value.op = "throw"
                      \/ converted /\ ~null /\ (~parsed \/ ~isConstant)
           checks == IF converted THEN IF null THEN {} ELSE {"value"}
                     ELSE IF nulls /\ ~isConstant THEN {"nulls"} ELSE {}
<1>1. set = IF target = "matches_nothing" THEN NoAssignment("none")
            ELSE IF target = "ok" /\ source = c THEN NoAssignment("keep")
            ELSE IF refused THEN NoAssignment("refused")
            ELSE Assignment("set", value, checks)
  BY DEF Assigned
<1>2. nulls <=> ~CanHoldNull(c) /\ (source = 0 \/ CanHoldNull(source))
  BY Zenon DEF CheckNulls
<1>3. CASE target = "matches_nothing" \/ (target = "ok" /\ source = c) \/ refused
  BY <1>1, <1>3, Zenon DEF IsAssigned
<1>4. CASE target # "matches_nothing" /\ ~(target = "ok" /\ source = c) /\ ~refused
  <2>1. set = Assignment("set", value, checks)
    BY <1>1, <1>4, Zenon
  <2>2. set.action = "set" /\ set.value = value /\ set.checks = checks
    BY ONLY <2>1 DEF Assignment
  <2>3. (nulls => ~null) /\ (converted /\ ~null => parsed /\ isConstant)
        /\ target # "refused" /\ value.op # "throw"
    BY <1>4, Zenon
  <2>4. converted /\ ~null => "value" \in checks
    BY Zenon
  <2>5. ~converted /\ nulls => isConstant \/ "nulls" \in checks
    BY Zenon
  <2> HIDE DEF checks, nulls
  <2> QED BY <1>2, <1>4, <2>2, <2>3, <2>4, <2>5, Zenon DEF IsAssigned
<1> QED BY <1>3, <1>4

\* An assignment without a value has the action it is given.
LEMMA Actions == \A action : NoAssignment(action).action = action
BY DEF NoAssignment, Assignment

\* A column that an UPDATE leaves out keeps the value it would be set to.
LEMMA KeptColumn ==
    ASSUME AreExpressions, PlanInv, NEW c \in DOMAIN table.columns, NEW e \in SetValues,
           UnchangedScanColumn(e) = c, NEW row
    PROVE  Eval(e, Outputs(plan, row)[Len(plan)], "duckdb") = Read(c, row)
<1>1. c # 0
  BY DEF PlanInv
<1>2. PICK n : n = Len(plan)
  OBVIOUS
<1>3. e.op = "ref"
  BY <1>1, Zenon DEF UnchangedScanColumn
<1>4. PICK t : t = TraceReference(n, e.info)
  OBVIOUS
<1>5. t.kind = "scan" /\ t.index = c
  BY <1>1, <1>2, <1>3, <1>4, Zenon DEF UnchangedScanColumn
<1>6. n \in 1..Len(plan) /\ e \in Trees /\ (e.op = "ref" => e.info \in 1..Len(Types(plan)[n]))
  <2>1. /\ n \in 1..Len(plan) /\ e \in Trees
        /\ \/ e.op = "ref" /\ e.info \in 1..Len(Types(plan)[n])
           \/ e.op = "constant" /\ e.info \in {Null, 3}
    BY <1>2, SetValue, Zenon
  <2> QED BY ONLY <2>1
<1>7. IsTraced(t, ResolveOutput[n][e.info], n, e.info)
  BY <1>3, <1>4, <1>6, ReferencesTraced, Zenon
<1>8. Outputs(plan, row)[n][e.info] = Read(c, row)
  BY <1>5, <1>7, Zenon DEF IsTraced
<1>9. Eval(e, Outputs(plan, row)[n], "duckdb") = Outputs(plan, row)[n][e.info]
  BY <1>3, <1>6, EvalLeaf, Zenon
<1> QED BY <1>2, <1>8, <1>9, Zenon

\* PlanUpdate() is one of them.
LEMMA PlanUpdateCases ==
    ASSUME NEW c, NEW e
    PROVE  IsAssigned(PlanUpdate(c, e), c, UnchangedScanColumn(e), ResolveConstant(e),
                      Translate(e, ResolveOutput[Len(plan)]), AnalyzeTarget.status)
<1>1. PlanUpdate(c, e) = Assigned(c, e, UnchangedScanColumn(e), ResolveConstant(e),
                                  Translate(e, ResolveOutput[Len(plan)]), AnalyzeTarget.status)
  BY Zenon DEF PlanUpdate
<1> QED BY <1>1, AssignedCases, Zenon

\* What UPDATE sets, from the invariant.
LEMMA UpdateExact ==
    ASSUME AreExpressions, PlanInv
    PROVE  UpdateSetsExactly
<1> SUFFICES ASSUME NoUuid, AnalyzeTarget.status # "refused", NEW c \in DOMAIN table.columns, NEW e \in SetValues
             PROVE  SetsExactly(c, e, PlanUpdate(c, e), AnalyzeTarget.predicate)
  BY Zenon DEF UpdateSetsExactly
<1>1. PICK set : set = PlanUpdate(c, e)
  OBVIOUS
<1>2. PICK source : source = UnchangedScanColumn(e)
  OBVIOUS
<1>3. PICK constant : constant = ResolveConstant(e)
  OBVIOUS
<1>4. PICK value : value = Translate(e, ResolveOutput[Len(plan)])
  OBVIOUS
<1>5. PICK target : target = AnalyzeTarget
  OBVIOUS
<1>6. IsAssigned(set, c, source, constant, value, target.status)
  BY <1>1, <1>2, <1>3, <1>4, <1>5, PlanUpdateCases, Zenon
<1> SUFFICES ASSUME NEW row \in Rows
             PROVE  CASE set.action = "refused" -> TRUE
                      [] set.action = "none" -> ~Survives(plan, row)
                      [] set.action = "keep" ->
                           Eval(e, Outputs(plan, row)[Len(plan)], "duckdb") = Read(c, row)
                      [] set.action = "set" -> \A system \in {"clickhouse", "null_in"} :
                           /\ Survives(plan, row) <=> Matches(target.predicate, row, system)
                           /\ Survives(plan, row) =>
                                Eval(set.value, row, system) = Eval(e, Outputs(plan, row)[Len(plan)], "duckdb")
  BY <1>1, <1>5, Zenon DEF SetsExactly
<1>7. CASE set = NoAssignment("refused")
  <2>1. set.action = "refused"
    BY <1>7, Actions, Zenon
  <2> QED BY <2>1
<1>8. CASE set = NoAssignment("none") /\ target.status = "matches_nothing"
  <2>1. set.action = "none"
    BY <1>8, Actions, Zenon
  <2>2. ~Survives(plan, row)
    BY <1>5, <1>8, TargetExact, Zenon
  <2> QED BY <2>1, <2>2
<1>9. CASE set = NoAssignment("keep") /\ source = c
  <2>1. set.action = "keep"
    BY <1>9, Actions, Zenon
  <2>2. Eval(e, Outputs(plan, row)[Len(plan)], "duckdb") = Read(c, row)
    BY <1>2, <1>9, KeptColumn, Zenon
  <2> QED BY <2>1, <2>2
<1>10. CASE /\ set.action = "set" /\ set.value = value /\ value.op # "throw"
            /\ target.status \notin {"matches_nothing", "refused"}
  <2>1. ASSUME NEW system \in {"clickhouse", "null_in"}
        PROVE  /\ Survives(plan, row) <=> Matches(target.predicate, row, system)
               /\ Eval(set.value, row, system) = Eval(e, Outputs(plan, row)[Len(plan)], "duckdb")
    <3>1. /\ target.status \in {"refused", "matches_nothing", "ok"}
          /\ target.status = "ok" => (Survives(plan, row) <=> Matches(target.predicate, row, system))
      BY <1>5, TargetExact, Zenon
    <3>2. Survives(plan, row) <=> Matches(target.predicate, row, system)
      BY ONLY <1>10, <3>1
    <3>3. Len(plan) \in 1..Len(plan) /\ e \in BoundTrees(DOMAIN Types(plan)[Len(plan)])
      BY SetValue, Zenon
    <3>4. Equal(value, e, row, Outputs(plan, row)[Len(plan)], system)
      BY <1>4, <3>3, TranslatedExact, Zenon
    <3>5. Eval(value, row, system) = Eval(e, Outputs(plan, row)[Len(plan)], "duckdb")
      BY <1>10, <3>4, Zenon DEF Equal
    <3> QED BY <1>10, <3>2, <3>5, Zenon
  <2>2. \A system \in {"clickhouse", "null_in"} :
          /\ Survives(plan, row) <=> Matches(target.predicate, row, system)
          /\ Survives(plan, row) =>
               Eval(set.value, row, system) = Eval(e, Outputs(plan, row)[Len(plan)], "duckdb")
    BY <2>1, Zenon
  <2> QED BY <1>10, <2>2
<1> QED BY <1>6, <1>7, <1>8, <1>9, <1>10, Zenon DEF IsAssigned

\* An UPDATE that ClickhouseDml does not refuse changes exactly the rows that
\* DuckDB's plan selects, to the values DuckDB computes (PlanUpdate(),
\* UnchangedScanColumn(), ResolveOutput()), for every plan, row and column.
THEOREM UpdatesExact ==
    ASSUME AreExpressions
    PROVE  Spec => []UpdateSetsExactly
<1>1. PlanInv => UpdateSetsExactly
  BY UpdateExact, Zenon
<1> QED BY <1>1, PlanInvariant, PTL

\* What an UPDATE sets is the literal of the constant that ResolveConstant()
\* finds.
LEMMA ConstantAssigned ==
    ASSUME AreExpressions, PlanInv, NEW e \in SetValues, NEW constant, constant = ResolveConstant(e),
           constant.op = "constant"
    PROVE  /\ UnchangedScanColumn(e) = 0
           /\ Translate(e, ResolveOutput[Len(plan)]) = Literal(constant.info)
<1>1. PICK n : n = Len(plan)
  OBVIOUS
<1>2. /\ n \in 1..Len(plan) /\ e \in Trees /\ DOMAIN e.args = {}
      /\ \/ e.op = "ref" /\ e.info \in 1..Len(Types(plan)[n])
         \/ e.op = "constant"
  <2>1. /\ Len(plan) \in 1..Len(plan) /\ e \in Trees /\ DOMAIN e.args = {}
        /\ \/ e.op = "ref" /\ e.info \in 1..Len(Types(plan)[Len(plan)])
           \/ e.op = "constant" /\ e.info \in {Null, 3}
    BY SetValue, Zenon
  <2> QED BY ONLY <1>1, <2>1, Zenon
<1>3. CASE e.op = "constant"
  <2>1. e.op # "ref"
    BY <1>3
  <2>2. constant = e
    BY <2>1, Zenon DEF ResolveConstant
  <2>3. UnchangedScanColumn(e) = 0
    BY <2>1, Zenon DEF UnchangedScanColumn
  <2>4. Translate(e, ResolveOutput[n]) = Literal(e.info)
    BY <1>2, <1>3, TranslateLeaf, Zenon
  <2> QED BY <1>1, <2>2, <2>3, <2>4, Zenon
<1>4. CASE e.op = "ref" /\ e.info \in 1..Len(Types(plan)[n])
  <2>1. PICK t : t = TraceReference(n, e.info)
    OBVIOUS
  <2>2. constant = IF t.kind = "expression" THEN plan[t.at].exprs[t.index] ELSE e
    BY <1>1, <1>4, <2>1, Zenon DEF ResolveConstant
  <2>3. t.kind = "expression"
    BY <1>4, <2>2
  <2>4. PICK sql : sql = ResolveOutput[n][e.info]
    OBVIOUS
  <2>5. IsTraced(t, sql, n, e.info)
    BY <1>2, <1>4, <2>1, <2>4, ReferencesTraced, Zenon
  <2>6. /\ t.at \in 2..Len(plan) /\ plan[t.at].type = "projection"
        /\ t.index \in DOMAIN plan[t.at].exprs
        /\ sql = Translate(plan[t.at].exprs[t.index], ResolveOutput[t.at - 1])
    BY <2>3, <2>5, Zenon DEF IsTraced
  <2>7. t.at \in 1..Len(plan)
    <3>1. Len(plan) \in Nat
      BY PlanScan, Zenon
    <3> QED BY ONLY <2>6, <3>1
  <2>8. constant \in BoundTrees(DOMAIN Types(plan)[t.at - 1]) /\ constant \in Trees
    BY <2>2, <2>3, <2>6, <2>7, ProjectionExpr, Zenon
  <2>9. IsExpressionNode(constant, DOMAIN Types(plan)[t.at - 1])
    BY <2>8, BoundTreesBound, Zenon DEF AreBound
  <2>10. DOMAIN constant.args = {}
    BY ONLY <2>9, constant.op = "constant" DEF IsExpressionNode
  <2>11. Translate(constant, ResolveOutput[t.at - 1]) = Literal(constant.info)
    BY <2>8, <2>10, TranslateLeaf, Zenon
  <2>12. Translate(e, ResolveOutput[n]) = sql
    BY <1>2, <1>4, <2>4, TranslateLeaf, Zenon
  <2>13. UnchangedScanColumn(e) = 0
    <3>1. t.kind # "scan"
      BY <2>3
    <3> QED BY <1>1, <1>4, <2>1, <3>1, Zenon DEF UnchangedScanColumn
  <2> QED BY <1>1, <2>2, <2>3, <2>6, <2>11, <2>12, <2>13, Zenon
<1> QED BY <1>2, <1>3, <1>4

\* A column that is assigned unchanged is copied as it is.
LEMMA ColumnAssigned ==
    ASSUME AreExpressions, PlanInv, NEW e \in SetValues, NEW c, c = UnchangedScanColumn(e), c # 0
    PROVE  c \in DOMAIN table.columns /\ Translate(e, ResolveOutput[Len(plan)]) = ColumnSql(c)
<1>1. PICK n : n = Len(plan)
  OBVIOUS
<1>2. /\ n \in 1..Len(plan) /\ e \in Trees /\ DOMAIN e.args = {}
      /\ e.op = "ref" => e.info \in 1..Len(Types(plan)[n])
  <2>1. /\ Len(plan) \in 1..Len(plan) /\ e \in Trees /\ DOMAIN e.args = {}
        /\ \/ e.op = "ref" /\ e.info \in 1..Len(Types(plan)[Len(plan)])
           \/ e.op = "constant" /\ e.info \in {Null, 3}
    BY SetValue, Zenon
  <2> QED BY ONLY <1>1, <2>1
<1>3. e.op = "ref"
  BY Zenon DEF UnchangedScanColumn
<1>4. PICK t : t = TraceReference(n, e.info)
  OBVIOUS
<1>5. t.kind = "scan" /\ t.index = c
  BY <1>1, <1>3, <1>4, Zenon DEF UnchangedScanColumn
<1>6. PICK sql : sql = ResolveOutput[n][e.info]
  OBVIOUS
<1>7. IsTraced(t, sql, n, e.info)
  BY <1>2, <1>3, <1>4, <1>6, ReferencesTraced, Zenon
<1>8. t.index \in {0} \cup DOMAIN table.columns /\ sql = ColumnSql(t.index)
  BY <1>5, <1>7, Zenon DEF IsTraced
<1>9. Translate(e, ResolveOutput[n]) = sql
  BY <1>2, <1>3, <1>6, TranslateLeaf, Zenon
<1> QED BY <1>1, <1>5, <1>8, <1>9

\* A literal that is not refused has the value of the constant.
LEMMA LiteralValue ==
    ASSUME AreExpressions, NEW d, Literal(d).op # "throw", NEW row, NEW system
    PROVE  Eval(Literal(d), row, system) = d
<1>1. CASE d = Null
  <2>1. Literal(d) = Constant(d)
    BY <1>1, Zenon DEF Literal
  <2>2. d \in Int \cup {Null}
    BY <1>1
  <2>3. Eval(Constant(d), row, system) = d
    BY <2>2, ConstantTree, Zenon
  <2> QED BY <2>1, <2>3, Zenon
<1>2. CASE d # Null /\ d \in Representable
  <2>1. Literal(d) = Constant(d)
    BY <1>2, Zenon DEF Literal, TransformConstant
  <2>2. d \in Int \cup {Null}
    BY <1>2, RepresentableAssumption
  <2>3. Eval(Constant(d), row, system) = d
    BY <2>2, ConstantTree, Zenon
  <2> QED BY <2>1, <2>3, Zenon
<1>3. CASE d # Null /\ d \notin Representable
  <2>1. Literal(d) = Throw
    BY <1>3, Zenon DEF Literal, TransformConstant
  <2> QED BY <2>1, ThrowOp, Zenon
<1> QED BY <1>1, <1>2, <1>3

\* A mutation whose conversions are checked cannot be stuck, from the invariant.
LEMMA UpdateChecked ==
    ASSUME AreExpressions, PlanInv
    PROVE  UncheckedUpdateNeverStuck
<1> SUFFICES ASSUME NEW c \in DOMAIN table.columns, NEW e \in SetValues
             PROVE  FailuresChecked(c, PlanUpdate(c, e), AnalyzeTarget.predicate)
  BY Zenon DEF UncheckedUpdateNeverStuck
<1>1. PICK set : set = PlanUpdate(c, e)
  OBVIOUS
<1>2. PICK source : source = UnchangedScanColumn(e)
  OBVIOUS
<1>3. PICK constant : constant = ResolveConstant(e)
  OBVIOUS
<1>4. PICK value : value = Translate(e, ResolveOutput[Len(plan)])
  OBVIOUS
<1>5. PICK target : target = AnalyzeTarget.status
  OBVIOUS
<1>6. IsAssigned(set, c, source, constant, value, target)
  BY <1>1, <1>2, <1>3, <1>4, <1>5, PlanUpdateCases, Zenon
<1> SUFFICES ASSUME set.action = "set", NEW row \in Rows
             PROVE  LET v == Eval(set.value, row, "clickhouse") IN
                    Fails(c, v) => (IF v = Null THEN "nulls" ELSE "value") \in set.checks
  BY <1>1, Zenon DEF FailuresChecked
<1> SUFFICES ASSUME NEW v, v = Eval(set.value, row, "clickhouse"), Fails(c, v)
             PROVE  (IF v = Null THEN "nulls" ELSE "value") \in set.checks
  BY Zenon
<1>7. /\ set.value = value /\ value.op # "throw"
      /\ ~CanHoldNull(c) /\ (source = 0 \/ CanHoldNull(source)) => ~IsNullConstant(constant)
      /\ ConvertedOnServer(c) /\ ~IsNullConstant(constant) =>
           ParsedFromTextExactly(c) /\ constant.op = "constant" /\ "value" \in set.checks
      /\ ~ConvertedOnServer(c) /\ ~CanHoldNull(c) /\ (source = 0 \/ CanHoldNull(source)) =>
           constant.op = "constant" \/ "nulls" \in set.checks
  <2>1. \A action : action # "set" => set # NoAssignment(action)
    BY Actions, Zenon
  <2>2. set # NoAssignment("refused") /\ set # NoAssignment("none") /\ set # NoAssignment("keep")
    BY <2>1
  <2> QED BY <1>6, <2>2, Zenon DEF IsAssigned
<1>8. v = Eval(value, row, "clickhouse")
  BY <1>7, Zenon
<1>9. constant.op = "constant" => source = 0 /\ v = constant.info
  <2> SUFFICES ASSUME constant.op = "constant" PROVE source = 0 /\ v = constant.info
    OBVIOUS
  <2>1. source = 0 /\ value = Literal(constant.info)
    BY <1>2, <1>3, <1>4, ConstantAssigned, Zenon
  <2>2. Eval(Literal(constant.info), row, "clickhouse") = constant.info
    <3>1. Literal(constant.info).op # "throw"
      BY <1>7, <2>1, Zenon
    <3> QED BY ONLY AreExpressions, <3>1, LiteralValue
  <2> QED BY <1>8, <2>1, <2>2, Zenon
<1>10. source # 0 /\ ~CanHoldNull(source) => v # Null
  <2> SUFFICES ASSUME source # 0, ~CanHoldNull(source) PROVE v # Null
    OBVIOUS
  <2>1. source \in DOMAIN table.columns /\ value = ColumnSql(source)
    BY <1>2, <1>4, ColumnAssigned, Zenon
  <2>2. source \in {0} \cup DOMAIN table.columns
    BY <2>1
  <2>3. Kind(source) # "coarse" /\ Eval(ColumnSql(source), row, "clickhouse") = Read(source, row)
    BY <1>7, <2>1, <2>2, ColumnSqlValue, Zenon
  <2>4. Read(source, row) = row[source] /\ row[source] # Null
    BY <2>1, <2>3, NotCoarse, Zenon
  <2> QED BY <1>8, <2>1, <2>3, <2>4, Zenon
<1>11. IsNullConstant(constant) <=> constant.op = "constant" /\ constant.info = Null
  BY Zenon DEF IsNullConstant
<1>12. CASE v = Null
  <2>1. ~CanHoldNull(c)
    BY <1>12, Zenon DEF Fails
  <2>2. constant.op # "constant"
    BY <1>7, <1>9, <1>11, <1>12, <2>1, Zenon
  <2>3. source = 0 \/ CanHoldNull(source)
    BY <1>10, <1>12, Zenon
  <2>4. ~ConvertedOnServer(c)
    BY <1>7, <1>11, <2>2, Zenon
  <2>5. "nulls" \in set.checks
    BY <1>7, <2>1, <2>2, <2>3, <2>4, Zenon
  <2> QED BY <1>12, <2>5
<1>13. CASE v # Null
  <2>1. Kind(c) = "text"
    BY <1>13, Zenon DEF Fails
  <2>2. ConvertedOnServer(c)
    BY <2>1 DEF ConvertedOnServer
  <2>3. ~IsNullConstant(constant)
    BY <1>9, <1>11, <1>13, Zenon
  <2>4. "value" \in set.checks
    BY <1>7, <2>2, <2>3, Zenon
  <2> QED BY <1>13, <2>4
<1> QED BY <1>12, <1>13

\* No row is given a value whose conversion to the column's type fails without
\* a check that looks for such a value first, so the mutation cannot get stuck
\* on it (PlanUpdate()): for every plan, UUIDs included.
THEOREM UpdatesChecked ==
    ASSUME AreExpressions
    PROVE  Spec => []UncheckedUpdateNeverStuck
<1>1. PlanInv => UncheckedUpdateNeverStuck
  BY UpdateChecked, Zenon
<1> QED BY <1>1, PlanInvariant, PTL

-----------------------------------------------------------------------------
(* There is a set of all expressions: the hypothesis of the theorems can   *)
(* be met.  The expressions of depth up to n are nodes over those of depth *)
(* up to n - 1.                                                            *)

ArgsOver(S) == UNION {[at -> S] : at \in UNION {SUBSET (1..n) : n \in Nat}}
NodesOver(S) == {Node(a[1], a[2], a[3]) : a \in Ops \X Infos \X ArgsOver(S)}
LevelStep(p, k, below) == NodesOver(IF k = 1 THEN {} ELSE below)

ByLevel == INSTANCE Recursion WITH Step <- LevelStep

IsNodeOver(e, S) ==
    \E op \in Ops, info \in Infos, n \in Nat : \E at \in SUBSET (1..n) : \E args \in [at -> S] :
        e = Node(op, info, args)

\* A node over S, by its parts.
LEMMA OfNodesOver ==
    ASSUME NEW S, NEW e
    PROVE  e \in NodesOver(S) <=> IsNodeOver(e, S)
<1>1. ASSUME e \in NodesOver(S) PROVE IsNodeOver(e, S)
  <2>1. PICK a \in Ops \X Infos \X ArgsOver(S) : e = Node(a[1], a[2], a[3])
    BY <1>1, Zenon DEF NodesOver
  <2>2. a[1] \in Ops /\ a[2] \in Infos /\ a[3] \in ArgsOver(S)
    OBVIOUS
  <2>3. PICK n \in Nat : \E at \in SUBSET (1..n) : a[3] \in [at -> S]
    BY <2>2, Zenon DEF ArgsOver
  <2> QED BY <2>1, <2>2, <2>3, Zenon DEF IsNodeOver
<1>2. ASSUME NEW op \in Ops, NEW info \in Infos, NEW n \in Nat, NEW at \in SUBSET (1..n),
             NEW args \in [at -> S], e = Node(op, info, args)
      PROVE  e \in NodesOver(S)
  <2>1. args \in ArgsOver(S)
    BY Zenon DEF ArgsOver
  <2>2. PICK a : a = <<op, info, args>>
    OBVIOUS
  <2>3. a \in Ops \X Infos \X ArgsOver(S) /\ a[1] = op /\ a[2] = info /\ a[3] = args
    BY <2>1, <2>2
  <2> QED BY <1>2, <2>3, Zenon DEF NodesOver
<1> QED BY <1>1, <1>2, Zenon DEF IsNodeOver

\* More arguments, more nodes.
LEMMA NodesGrow ==
    ASSUME NEW S, NEW T, S \subseteq T
    PROVE  NodesOver(S) \subseteq NodesOver(T)
<1> SUFFICES ASSUME NEW e \in NodesOver(S) PROVE e \in NodesOver(T)
  OBVIOUS
<1>1. PICK op \in Ops, info \in Infos, n \in Nat : \E at \in SUBSET (1..n) : \E args \in [at -> S] :
         e = Node(op, info, args)
  <2>1. IsNodeOver(e, S)
    BY OfNodesOver, Zenon
  <2> QED BY <2>1, Zenon DEF IsNodeOver
<1>2. PICK at \in SUBSET (1..n) : \E args \in [at -> S] : e = Node(op, info, args)
  BY <1>1, Zenon
<1>3. PICK args \in [at -> S] : e = Node(op, info, args)
  BY <1>2, Zenon
<1>4. args \in [at -> T]
  OBVIOUS
<1>5. IsNodeOver(e, T)
  BY <1>3, <1>4, Zenon DEF IsNodeOver
<1> QED BY <1>5, OfNodesOver, Zenon

\* Sets of expressions of depth up to n, for every n.
AreLevels(level) ==
    /\ level[0] = {}
    /\ \A n \in Nat : level[n + 1] = NodesOver(level[n])

\* Two iterations agree as far as both go.
LEMMA IteratedAlike ==
    ASSUME NEW m \in Nat, NEW f, ByLevel!IsIterated(f, 0, m),
           NEW n \in Nat, NEW g, ByLevel!IsIterated(g, 0, n)
    PROVE  \A k \in Nat : k <= m /\ k <= n => f[k] = g[k]
<1> DEFINE Bad == {k \in Nat : k <= m /\ k <= n /\ f[k] # g[k]}
<1> SUFFICES ASSUME Bad # {} PROVE FALSE
  OBVIOUS
<1>1. PICK k \in Bad : \A j \in Bad : k <= j
  <2>1. Bad \subseteq Nat
    OBVIOUS
  <2> HIDE DEF Bad
  <2> QED BY <2>1, ByLevel!LeastNatural
<1>2. k \in Nat /\ k <= m /\ k <= n /\ f[k] # g[k]
  BY <1>1
<1>3. k \in 0..m /\ k \in 0..n
  BY <1>2
<1>4. f[k] = IF k = 0 THEN <<>> ELSE LevelStep(0, k, f[k - 1])
  BY <1>3, Zenon DEF ByLevel!IsIterated
<1>5. g[k] = IF k = 0 THEN <<>> ELSE LevelStep(0, k, g[k - 1])
  BY <1>3, Zenon DEF ByLevel!IsIterated
<1>6. k # 0
  BY <1>2, <1>4, <1>5, Zenon
<1>7. k - 1 \in Nat /\ k - 1 <= m /\ k - 1 <= n /\ k - 1 \notin Bad
  BY <1>1, <1>2, <1>6
<1>8. f[k - 1] = g[k - 1]
  BY <1>7
<1> QED BY <1>2, <1>4, <1>5, <1>8, Zenon

LEMMA LevelsExist == \E level : AreLevels(level)
<1> DEFINE part(n) == CHOOSE f : ByLevel!IsIterated(f, 0, n)
           level == [n \in Nat |-> IF n = 0 THEN {} ELSE part(n)[n]]
<1>1. \A n \in Nat : ByLevel!IsIterated(part(n), 0, n)
  BY ByLevel!IterationExists, Zenon
<1>2. /\ \A n \in Nat : level[n] = IF n = 0 THEN {} ELSE part(n)[n]
      /\ level[0] = {}
  OBVIOUS
<1> HIDE DEF part, level
<1>3. ASSUME NEW n \in Nat PROVE level[n + 1] = NodesOver(level[n])
  <2>1. PICK k \in Nat : k = n + 1 /\ k # 0 /\ k \in 0..k /\ k - 1 = n /\ n <= k /\ n <= n /\ (k = 1 <=> n = 0)
    OBVIOUS
  <2>2. PICK f, g : f = part(k) /\ g = part(n) /\ ByLevel!IsIterated(f, 0, k) /\ ByLevel!IsIterated(g, 0, n)
    BY <1>1, Zenon
  <2>3. level[k] = f[k]
    BY <1>2, <2>1, <2>2, Zenon
  <2>4. f[k] = LevelStep(0, k, f[n])
    BY <2>1, <2>2, Zenon DEF ByLevel!IsIterated
  <2>5. f[n] = g[n]
    BY ONLY n \in Nat, k \in Nat, <2>1, <2>2, IteratedAlike
  <2>6. CASE n = 0
    BY <1>2, <2>1, <2>3, <2>4, <2>6, Zenon DEF LevelStep
  <2>7. CASE n # 0
    <3>1. level[n] = f[n]
      BY <1>2, <2>2, <2>5, <2>7, Zenon
    <3> QED BY <2>1, <2>3, <2>4, <2>7, <3>1, Zenon DEF LevelStep
  <2> QED BY <2>6, <2>7
<1> QED BY <1>2, <1>3, Zenon DEF AreLevels

LEMMA LevelsGrow ==
    ASSUME NEW level, AreLevels(level)
    PROVE  \A m, n \in Nat : m <= n => level[m] \subseteq level[n]
<1>1. \A n \in Nat : level[n] \subseteq level[n + 1]
  <2> DEFINE Bad == {n \in Nat : ~(level[n] \subseteq level[n + 1])}
  <2> SUFFICES ASSUME Bad # {} PROVE FALSE
    OBVIOUS
  <2>1. PICK n \in Bad : \A j \in Bad : n <= j
    <3>1. Bad \subseteq Nat
      OBVIOUS
    <3> HIDE DEF Bad
    <3> QED BY <3>1, ByLevel!LeastNatural
  <2>2. n \in Nat /\ ~(level[n] \subseteq level[n + 1])
    BY <2>1
  <2>3. n # 0
    BY <2>2 DEF AreLevels
  <2>4. PICK k \in Nat : k + 1 = n /\ k \notin Bad
    <3>1. n - 1 \in Nat /\ (n - 1) + 1 = n /\ ~(n <= n - 1)
      BY <2>2, <2>3
    <3> QED BY <2>1, <3>1, Zenon
  <2>5. level[k] \subseteq level[n]
    BY <2>4
  <2>6. NodesOver(level[k]) \subseteq NodesOver(level[n])
    BY <2>5, NodesGrow, Zenon
  <2>7. level[k + 1] = NodesOver(level[k]) /\ level[n + 1] = NodesOver(level[n])
    BY <2>2, Zenon DEF AreLevels
  <2> QED BY <2>2, <2>4, <2>6, <2>7, Zenon
<1>2. ASSUME NEW m \in Nat PROVE \A n \in Nat : m <= n => level[m] \subseteq level[n]
  <2> DEFINE Bad == {n \in Nat : m <= n /\ ~(level[m] \subseteq level[n])}
  <2> SUFFICES ASSUME Bad # {} PROVE FALSE
    OBVIOUS
  <2>1. PICK n \in Bad : \A j \in Bad : n <= j
    <3>1. Bad \subseteq Nat
      OBVIOUS
    <3> HIDE DEF Bad
    <3> QED BY <3>1, ByLevel!LeastNatural
  <2>2. n \in Nat /\ m <= n /\ ~(level[m] \subseteq level[n])
    BY <2>1
  <2>3. m # n
    BY <2>2
  <2>4. PICK k \in Nat : k + 1 = n /\ m <= k /\ k \notin Bad
    <3>1. n - 1 \in Nat /\ (n - 1) + 1 = n /\ ~(n <= n - 1) /\ m <= n - 1
      BY <2>2, <2>3
    <3> QED BY <2>1, <3>1, Zenon
  <2>5. level[m] \subseteq level[k]
    BY <2>4
  <2>6. level[k] \subseteq level[k + 1]
    BY <1>1
  <2> QED BY <2>2, <2>4, <2>5, <2>6
<1> QED BY <1>2, Zenon

\* Finitely many expressions have one level in common.
LEMMA CommonLevel ==
    ASSUME NEW level, AreLevels(level), NEW n \in Nat, NEW at \in SUBSET (1..n),
           NEW args \in [at -> UNION {level[k] : k \in Nat}]
    PROVE  \E k \in Nat : args \in [at -> level[k]]
<1> DEFINE common(j) == \E k \in Nat : \A i \in at : i <= j => args[i] \in level[k]
           Bad == {j \in Nat : ~common(j)}
<1>1. Bad = {}
  <2> SUFFICES ASSUME Bad # {} PROVE FALSE
    OBVIOUS
  <2>1. PICK j \in Bad : \A i \in Bad : j <= i
    <3>1. Bad \subseteq Nat
      OBVIOUS
    <3> HIDE DEF Bad
    <3> QED BY <3>1, ByLevel!LeastNatural
  <2>2. j \in Nat /\ ~common(j)
    BY <2>1
  <2>3. j # 0
    <3>1. \A i \in at : ~(i <= 0)
      OBVIOUS
    <3>2. common(0)
      BY <3>1
    <3> QED BY <2>2, <3>2
  <2>4. j - 1 \in Nat /\ ~(j <= j - 1)
    BY <2>2, <2>3
  <2>5. common(j - 1)
    BY <2>1, <2>4
  <2>6. PICK k \in Nat : \A i \in at : i <= j - 1 => args[i] \in level[k]
    BY <2>5
  <2>7. PICK m \in Nat : j \in at => args[j] \in level[m]
    <3>1. CASE j \in at
      <4>1. args[j] \in UNION {level[k_1] : k_1 \in Nat}
        BY <3>1
      <4>2. PICK m \in Nat : args[j] \in level[m]
        BY <4>1
      <4> QED BY <4>2
    <3>2. CASE j \notin at
      BY <3>2
    <3> QED BY <3>1, <3>2
  <2>8. PICK b \in Nat : k <= b /\ m <= b
    <3> DEFINE b == k + m
    <3>1. b \in Nat /\ k <= b /\ m <= b
      OBVIOUS
    <3> QED BY <3>1
  <2>9. level[k] \subseteq level[b] /\ level[m] \subseteq level[b]
    BY <2>8, LevelsGrow
  <2>10. ASSUME NEW i \in at, i <= j PROVE args[i] \in level[b]
    <3>1. i \in Nat
      OBVIOUS
    <3>2. i <= j - 1 \/ i = j
      BY <2>2, <2>10, <3>1
    <3> QED BY <2>6, <2>7, <2>9, <3>2
  <2>11. common(j)
    BY <2>10
  <2> QED BY <2>2, <2>11
<1>2. PICK k \in Nat : \A i \in at : i <= n => args[i] \in level[k]
  BY <1>1
<1>3. \A i \in at : args[i] \in level[k]
  BY <1>2
<1> QED BY <1>3

\* There is a set that has every node over finitely many of its members, and
\* only members of finite depth.
THEOREM ExpressionsExist == \E S : AreAllExpressions(S)
<1>1. PICK level : AreLevels(level)
  BY LevelsExist, Zenon
<1> DEFINE S == UNION {level[k] : k \in Nat}
<1>2. ASSUME NEW op \in Ops, NEW info \in Infos, NEW n \in Nat, NEW at \in SUBSET (1..n), NEW args \in [at -> S]
      PROVE  Node(op, info, args) \in S
  <2>1. PICK k \in Nat : args \in [at -> level[k]]
    BY <1>1, CommonLevel
  <2>2. Node(op, info, args) \in NodesOver(level[k])
    <3>1. IsNodeOver(Node(op, info, args), level[k])
      BY <2>1, Zenon DEF IsNodeOver
    <3> QED BY <3>1, OfNodesOver, Zenon
  <2>3. Node(op, info, args) \in level[k + 1] /\ k + 1 \in Nat
    BY <1>1, <2>2 DEF AreLevels
  <2> QED BY <2>3
<1>3. ASSUME NEW e \in S
      PROVE  \E k \in Nat : e \in level[k]
  OBVIOUS
<1> DEFINE depths(e) == {k \in Nat : e \in level[k]}
           depth == [e \in S |-> CHOOSE k \in depths(e) : \A j \in depths(e) : k <= j]
<1>4. ASSUME NEW e \in S
      PROVE  depth[e] \in depths(e) /\ \A j \in depths(e) : depth[e] <= j
  <2> DEFINE D == depths(e)
  <2>1. D # {} /\ D \subseteq Nat
    BY <1>3
  <2>2. depth[e] = CHOOSE k \in D : \A j \in D : k <= j
    BY Zenon
  <2> HIDE DEF D, depth
  <2>3. \E k \in D : \A j \in D : k <= j
    BY <2>1, ByLevel!LeastNatural
  <2>4. depth[e] \in D /\ \A j \in D : depth[e] <= j
    BY <2>2, <2>3, Zenon
  <2> QED BY <2>4 DEF D
<1>5. depth \in [S -> Nat]
  BY <1>4
<1> HIDE DEF depth
<1>6. ASSUME NEW e \in S
      PROVE  /\ \E n \in Nat : DOMAIN e.args \subseteq 1..n
             /\ \A i \in DOMAIN e.args : e.args[i] \in S /\ depth[e.args[i]] < depth[e]
  <2>1. PICK m \in Nat : m = depth[e] /\ e \in level[m]
    BY <1>4
  <2>2. m # 0
    BY <1>1, <2>1 DEF AreLevels
  <2>3. PICK k \in Nat : k + 1 = m
    <3>1. m - 1 \in Nat /\ (m - 1) + 1 = m
      BY <2>2
    <3> QED BY <3>1
  <2>4. e \in NodesOver(level[k])
    BY <1>1, <2>1, <2>3, Zenon DEF AreLevels
  <2>5. PICK op \in Ops, info \in Infos, n \in Nat : \E at \in SUBSET (1..n) : \E args \in [at -> level[k]] :
           e = Node(op, info, args)
    <3>1. IsNodeOver(e, level[k])
      BY <2>4, OfNodesOver, Zenon
    <3> QED BY <3>1, Zenon DEF IsNodeOver
  <2>6. PICK at \in SUBSET (1..n) : \E args \in [at -> level[k]] : e = Node(op, info, args)
    BY <2>5, Zenon
  <2>7. PICK args \in [at -> level[k]] : e = Node(op, info, args)
    BY <2>6, Zenon
  <2>8. e.args = args
    BY ONLY <2>7 DEF Node
  <2>9. DOMAIN e.args = at
    BY <2>8
  <2>10. ASSUME NEW i \in DOMAIN e.args PROVE e.args[i] \in S /\ depth[e.args[i]] < depth[e]
    <3>1. e.args[i] \in level[k]
      BY <2>8, <2>9
    <3>2. PICK a \in S : a = e.args[i]
      BY <3>1
    <3>3. depth[a] \in Nat /\ depth[a] <= k
      BY <1>4, <3>1, <3>2
    <3> QED BY <2>1, <2>3, <3>2, <3>3
  <2> QED BY <2>9, <2>10
<1> HIDE DEF S
<1>7. \A e \in S : \A i \in DOMAIN e.args : e.args[i] \in S /\ depth[e.args[i]] < depth[e]
  BY <1>6
<1>8. AreAllExpressions(S)
  BY <1>2, <1>5, <1>6, <1>7, Zenon DEF AreAllExpressions
<1> QED BY <1>8
=============================================================================
