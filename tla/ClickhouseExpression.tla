------------------------ MODULE ClickhouseExpression ------------------------
(***************************************************************************)
(* ClickhouseExpression: the predicates and SET values of UPDATE and       *)
(* DELETE, translated exactly or not at all.  `inputs` is what the         *)
(* resolver passed to Translate() gives for each reference.                *)
(***************************************************************************)
EXTENDS FilterPushdown

Literal(value) == IF value = Null THEN Constant(Null) ELSE TransformConstant(value)

InListBare(args, op) == Node(op, 0, args)

\* if(isNull(left), NULL, left [NOT] IN (values)), of left and the values.
InList(args, op) ==
    Node("if", 0, <<Node("is_null", 0, <<args[1]>>), Constant(Null), Node(op, 0, args)>>)

IsNullConstant(e) == e.op = "constant" /\ e.info = Null

\* One level of Translate(): args are the arguments' translations.
TranslateExpression(e, args, inputs) ==
    LET isList == /\ 2 \in DOMAIN e.args
                  /\ \A i \in DOMAIN e.args : i > 1 => e.args[i].op = "constant" /\ ~IsNullConstant(e.args[i])
        sql ==
          CASE e.op = "ref" -> inputs[e.info]
            [] e.op = "constant" -> Literal(e.info)
            [] e.op \in Comparisons ->
                 IF \E i \in {1, 2} : IsNullConstant(e.args[i]) THEN Throw ELSE Node(e.op, 0, args)
            [] e.op = "between" ->
                 Node("and", 0, <<Node(">=", 0, <<args[1], args[2]>>), Node("<=", 0, <<args[1], args[3]>>)>>)
            [] e.op \in {"in", "not_in"} -> IF isList THEN InList(args, e.op) ELSE Throw
            [] e.op \in {"and", "or"} -> IF DOMAIN args = {} THEN Throw ELSE Node(e.op, 0, args)
            [] e.op \in {"not", "is_null", "is_not_null", "coalesce", "if"} -> Node(e.op, 0, args)
            [] OTHER -> Throw
    IN IF \E i \in DOMAIN args : args[i].op = "throw" THEN Throw ELSE sql

Translate(expr, inputs) ==
    LET translate[e \in Trees] ==
          TranslateExpression(e, [i \in DOMAIN e.args |-> translate[e.args[i]]], inputs)
    IN translate[expr]

\* One level of TranslateTableFilterExpression().  Unlike TransformConjunction(),
\* an OR with a branch that is only a hint throws.
TranslateTableFilter(e, parts, column) ==
    LET kept == {i \in DOMAIN parts : parts[i].op # "nothing"}
        refused(i) == parts[i].op = "throw" \/ (e.op = "or" /\ parts[i].op = "nothing")
    IN CASE e.op = "optional" -> Nothing
         [] e.op = "runtime" -> Throw
         [] e.op \in {"and", "or"} ->
              IF (\E i \in DOMAIN parts : refused(i)) \/ (e.op = "or" /\ kept = {}) THEN Throw
              ELSE IF kept = {} THEN Nothing
              ELSE Node(e.op, 0, [i \in kept |-> parts[i]])
         [] OTHER -> Translate(e, <<column>>)

TranslateTableFilterExpression(expr, column) ==
    LET translate[e \in Trees] ==
          TranslateTableFilter(e, [i \in DOMAIN e.args |-> translate[e.args[i]]], column)
    IN translate[expr]
=============================================================================
