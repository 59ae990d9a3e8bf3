---------------------------- MODULE MCQueryPlan ----------------------------
EXTENDS QueryPlan, TLC

\* No run asks for more than that a tree is one: every value is.
MCTrees == Any
MCRepresentable == 0..3
MCLabels == {0, 2, 3}

ColumnOf(kind, nullable) == [kind |-> kind, nullable |-> nullable]
TableOf(first, second, filterPushdown, truncates) ==
    [columns |-> <<first, second>>, filter_pushdown |-> filterPushdown,
     truncate_removes_rows |-> truncates]
Scan(t, ids, map) == [table |-> t, get |-> Get(ids, map)]

\* Every kind of column beside a plain one; reordered columns, a rowid, a
\* column only the filter needs.
MCScans == {
    Scan(TableOf(ColumnOf("plain", FALSE), ColumnOf("plain", TRUE), TRUE, TRUE), <<2, 1>>, <<>>),
    Scan(TableOf(ColumnOf("enum", TRUE), ColumnOf("float", FALSE), TRUE, TRUE), <<1, 2>>, <<2>>),
    Scan(TableOf(ColumnOf("uuid", TRUE), ColumnOf("plain", FALSE), TRUE, TRUE), <<1, 2>>, <<>>),
    Scan(TableOf(ColumnOf("text", FALSE), ColumnOf("wide", TRUE), TRUE, TRUE), <<2, 1>>, <<>>),
    Scan(TableOf(ColumnOf("coarse", TRUE), ColumnOf("plain", FALSE), TRUE, FALSE), <<2, 1>>, <<>>),
    Scan(TableOf(ColumnOf("plain", TRUE), ColumnOf("plain", FALSE), FALSE, FALSE), <<0, 1>>, <<>>)}

MCConditions == {<<"<", <<2>>>>, <<"!=", <<4>>>>, <<"!=", <<Null>>>>, <<"not_in", <<0>>>>,
    <<"between", <<0, 1>>>>, <<"not_in", <<0, Null>>>>, <<"is_null", <<>>>>, <<"other", <<>>>>}
MCScanConditions == {<<"<", <<-2>>>>, <<"<", <<2>>>>, <<">=", <<4>>>>, <<">=", <<-2>>>>,
    <<"!=", <<4>>>>, <<"!=", <<1>>>>, <<"!=", <<2>>>>, <<"=", <<-2>>>>, <<"in", <<2, -2>>>>, <<"in", <<4>>>>,
    <<"is_null", <<>>>>, <<"optional", <<>>>>, <<"runtime", <<>>>>, <<"other", <<>>>>}
MCLists == {<<2>>, <<0, Null>>}
=============================================================================
