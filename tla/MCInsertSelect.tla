--------------------------- MODULE MCInsertSelect ---------------------------
EXTENDS InsertSelect

MCQuery == <<"a", "b">>

\* The columns of the query, and the same in another order.
MCLayouts == {MCQuery, <<"b", "a">>}
=============================================================================
