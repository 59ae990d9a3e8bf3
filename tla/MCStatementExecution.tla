------------------------ MODULE MCStatementExecution ------------------------
(* Every answer of at most two blocks; connections, sessions and workers are *)
(* interchangeable.                                                          *)
EXTENDS StatementExecution, TLC

MCAnswers == {Append(blocks, last) :
                 blocks \in UNION {[1 .. n -> {"rows", "empty"}] : n \in 0 .. 2},
                 last \in {"end", "error"}}
Symmetry == Permutations(Conns) \cup Permutations(Sessions) \cup Permutations(Workers)
=============================================================================
