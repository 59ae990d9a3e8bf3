-------------------------- MODULE MCConnectionPool --------------------------
(***************************************************************************)
(* ConnectionPool for TLC: handles and threads are interchangeable.        *)
(***************************************************************************)
EXTENDS ConnectionPool, TLC

Symmetry == Permutations(Handles) \cup Permutations(Threads)
=============================================================================
