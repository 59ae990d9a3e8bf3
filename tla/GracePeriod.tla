---------------------------- MODULE GracePeriod ----------------------------
(***************************************************************************)
(* What the transaction manager of an attached ClickHouse database         *)
(* promises about the catalog entries dropped from its cache, in the words *)
(* of its class comment: a retired entry is kept alive until every         *)
(* transaction that was active when it was retired has ended, and it is    *)
(* let go as soon as a transaction ends and none of them is left.          *)
(*                                                                         *)
(* There are no ids and no stamps here: each retired entry simply carries  *)
(* the set of transactions it still waits for.  TransactionManager.tla     *)
(* implements this with one integer per batch.                             *)
(***************************************************************************)
CONSTANTS
    Connections,   \* DuckDB connections; each has at most one transaction
    Entries        \* schema entry objects

VARIABLES
    active,        \* connections with an active transaction
    limbo          \* set of <<entry, transactions it still waits for>>

vars == <<active, limbo>>

Init == active = {} /\ limbo = {}

Start(c) ==
    /\ c \notin active
    /\ active' = active \cup {c}
    /\ UNCHANGED limbo

Retire(S) ==
    /\ limbo' = limbo \cup {<<e, active>> : e \in S}
    /\ UNCHANGED active

\* Every entry stops waiting for c; the ones that wait for nobody are let go,
\* also those that were retired while no transaction was active.
End(c) ==
    /\ c \in active
    /\ active' = active \ {c}
    /\ limbo' = {b \in {<<r[1], r[2] \ {c}>> : r \in limbo} : b[2] # {}}

Next ==
    \/ \E c \in Connections : Start(c) \/ End(c)
    \/ \E S \in SUBSET Entries : Retire(S)

Spec == Init /\ [][Next]_vars
============================================================================
