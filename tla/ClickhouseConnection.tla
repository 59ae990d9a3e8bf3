------------------------ MODULE ClickhouseConnection ------------------------
(***************************************************************************)
(* ClickhouseConnection, one native-protocol connection, and the checks    *)
(* ClickhouseConnectionPool makes when one comes back.  The connection is  *)
(* a record: the state of its clickhouse::Client, the flag `broken`, and   *)
(* the packets of the server's answer the client has not read yet.         *)
(*                                                                         *)
(* An operation is the set of its outcomes: the connection afterwards and  *)
(* what the caller gets, where "threw" is an exception.                    *)
(***************************************************************************)
EXTENDS Naturals, Sequences

\* One packet of an answer.  The last is "end", or "error" for an exception of
\* the server; the others are blocks, with or without rows.
Packets(queries) == [query : queries, number : Nat,
                     kind : {"rows", "empty", "end", "error"}]

ClientStates == {"idle", "selecting", "inserting", "closed"}
Connection(queries) ==
    [client : ClientStates, broken : BOOLEAN, wire : Seq(Packets(queries))]

Opened == [client |-> "idle", broken |-> FALSE, wire |-> <<>>]
\* A connection object that does not exist (any more).
Closed == [client |-> "closed", broken |-> TRUE, wire |-> <<>>]

Outcome(c, result) == [conn |-> c, result |-> result]

NetworkErrorUnmarked(c, state) ==
    {Outcome([c EXCEPT !.client = s], "threw") : s \in {"idle", state}}

\* RethrowAsDuckDBException() for an exception other than the server's: the
\* connection is marked; whether the client gave up its state is not known.
NetworkError(c, state) ==
    {Outcome([c EXCEPT !.broken = TRUE, !.client = s], "threw") : s \in {"idle", state}}

-----------------------------------------------------------------------------
\* BeginSelect() sends the query and leaves the client selecting.  A client that
\* is busy may refuse, or send it all the same.
BeginQuery(c, answer) ==
    {Outcome([c EXCEPT !.client = "selecting", !.wire = @ \o answer], "ok")}
      \cup (IF c.client = "idle" THEN {Outcome(c, "threw")} ELSE {})
      \cup NetworkError(c, "selecting")

\* The next packet is a block, the end (nullopt), or the server's exception; the
\* last two end the query.  Reading from a client that is not selecting throws.
NextBlock(c) ==
    IF c.client # "selecting" THEN {Outcome([c EXCEPT !.broken = TRUE], "threw")}
    ELSE NetworkError(c, "selecting") \cup
        IF c.wire = <<>> THEN {}
        ELSE LET kind == Head(c.wire).kind IN
             IF kind \in {"rows", "empty"}
               THEN {Outcome([c EXCEPT !.wire = Tail(@)], kind)}
               ELSE {Outcome([c EXCEPT !.wire = Tail(@), !.client = "idle"],
                             IF kind = "end" THEN "end" ELSE "threw")}

\* Sends a cancel and drains what the server still sends; never throws.
Cancel(c) ==
    IF c.client # "selecting" THEN {c}
    ELSE {[c EXCEPT !.client = "idle", !.wire = <<>>]}
           \cup {[c EXCEPT !.client = s, !.broken = TRUE] : s \in {"idle", "selecting"}}

\* A failed BeginInsert() leaves the client inserting, whatever the reason.
BeginInsert(c) ==
    {Outcome([c EXCEPT !.client = "inserting", !.broken = TRUE], "threw")}
      \cup (IF c.client = "idle" THEN {Outcome([c EXCEPT !.client = "inserting"], "ok")}
                                 ELSE {})

SendInsertBlock(c) == {Outcome(c, "ok")} \cup NetworkError(c, "inserting")

EndInsert(c) ==
    {Outcome([c EXCEPT !.client = "idle"], "ok")} \cup NetworkError(c, "inserting")

\* A connection that is idle for long is pinged, and broken if that fails.
IsHealthy(c) ==
    IF c.broken \/ c.client # "idle"
      THEN {Outcome(c, FALSE)}
      ELSE {Outcome(c, TRUE), Outcome([c EXCEPT !.broken = TRUE], FALSE)}

-----------------------------------------------------------------------------
TryRecoverConnection(c) ==
    {Outcome(d, ~d.broken /\ d.client = "idle") : d \in Cancel(c)}

ResetConnection(c) == Cancel(c)

\* What Return() leaves of a connection: Closed if it is expired, if it can
\* neither be used nor recovered, or if the pool has no place for it.
Return(c) ==
    {Closed} \cup UNION {
        IF h.result THEN ResetConnection(h.conn)
        ELSE UNION {IF r.result THEN ResetConnection(r.conn) ELSE {} :
                        r \in TryRecoverConnection(h.conn)} :
            h \in IsHealthy(c)}
=============================================================================
