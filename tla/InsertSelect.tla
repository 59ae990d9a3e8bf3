---------------------------- MODULE InsertSelect ----------------------------
(***************************************************************************)
(* INSERT ... SELECT and CREATE TABLE ... AS into one table of an attached *)
(* database, with a query that scans another of its tables, by DuckDB      *)
(* connections that share the catalog cache and the connection pool, while *)
(* other clients create and drop the table.                                *)
(*                                                                         *)
(* The steps between which other connections may run are those at which a  *)
(* statement takes load_lock or a pooled connection, and those at which    *)
(* the server answers.  A cleared cache is a new generation of schema      *)
(* entries: a statement goes on with the entry it has found.  Chunks,      *)
(* blocks and the protocol are in StatementExecution, the pool's queue and *)
(* locks in ConnectionPool, the ownership of entries in CatalogCache.      *)
(***************************************************************************)
EXTENDS Naturals, Sequences, FiniteSets

CONSTANTS
    Sessions,        \* DuckDB connections
    None,            \* no lock holder, no table
    Query,           \* names of the columns of a CREATE TABLE's query, in order
    Layouts,         \* column lists other clients create the table with
    Limit,           \* max_connections of the pool
    Modes,           \* acquire modes
    MaxStatements,   \* bound: statements of a behaviour
    MaxChanges       \* bound: changes by other clients

ASSUME QueryAssumption == Query \in Layouts /\ None \notin Layouts /\ <<>> \notin Layouts
ASSUME LimitAssumption == Limit \in Nat \ {0}
ASSUME ModesAssumption == Modes \subseteq {"force", "wait", "try"}
ASSUME BoundsAssumption == MaxStatements \in Nat /\ MaxChanges \in Nat

VARIABLES
    table,        \* on the server: None, or its id and columns
    created,      \* tables created there so far; the id of the newest
    stored,       \* what each finished INSERT has added, and to which table
    changes,      \* changes by other clients so far (for MaxChanges)
    statements,   \* statements begun so far (for MaxStatements)
    acquire_mode,
    load_lock,    \* of the schema set: session that is loading
    is_loaded,    \* of the schema set
    generation,   \* of the entries in the schema set
    table_set,    \* per generation: the table set of the schema entry
    pc,           \* per session: where its statement is
    kind,         \* what the statement is
    lookup,       \* what the lookup it runs is for, or what follows a clear
    entry,        \* generation of the schema entry its lookup has found, 0: none
    held,         \* pooled connections it holds, by their use
    empty,        \* whether the query has ended without a row
    target,       \* gstate.columns
    into,         \* id of the table BeginInsert() has found
    since,        \* history: `created` when the statement began
    missed        \* history: its lookup missed the schema entry

serverVars == <<table, created, stored, changes>>
cacheVars == <<load_lock, is_loaded, generation, table_set>>
statementVars == <<pc, kind, lookup, entry, held, empty, target, into, since, missed>>
vars == <<serverVars, statements, acquire_mode, cacheVars, statementVars>>

Kinds == {"insert", "create", "ignore", "replace"}
Uses == {"scan", "load", "write"}
NotLoaded == [lock |-> None, loaded |-> FALSE, columns |-> None]

Init ==
    /\ table \in {None} \cup {[id |-> 1, columns |-> l] : l \in Layouts}
    /\ created = 1
    /\ stored = {}
    /\ changes = 0 /\ statements = 0
    /\ acquire_mode \in Modes
    /\ load_lock = None
    /\ is_loaded = FALSE
    /\ generation = 1
    /\ table_set = [g \in 1 .. 1 |-> NotLoaded]
    /\ pc = [s \in Sessions |-> "idle"]
    /\ kind = [s \in Sessions |-> "insert"]
    /\ lookup = [s \in Sessions |-> "plan"]
    /\ entry = [s \in Sessions |-> 0]
    /\ held = [s \in Sessions |-> {}]
    /\ empty = [s \in Sessions |-> FALSE]
    /\ target = [s \in Sessions |-> None]
    /\ into = [s \in Sessions |-> 0]
    /\ since = [s \in Sessions |-> 0]
    /\ missed = [s \in Sessions |-> FALSE]

-----------------------------------------------------------------------------
Goto(s, from, to) == pc[s] = from /\ pc' = [pc EXCEPT ![s] = to]

\* The statement is over, by success or by an exception; its connections go
\* back to the pool or are closed.
EndStatement(s) ==
    /\ pc' = [pc EXCEPT ![s] = "idle"]
    /\ kind' = [kind EXCEPT ![s] = "insert"]
    /\ lookup' = [lookup EXCEPT ![s] = "plan"]
    /\ entry' = [entry EXCEPT ![s] = 0]
    /\ held' = [held EXCEPT ![s] = {}]
    /\ empty' = [empty EXCEPT ![s] = FALSE]
    /\ target' = [target EXCEPT ![s] = None]
    /\ into' = [into EXCEPT ![s] = 0]
    /\ since' = [since EXCEPT ![s] = 0]
    /\ missed' = [missed EXCEPT ![s] = FALSE]

-----------------------------------------------------------------------------
(* GetConnection(), with the pool reduced to a number of connections.      *)

\* The locations at which a statement needs a connection, and its use of it.
Needs(s) ==
    CASE pc[s] \in {"connect", "tables connect"} -> {"load"}
      [] pc[s] \in {"create", "start"} -> {"write"}
      [] pc[s] = "ready" -> {"scan"}
      [] OTHER -> {}

InUse == Cardinality({h \in Sessions \X Uses : h[2] \in held[h[1]]})
Available == acquire_mode = "force" \/ InUse < Limit

\* s takes the connection it needs, an idle or a new one.
Acquire(s) ==
    /\ Available
    /\ held' = [held EXCEPT ![s] = @ \cup Needs(s)]

Release(s, use) == held' = [held EXCEPT ![s] = @ \ {use}]

\* GetConnection() throws: none is left, at once in try mode and at the
\* deadline in wait mode; or a new one cannot be opened.
RefusedUntimed(s) ==
    /\ Needs(s) # {}
    /\ Available \/ acquire_mode = "try"

Refused(s) ==
    /\ Needs(s) # {}
    /\ Available \/ acquire_mode \in {"try", "wait"}

-----------------------------------------------------------------------------
(* LookupSchema() and LookupEntry(): the schema set, then the table set of *)
(* the entry found.                                                        *)

\* The statement is bound to its table: the planner looks it up.
BeginStatement(s) ==
    /\ statements < MaxStatements
    /\ statements' = statements + 1
    /\ Goto(s, "idle", "schemas")
    /\ kind' \in {[kind EXCEPT ![s] = k] : k \in Kinds}
    /\ since' = [since EXCEPT ![s] = created]
    /\ UNCHANGED <<serverVars, acquire_mode, cacheVars, lookup, entry, held, empty,
                   target, into, missed>>

\* TryLoadEntries() of the schema set.
TryLoadEntries(s) ==
    /\ load_lock = None
    /\ IF is_loaded THEN Goto(s, "schemas", "find") /\ UNCHANGED load_lock
       ELSE Goto(s, "schemas", "connect") /\ load_lock' = s
    /\ UNCHANGED <<serverVars, statements, acquire_mode, is_loaded, generation, table_set,
                   kind, lookup, entry, held, empty, target, into, since, missed>>

LoadConnection(s) ==
    /\ Goto(s, "connect", "query") \/ Goto(s, "tables connect", "tables query")
    /\ Acquire(s)
    /\ UNCHANGED <<serverVars, statements, acquire_mode, cacheVars, kind, lookup,
                   entry, empty, target, into, since, missed>>

LoadSchemas(s) ==
    /\ Goto(s, "query", "find")
    /\ is_loaded' = TRUE
    /\ load_lock' = None
    /\ Release(s, "load")
    /\ UNCHANGED <<serverVars, statements, acquire_mode, generation, table_set, kind, lookup,
                   entry, empty, target, into, since, missed>>

\* The query fails, or there is no connection for it.
LoadFailure(s) ==
    /\ \/ pc[s] \in {"query", "tables query"}
       \/ pc[s] \in {"connect", "tables connect"} /\ Refused(s)
    /\ IF load_lock = s
         THEN load_lock' = None /\ UNCHANGED table_set
         ELSE table_set' = [table_set EXCEPT ![entry[s]] = NotLoaded] /\ UNCHANGED load_lock
    /\ EndStatement(s)
    /\ UNCHANGED <<serverVars, statements, acquire_mode, is_loaded, generation>>

\* GetEntry() finds the schema entry.
FindSchema(s) ==
    /\ is_loaded
    /\ Goto(s, "find", "tables")
    /\ entry' = [entry EXCEPT ![s] = generation]
    /\ UNCHANGED <<serverVars, statements, acquire_mode, cacheVars, kind, lookup,
                   held, empty, target, into, since, missed>>

TryLoadTables(s) ==
    /\ Goto(s, "tables", "tables connect")
    /\ ~table_set[entry[s]].loaded
    /\ table_set[entry[s]].lock = None
    /\ table_set' = [table_set EXCEPT ![entry[s]].lock = s]
    /\ UNCHANGED <<serverVars, statements, acquire_mode, load_lock, is_loaded, generation,
                   kind, lookup, entry, held, empty, target, into, since, missed>>

LoadTables(s) ==
    /\ Goto(s, "tables query", "tables")
    /\ table_set' = [table_set EXCEPT ![entry[s]] =
                        [lock |-> None, loaded |-> TRUE,
                         columns |-> IF table = None THEN None ELSE table.columns]]
    /\ Release(s, "load")
    /\ UNCHANGED <<serverVars, statements, acquire_mode, load_lock, is_loaded, generation,
                   kind, lookup, entry, empty, target, into, since, missed>>

-----------------------------------------------------------------------------
(* What the statement does with the answer: the table's columns or None.   *)

\* The planner: INSERT needs the table; DuckDB turns CREATE TABLE ... AS of a
\* cached table, unless it is OR REPLACE, into a CREATE TABLE that ends here
\* (ClickhouseSchemaEntry::CreateTable()).
Planned(s, columns) ==
    LET goes_on == CASE kind[s] = "insert" -> columns # None
                     [] kind[s] = "replace" -> TRUE
                     [] OTHER -> columns = None
    IN  /\ lookup[s] = "plan"
        /\ IF goes_on
             THEN /\ Goto(s, "tables", "ready")
                  /\ target' = [target EXCEPT ![s] = IF kind[s] = "insert" THEN columns ELSE None]
                  /\ entry' = [entry EXCEPT ![s] = 0]
                  /\ UNCHANGED <<kind, lookup, held, empty, into, since, missed>>
             ELSE EndStatement(s)

\* PrepareTarget(), IF NOT EXISTS: an existing table is left alone (skip).
Checked(s, columns) ==
    /\ lookup[s] = "check"
    /\ IF columns # None THEN EndStatement(s)
       ELSE /\ Goto(s, "tables", "create")
            /\ entry' = [entry EXCEPT ![s] = 0]
            /\ UNCHANGED <<kind, lookup, held, empty, target, into, since, missed>>

MismatchByCount(columns) == Len(columns) # Len(Query)

\* PrepareTarget(): the table's columns are not those of the query.
Mismatch(columns) == columns # Query

\* PrepareTarget() after CreateTable(): the table may not be the one created.
Verified(s, columns) ==
    /\ lookup[s] = "verify"
    /\ IF columns = None THEN EndStatement(s)
       ELSE IF Mismatch(columns) \/ empty[s] THEN EndStatement(s)
       ELSE /\ Goto(s, "tables", "start")
            /\ target' = [target EXCEPT ![s] = columns]
            /\ entry' = [entry EXCEPT ![s] = 0]
            /\ UNCHANGED <<kind, lookup, held, empty, into, since, missed>>

FindTable(s) ==
    /\ pc[s] = "tables"
    /\ table_set[entry[s]].loaded
    /\ LET columns == table_set[entry[s]].columns
       IN  Planned(s, columns) \/ Checked(s, columns) \/ Verified(s, columns)
    /\ UNCHANGED <<serverVars, statements, acquire_mode, cacheVars>>

\* Another connection cleared the cache between the load and the search:
\* LookupTable() returns null, which IF NOT EXISTS takes for a missing table.
MissSchema(s) ==
    /\ pc[s] = "find"
    /\ ~is_loaded
    /\ IF lookup[s] = "check"
         THEN /\ Goto(s, "find", "create")
              /\ missed' = [missed EXCEPT ![s] = TRUE]
              /\ UNCHANGED <<kind, lookup, entry, held, empty, target, into, since>>
         ELSE EndStatement(s)
    /\ UNCHANGED <<serverVars, statements, acquire_mode, cacheVars>>

-----------------------------------------------------------------------------
(* Execution: the scan, then PrepareTarget() and StartInsert() in the sink. *)

\* The source of the pipeline: a scan of the same database holds a connection
\* until its last block.
StartSource(s) ==
    /\ Goto(s, "ready", "running")
    /\ Acquire(s)
    /\ UNCHANGED <<serverVars, statements, acquire_mode, cacheVars, kind, lookup,
                   entry, empty, target, into, since, missed>>

PrepareUncleared(s) ==
    /\ pc' = [pc EXCEPT ![s] = IF kind[s] = "ignore" THEN "schemas" ELSE "create"]
    /\ lookup' = [lookup EXCEPT ![s] = "check"]

\* PrepareTarget() of CREATE TABLE ... AS, up to its first wait.
Prepare(s) ==
    /\ pc' = [pc EXCEPT ![s] = IF kind[s] = "ignore" THEN "clear" ELSE "create"]
    /\ lookup' = [lookup EXCEPT ![s] = "check"]

\* Sink() gets its first rows, or Finalize() finds that there were none.
FirstInput(s) ==
    /\ pc[s] = "running"
    /\ \/ /\ kind[s] = "insert"
          /\ Goto(s, "running", "start")
          /\ UNCHANGED <<lookup, held, empty>>
       \/ /\ kind[s] # "insert"
          /\ Prepare(s)
          /\ empty' \in {empty, [empty EXCEPT ![s] = TRUE]}
          /\ IF empty'[s] THEN Release(s, "scan") ELSE UNCHANGED held
    /\ UNCHANGED <<serverVars, statements, acquire_mode, cacheVars, kind, entry,
                   target, into, since, missed>>

\* INSERT of no rows: nothing was started.
NoInput(s) ==
    /\ pc[s] = "running" /\ kind[s] = "insert"
    /\ EndStatement(s)
    /\ UNCHANGED <<serverVars, statements, acquire_mode, cacheVars>>

\* ClearCache(), before the lookup that follows or before an exception goes on.
\* The table sets no lookup works on any more do not matter any more.
ClearCache(s) ==
    /\ load_lock = None
    /\ pc[s] = "clear"
    /\ generation' = generation + 1
    /\ is_loaded' = FALSE
    /\ table_set' = [g \in 1 .. generation + 1 |->
                        IF \E t \in Sessions : entry[t] = g THEN table_set[g] ELSE NotLoaded]
    /\ IF lookup[s] = "fail" THEN EndStatement(s)
       ELSE /\ Goto(s, "clear", "schemas")
            /\ UNCHANGED <<kind, lookup, entry, held, empty, target, into, since, missed>>
    /\ UNCHANGED <<serverVars, statements, acquire_mode, load_lock>>

\* Execute(): StartWrite() has a connection.
StartWrite(s) ==
    /\ Goto(s, "create", "execute")
    /\ Acquire(s)
    /\ UNCHANGED <<serverVars, statements, acquire_mode, cacheVars, kind, lookup,
                   entry, empty, target, into, since, missed>>

\* Or it throws; the cache is cleared all the same.
StartWriteFails(s) ==
    /\ pc[s] = "create" /\ Refused(s)
    /\ Goto(s, "create", "clear")
    /\ lookup' = [lookup EXCEPT ![s] = "fail"]
    /\ UNCHANGED <<serverVars, statements, acquire_mode, cacheVars, kind, entry,
                   held, empty, target, into, since, missed>>

\* The server creates the table.
Created(columns) ==
    /\ table' = [id |-> created + 1, columns |-> columns]
    /\ created' = created + 1

\* CREATE [OR REPLACE] TABLE [IF NOT EXISTS] takes effect or, for the first
\* form, fails on an existing table; it may fail in any case, with or without
\* an effect.
ExecuteKeepsConnection(s) ==
    /\ Goto(s, "execute", "clear")
    /\ \/ /\ \/ table = None \/ kind[s] = "replace"
          /\ Created(Query)
          /\ lookup' \in {[lookup EXCEPT ![s] = l] : l \in {"verify", "fail"}}
       \/ /\ lookup' \in {[lookup EXCEPT ![s] = l] :
                             l \in {"fail"} \cup (IF table # None /\ kind[s] = "ignore"
                                                  THEN {"verify"} ELSE {})}
          /\ UNCHANGED <<table, created>>
    /\ UNCHANGED <<stored, changes, statements, acquire_mode, cacheVars, kind, entry,
                   held, empty, target, into, since, missed>>

Execute(s) ==
    /\ Goto(s, "execute", "clear")
    /\ \/ /\ \/ table = None \/ kind[s] = "replace"
          /\ Created(Query)
          /\ lookup' \in {[lookup EXCEPT ![s] = l] : l \in {"verify", "fail"}}
       \/ /\ lookup' \in {[lookup EXCEPT ![s] = l] :
                             l \in {"fail"} \cup (IF table # None /\ kind[s] = "ignore"
                                                  THEN {"verify"} ELSE {})}
          /\ UNCHANGED <<table, created>>
    /\ Release(s, "write")
    /\ UNCHANGED <<stored, changes, statements, acquire_mode, cacheVars, kind, entry,
                   empty, target, into, since, missed>>

\* StartInsert(): StartWrite() has a connection, and BeginInsert() finds the
\* table and every column named.
StartInsert(s) ==
    /\ pc[s] = "start" /\ table # None
    /\ \A i \in DOMAIN target[s] : \E j \in DOMAIN table.columns : table.columns[j] = target[s][i]
    /\ Goto(s, "start", "insert")
    /\ Acquire(s)
    /\ into' = [into EXCEPT ![s] = table.id]
    /\ UNCHANGED <<serverVars, statements, acquire_mode, cacheVars, kind, lookup,
                   entry, empty, target, since, missed>>

\* Finalize(): the rows are in the table the INSERT was begun on, unless the
\* table is gone.
EndInsert(s) ==
    /\ pc[s] = "insert"
    /\ stored' = IF table # None /\ table.id = into[s]
                   THEN stored \cup {[table |-> into[s], kind |-> kind[s], since |-> since[s],
                                      missed |-> missed[s], columns |-> target[s]]}
                   ELSE stored
    /\ EndStatement(s)
    /\ UNCHANGED <<table, created, changes, statements, acquire_mode, cacheVars>>

\* The source, the server or the pool fails: the sink's state is destroyed.
Failure(s) ==
    /\ \/ pc[s] \in {"running", "insert"}
       \/ pc[s] \in {"ready", "start"} /\ Refused(s)
    /\ EndStatement(s)
    /\ UNCHANGED <<serverVars, statements, acquire_mode, cacheVars>>

-----------------------------------------------------------------------------
\* Other clients create and drop the table.
OtherClient ==
    /\ changes < MaxChanges
    /\ changes' = changes + 1
    /\ \/ table = None /\ \E l \in Layouts : Created(l)
       \/ table # None /\ table' = None /\ UNCHANGED created
    /\ UNCHANGED <<stored, statements, acquire_mode, cacheVars, statementVars>>

\* The steps of a statement that wait for a mutex, and the others.
LockStep(s) == TryLoadEntries(s) \/ TryLoadTables(s) \/ ClearCache(s)

FreeStep(s) ==
    \/ LoadConnection(s) \/ LoadSchemas(s) \/ LoadFailure(s) \/ LoadTables(s)
    \/ FindSchema(s) \/ FindTable(s) \/ MissSchema(s)
    \/ StartSource(s) \/ FirstInput(s) \/ NoInput(s)
    \/ StartWrite(s) \/ StartWriteFails(s) \/ Execute(s)
    \/ StartInsert(s) \/ EndInsert(s) \/ Failure(s)

Next ==
    \/ \E s \in Sessions : BeginStatement(s) \/ LockStep(s) \/ FreeStep(s)
    \/ OtherClient

Spec == Init /\ [][Next]_vars

\* A running statement takes its next step: the server answers, the deadline
\* of a wait passes; and a mutex that others keep releasing is granted.
Fairness == \A s \in Sessions : WF_vars(FreeStep(s)) /\ SF_vars(LockStep(s))

FairSpec == Spec /\ Fairness

-----------------------------------------------------------------------------
(***************************************************************************)
(* "a mismatch throws": every row CREATE TABLE ... AS has stored went into *)
(* columns with the names of its query, in the order of the query, whoever *)
(* else creates the table in the meantime and with which columns.          *)
(***************************************************************************)
RowsUnderTheirNames ==
    \A r \in stored : r.kind # "insert" => r.columns = Query

(***************************************************************************)
(* "IF NOT EXISTS leaves an existing table alone and writes nothing"       *)
(* (ctas.test): such a statement never adds rows to a table that was there *)
(* before it began.                                                        *)
(***************************************************************************)
IfNotExistsWritesNothing ==
    \A r \in stored : r.kind = "ignore" => r.table > r.since

(***************************************************************************)
(* The same, but for a lookup that another connection's clear hit between  *)
(* its load and its search: PrepareTarget() clears the cache first, so the *)
(* check sees the table however stale the cache was.                       *)
(***************************************************************************)
IfNotExistsChecksTheServer ==
    \A r \in stored : r.kind = "ignore" /\ ~r.missed => r.table > r.since

(***************************************************************************)
(* Two connections are enough for a statement: with no other statement     *)
(* holding one it never finds the pool exhausted, although its scan and    *)
(* its INSERT hold theirs while the table is created and looked up.        *)
(***************************************************************************)
AloneNeverWaits ==
    \A s \in Sessions :
        Needs(s) # {} /\ Limit >= 2 /\ (\A t \in Sessions \ {s} : held[t] = {}) => Available

(***************************************************************************)
(* Every statement ends, although statements wait for connections while    *)
(* they hold load_lock, and for load_lock while they hold connections: the *)
(* deadline of the wait breaks the cycle.                                  *)
(***************************************************************************)
StatementEnds == \A s \in Sessions : pc[s] # "idle" ~> pc[s] = "idle"
=============================================================================
