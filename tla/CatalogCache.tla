---------------------------- MODULE CatalogCache ----------------------------
(***************************************************************************)
(* The catalog cache of an attached ClickHouse database: the lazily loaded *)
(* set of schemas (ClickhouseCatalogSet), each of which owns a lazily      *)
(* loaded set of tables, and the statements that look entries up, change   *)
(* the server and clear the cache, interleaved between DuckDB connections. *)
(*                                                                         *)
(* Entries are handed out as raw pointers.  An entry object is alive while *)
(* some shared_ptr owns it: the cache, the vector ClearEntries() moved it  *)
(* to, a retired batch, a statement's keep_alive or a bound plan's         *)
(* lifetime.  Table entries live and die with the schema entry that owns   *)
(* their set, so a pointer to either is a pointer to the schema entry.     *)
(*                                                                         *)
(* The contents of the server are a version number that every statement    *)
(* that changes it increments; the databases themselves always exist.      *)
(* entry_lock and transaction_lock are never held across a step; load_lock *)
(* is held while the server is queried.                                    *)
(***************************************************************************)
EXTENDS TransactionManager, FiniteSets

CONSTANTS
    Databases,     \* names of the databases on the server
    Preparers,     \* connections that keep prepared plans
    None,          \* no lock holder, no entry, no name
    MaxClears      \* bound: statements that clear the cache

ASSUME MaxClearsAssumption == MaxClears \in Nat
ASSUME PreparersAssumption == Preparers \subseteq Connections
ASSUME NoneAssumption == None \notin Connections \cup Entries \cup Databases

VARIABLES
    server,        \* version of the server's databases, tables and columns
    clears,        \* statements that cleared the cache so far (for MaxClears)
    load_lock,     \* connection that is loading the schema set
    is_loaded,
    entries,       \* schema entries in the cache
    schema,        \* per entry: its name and the version its list was read at
    tables,        \* per entry: its table set's load_lock and version (0: none)
    pc,            \* per connection: where its statement is
    target,        \* database the statement looks up (None: a scan of all)
    answer,        \* server's answer to the loading connection
    current,       \* schema entry the statement works on
    cleared,       \* ClearEntries()' local vector
    held,          \* raw pointers obtained in the current transaction
    keep_alive,    \* schema entry a DDL method owns while it runs
    plan,          \* prepared plan: ClickhouseScanBindData's pointer and owner
    floor,         \* history: server version at the last removal from the cache
    since          \* history: floor when the statement's lookup began

cacheVars == <<load_lock, is_loaded, entries, schema, tables>>
statementVars == <<pc, target, answer, current, cleared, keep_alive>>
historyVars == <<floor, since>>
vars == <<tmVars, server, clears, cacheVars, statementVars, held, plan, historyVars>>

Locations == {"idle", "load", "query", "create", "find", "tables", "engines",
              "columns", "bound", "execute", "clear", "retire", "missing"}
NoSchema == [name |-> None, version |-> 0]
NoTables == [lock |-> None, version |-> 0]
NoAnswer == [names |-> {}, version |-> 0]
NoPlan == [table_entry |-> None, lifetime |-> None]

CacheTypeOK ==
    /\ server \in Nat \ {0} /\ clears \in Nat
    /\ load_lock \in Connections \cup {None}
    /\ is_loaded \in BOOLEAN
    /\ entries \in SUBSET Entries
    /\ schema \in [Entries -> [name : Databases \cup {None}, version : Nat]]
    /\ tables \in [Entries -> [lock : Connections \cup {None}, version : Nat]]
    /\ pc \in [Connections -> Locations]
    /\ target \in [Connections -> Databases \cup {None}]
    /\ answer \in [Connections -> [names : SUBSET Databases, version : Nat]]
    /\ current \in [Connections -> Entries \cup {None}]
    /\ cleared \in [Connections -> SUBSET Entries]
    /\ held \in [Connections -> SUBSET Entries]
    /\ keep_alive \in [Connections -> Entries \cup {None}]
    /\ plan \in [Connections -> [table_entry : Entries \cup {None},
                                 lifetime : Entries \cup {None}]]
    /\ floor \in Nat
    /\ since \in [Connections -> Nat]

\* Every variable holds a value of its type: a holder for each lock, a version
\* for each set that was read, a program location for each connection.
TypeOK == TmTypeOK /\ CacheTypeOK

Init ==
    /\ TmInit
    /\ server = 1 /\ clears = 0
    /\ load_lock = None
    /\ is_loaded = FALSE
    /\ entries = {}
    /\ schema = [e \in Entries |-> NoSchema]
    /\ tables = [e \in Entries |-> NoTables]
    /\ pc = [c \in Connections |-> "idle"]
    /\ target = [c \in Connections |-> None]
    /\ answer = [c \in Connections |-> NoAnswer]
    /\ current = [c \in Connections |-> None]
    /\ cleared = [c \in Connections |-> {}]
    /\ held = [c \in Connections |-> {}]
    /\ keep_alive = [c \in Connections |-> None]
    /\ plan = [c \in Connections |-> NoPlan]
    /\ floor = 0
    /\ since = [c \in Connections |-> 0]

-----------------------------------------------------------------------------
Goto(c, from, to) == pc[c] = from /\ pc' = [pc EXCEPT ![c] = to]

\* The statement is over, by success or by an exception: its locals are gone.
EndStatement(c, from) ==
    /\ Goto(c, from, "idle")
    /\ target' = [target EXCEPT ![c] = None]
    /\ answer' = [answer EXCEPT ![c] = NoAnswer]
    /\ current' = [current EXCEPT ![c] = None]
    /\ keep_alive' = [keep_alive EXCEPT ![c] = None]
    /\ since' = [since EXCEPT ![c] = 0]

\* The entry a lookup of `name` finds in the cache, as a set of at most one
\* element: the later of two loads never leaves the entries of the earlier.
Cached(name) == {e \in entries : schema[e].name = name}

\* GetEntryOwner(): the owner of the entry cached under `name` now, which need
\* not be the entry the caller holds, and is null once the cache is cleared.
GetEntryOwner(name) ==
    IF Cached(name) = {} THEN None ELSE CHOOSE e \in Cached(name) : TRUE

\* Objects not allocated yet: any of them serves as the next entry.
Unused == {e \in Entries : schema[e] = NoSchema}

-----------------------------------------------------------------------------
(* GetEntry() and Scan(): TryLoadEntries() and the search are two critical *)
(* sections; nothing protects what lies between them.                      *)

\* A statement starts with a lookup, inside this database's transaction.
BeginLookup(c) ==
    /\ Goto(c, "idle", "load")
    /\ GetTransaction(c)
    /\ target' \in {[target EXCEPT ![c] = n] : n \in Databases \cup {None}}
    /\ since' = [since EXCEPT ![c] = floor]
    /\ UNCHANGED <<server, clears, cacheVars, answer, current, cleared, keep_alive,
                   held, plan, floor>>

\* load_lock is free: the set is loaded already, or c keeps the lock to load it.
TryLoadEntries(c) ==
    /\ load_lock = None
    /\ IF is_loaded
         THEN Goto(c, "load", "find") /\ UNCHANGED load_lock
         ELSE Goto(c, "load", "query") /\ load_lock' = c
    /\ UNCHANGED <<tmVars, server, clears, is_loaded, entries, schema, tables, target,
                   answer, current, cleared, keep_alive, held, plan, historyVars>>

\* The query of system.databases is answered.
LoadQuery(c) ==
    /\ Goto(c, "query", "create")
    /\ answer' = [answer EXCEPT ![c] = [names |-> Databases, version |-> server]]
    /\ UNCHANGED <<tmVars, server, clears, cacheVars, target, current, cleared,
                   keep_alive, held, plan, historyVars>>

LoadFailureKeepsLock(c) ==
    /\ EndStatement(c, "query")
    /\ entries' = {}
    /\ UNCHANGED <<tmVars, server, clears, load_lock, is_loaded, schema, tables, cleared,
                   held, plan, floor>>

\* The query fails: the catch block empties the set and rethrows.
LoadFailure(c) ==
    /\ EndStatement(c, "query")
    /\ load_lock' = None
    /\ entries' = {}
    /\ UNCHANGED <<tmVars, server, clears, is_loaded, schema, tables, cleared,
                   held, plan, floor>>

\* CreateEntry(): the next entry of the answer, visible at once to a search.
CreateEntry(c) ==
    /\ pc[c] = "create"
    /\ Unused # {}
    /\ \E n \in answer[c].names : LET e == CHOOSE e \in Unused : TRUE IN
         /\ schema' = [schema EXCEPT ![e] = [name |-> n, version |-> answer[c].version]]
         /\ entries' = entries \cup {e}
         /\ answer' = [answer EXCEPT ![c].names = @ \ {n}]
    /\ UNCHANGED <<tmVars, server, clears, load_lock, is_loaded, tables, pc, target,
                   current, cleared, keep_alive, held, plan, historyVars>>

FinishLoad(c) ==
    /\ answer[c].names = {}
    /\ Goto(c, "create", "find")
    /\ is_loaded' = TRUE
    /\ load_lock' = None
    /\ answer' = [answer EXCEPT ![c] = NoAnswer]
    /\ UNCHANGED <<tmVars, server, clears, entries, schema, tables, target, current,
                   cleared, keep_alive, held, plan, historyVars>>

\* GetEntry() finds the entry: a raw pointer leaves the cache.
FindSchema(c) ==
    /\ target[c] # None
    /\ Goto(c, "find", "tables")
    /\ \E e \in Cached(target[c]) :
         /\ held' = [held EXCEPT ![c] = @ \cup {e}]
         /\ current' = [current EXCEPT ![c] = e]
    /\ UNCHANGED <<tmVars, server, clears, cacheVars, target, answer, cleared, keep_alive,
                   plan, historyVars>>

\* GetEntry() returns null although the database exists on the server.
MissSchema(c) ==
    /\ target[c] # None
    /\ Cached(target[c]) = {}
    /\ Goto(c, "find", "missing")
    /\ UNCHANGED <<tmVars, server, clears, cacheVars, target, answer, current, cleared,
                   keep_alive, held, plan, historyVars>>

\* Scan(): the callback keeps references to every entry of the snapshot, and
\* goes on to scan the table set of one of them.
ScanSchemas(c) ==
    /\ target[c] = None
    /\ Goto(c, "find", IF entries = {} THEN "missing" ELSE "tables")
    /\ held' = [held EXCEPT ![c] = @ \cup entries]
    /\ current' \in IF entries = {} THEN {current}
                    ELSE {[current EXCEPT ![c] = e] : e \in entries}
    /\ UNCHANGED <<tmVars, server, clears, cacheVars, target, answer, cleared, keep_alive,
                   plan, historyVars>>

-----------------------------------------------------------------------------
(* ClickhouseTableSet of the schema entry c works on.  It is never cleared: *)
(* it goes away with its schema entry.                                      *)

TryLoadTables(c) ==
    /\ pc[c] = "tables"
    /\ tables[current[c]].lock = None
    /\ IF tables[current[c]].version # 0
         THEN Goto(c, "tables", "bound") /\ UNCHANGED tables
         ELSE /\ Goto(c, "tables", "engines")
              /\ tables' = [tables EXCEPT ![current[c]].lock = c]
    /\ UNCHANGED <<tmVars, server, clears, load_lock, is_loaded, entries, schema, target,
                   answer, current, cleared, keep_alive, held, plan, historyVars>>

\* The query of system.tables (engines, row counts).  The set is as old as the
\* first of its two queries.
LoadEngines(c) ==
    /\ Goto(c, "engines", "columns")
    /\ tables' = [tables EXCEPT ![current[c]].version = server]
    /\ UNCHANGED <<tmVars, server, clears, load_lock, is_loaded, entries, schema, target,
                   answer, current, cleared, keep_alive, held, plan, historyVars>>

\* The query of system.columns, by another statement: the server may have
\* changed in between.  The entries are built and the set is loaded.
LoadColumns(c) ==
    /\ Goto(c, "columns", "bound")
    /\ tables' = [tables EXCEPT ![current[c]].lock = None]
    /\ UNCHANGED <<tmVars, server, clears, load_lock, is_loaded, entries, schema, target,
                   answer, current, cleared, keep_alive, held, plan, historyVars>>

\* Either query fails.
LoadTablesFailure(c) ==
    /\ \E from \in {"engines", "columns"} : EndStatement(c, from)
    /\ tables' = [tables EXCEPT ![current[c]] = NoTables]
    /\ UNCHANGED <<tmVars, server, clears, load_lock, is_loaded, entries, schema, cleared,
                   held, plan, floor>>

-----------------------------------------------------------------------------
(* What a statement does with the entry it found.                          *)

\* Nothing more: the statement ends, or reports that the entry is missing.
FinishStatement(c) ==
    /\ \E from \in {"bound", "missing"} : EndStatement(c, from)
    /\ UNCHANGED <<tmVars, server, clears, cacheVars, cleared, held, plan, floor>>

BindPlanUnowned(c) ==
    /\ c \in Preparers
    /\ EndStatement(c, "bound")
    /\ plan' = [plan EXCEPT ![c] = [table_entry |-> current[c], lifetime |-> None]]
    /\ UNCHANGED <<tmVars, server, clears, cacheVars, cleared, held, floor>>

\* GetScanFunction(): a plan that may outlive the transaction (PREPARE).
BindPlan(c) ==
    /\ c \in Preparers
    /\ EndStatement(c, "bound")
    /\ plan' = [plan EXCEPT ![c] = [table_entry |-> current[c],
                                    lifetime |-> GetEntryOwner(schema[current[c]].name)]]
    /\ UNCHANGED <<tmVars, server, clears, cacheVars, cleared, held, floor>>

DropPlan(c) ==
    /\ plan[c] # NoPlan
    /\ plan' = [plan EXCEPT ![c] = NoPlan]
    /\ UNCHANGED <<tmVars, server, clears, cacheVars, statementVars, held, historyVars>>

\* A DDL method of the schema entry, or clickhouse_execute() without a lookup:
\* StartWrite() has a connection in hand and marks the transaction.
StartWriteUnmarked(c) ==
    /\ clears < MaxClears
    /\ clears' = clears + 1
    /\ \/ Goto(c, "bound", "execute") /\ keep_alive' =
            [keep_alive EXCEPT ![c] = GetEntryOwner(schema[current[c]].name)]
       \/ Goto(c, "idle", "execute") /\ UNCHANGED keep_alive
    /\ GetTransaction(c)
    /\ UNCHANGED <<server, cacheVars, target, answer, current, cleared, held, plan,
                   historyVars>>

StartWrite(c) ==
    /\ clears < MaxClears
    /\ clears' = clears + 1
    /\ \/ Goto(c, "bound", "execute") /\ keep_alive' =
            [keep_alive EXCEPT ![c] = GetEntryOwner(schema[current[c]].name)]
       \/ Goto(c, "idle", "execute") /\ UNCHANGED keep_alive
    /\ GetAndMarkWritten(c)
    /\ UNCHANGED <<server, cacheVars, target, answer, current, cleared, held, plan,
                   historyVars>>

\* StartWrite() throws (read-only database, no connection), or there is nothing
\* to write: clickhouse_clear_cache(), CREATE TABLE IF NOT EXISTS ... AS.
BeginClear(c) ==
    /\ clears < MaxClears
    /\ clears' = clears + 1
    /\ \E from \in {"idle", "bound"} : Goto(c, from, "clear")
    /\ UNCHANGED <<tmVars, server, cacheVars, target, answer, current, cleared,
                   keep_alive, held, plan, historyVars>>

\* The statement runs.  It fails without effect, or it changes the server (and
\* may fail still): both ways the cache is cleared next.
ExecuteStatement(c) ==
    /\ Goto(c, "execute", "clear")
    /\ \/ UNCHANGED server
       \/ server' = server + 1
    /\ UNCHANGED <<tmVars, clears, cacheVars, target, answer, current, cleared, keep_alive,
                   held, plan, floor, since>>

\* ClearEntries(), first half: under both locks the entries leave the cache.
ClearEntriesUnlocked(c) ==
    /\ Goto(c, "clear", "retire")
    /\ cleared' = [cleared EXCEPT ![c] = entries]
    /\ entries' = {}
    /\ is_loaded' = FALSE
    /\ floor' = server
    /\ UNCHANGED <<tmVars, server, clears, load_lock, schema, tables, target, answer,
                   current, keep_alive, held, plan, since>>

ClearEntries(c) ==
    /\ load_lock = None
    /\ Goto(c, "clear", "retire")
    /\ cleared' = [cleared EXCEPT ![c] = entries]
    /\ entries' = {}
    /\ is_loaded' = FALSE
    /\ floor' = server
    /\ UNCHANGED <<tmVars, server, clears, load_lock, schema, tables, target, answer,
                   current, keep_alive, held, plan, since>>

\* Second half: the transaction manager takes them over.  The statement ends,
\* or looks the table up afresh (CREATE TABLE, CREATE TABLE ... AS).
RetireCleared(c) ==
    /\ RetireEntries(cleared[c])
    /\ cleared' = [cleared EXCEPT ![c] = {}]
    /\ \/ EndStatement(c, "retire")
       \/ /\ target[c] # None
          /\ Goto(c, "retire", "load")
          /\ since' = [since EXCEPT ![c] = floor]
          /\ UNCHANGED <<target, answer, current, keep_alive>>
    /\ UNCHANGED <<server, clears, cacheVars, held, plan, floor>>

\* CommitTransaction() or RollbackTransaction(): the pointers obtained in the
\* transaction are not used any more.
End(c) ==
    /\ pc[c] = "idle"
    /\ EndTransaction(c)
    /\ held' = [held EXCEPT ![c] = {}]
    /\ UNCHANGED <<server, clears, cacheVars, statementVars, plan, floor, since>>

-----------------------------------------------------------------------------
\* The steps of a statement that wait for a lock, and the others.
LockStep(c) == TryLoadEntries(c) \/ TryLoadTables(c) \/ ClearEntries(c)

FreeStep(c) ==
    \/ LoadQuery(c) \/ LoadFailure(c) \/ CreateEntry(c) \/ FinishLoad(c)
    \/ FindSchema(c) \/ MissSchema(c) \/ ScanSchemas(c)
    \/ LoadEngines(c) \/ LoadColumns(c) \/ LoadTablesFailure(c)
    \/ FinishStatement(c) \/ BindPlan(c)
    \/ ExecuteStatement(c) \/ RetireCleared(c)

UserStep(c) == BeginLookup(c) \/ StartWrite(c) \/ BeginClear(c) \/ End(c) \/ DropPlan(c)

Next == \E c \in Connections : LockStep(c) \/ FreeStep(c) \/ UserStep(c)

Spec == Init /\ [][Next]_vars

\* The server answers or the query fails, so a running statement takes its next
\* step; a connection waiting for a mutex others keep releasing gets it.
Fairness == \A c \in Connections : WF_vars(FreeStep(c)) /\ SF_vars(LockStep(c))

FairSpec == Spec /\ Fairness

-----------------------------------------------------------------------------
\* Entries some shared_ptr owns.
Alive ==
    entries \cup Retired \cup UNION {cleared[c] : c \in Connections}
      \cup {keep_alive[c] : c \in Connections}
      \cup {plan[c].lifetime : c \in Connections}

(***************************************************************************)
(* Retire-don't-free: no catalog entry is freed while the transaction that *)
(* looked it up is still active, whoever clears the cache and whenever     *)
(* (ClickhouseTransactionManager).                                         *)
(***************************************************************************)
NoDanglingPointer ==
    \A c \in Connections : held[c] \subseteq Alive /\ (held[c] # {} => HasTransaction(c))

(***************************************************************************)
(* A lookup that begins after a cache clear finds what the server had at   *)
(* the clear, or later: the list of schemas, the engines and the columns   *)
(* were all read since.  This is what makes a DDL statement visible to the *)
(* next lookup of every connection (Execute() then ClearCache()).          *)
(***************************************************************************)
FreshAfterClear ==
    \A c \in Connections : pc[c] = "bound" =>
        /\ schema[current[c]].version >= since[c]
        /\ tables[current[c]].version >= since[c]

(***************************************************************************)
(* A ROLLBACK warns about every write it cannot undo: whenever c's         *)
(* statement has run on the server c is in a transaction marked as written *)
(* (StartWrite()), and the mark goes only with the transaction.            *)
(***************************************************************************)
RollbackWarns ==
    [][\A c \in Connections :
          /\ pc[c] = "execute" /\ pc'[c] # "execute" => HasTransaction(c) /\ written[c]
          /\ written[c] /\ ~written'[c] => ~HasTransaction(c)']_vars

(***************************************************************************)
(* No statement hangs on load_lock, however the loads, clears and failures *)
(* of the connections interleave.                                          *)
(***************************************************************************)
StatementTerminates ==
    \A c \in Connections : pc[c] # "idle" ~> pc[c] = "idle"

(***************************************************************************)
(* "Drops the cache; the next access reloads from ClickHouse"              *)
(* (ClearEntries(), clickhouse_catalog_set.hpp): a set that counts as      *)
(* loaded has every database of the server, so a lookup misses one only if *)
(* another connection has cleared the cache since the lookup's own load.   *)
(***************************************************************************)
LoadedIsComplete ==
    is_loaded => \A n \in Databases : Cached(n) # {}

(***************************************************************************)
(* "Keeps table_entry alive for as long as this bind data does: the schema *)
(* entry it belongs to" (ClickhouseScanBindData::lifetime): a plan owns    *)
(* the very entry its table_entry points to, unless the cache was cleared  *)
(* between the lookup of the entry and the one of its owner: an entry that *)
(* is still cached is never pointed to by a plan that owns another one, or *)
(* none, whatever was loaded and cleared in the meantime.                  *)
(***************************************************************************)
PlanOwnsItsEntry ==
    \A c \in Connections :
        plan[c].table_entry \in entries => plan[c].lifetime = plan[c].table_entry
=============================================================================
