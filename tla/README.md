# TLA+ models of the ClickHouse extension for DuckDB

The extension (`src/src`) attaches a ClickHouse server to DuckDB as a database:
its tables are read, written and altered through DuckDB's catalog and query
engine, over a pool of native-protocol connections
(`src/database-connector`, the pool library the extension uses). The modules here
model the parts of it that keep state: the catalog cache and the transactions
that keep its entries alive, the connection pool, the connections, and the
statements that use them; and what statements mean: which rows and values of a
DuckDB plan ClickHouse is asked for, how values are converted on the way there and
back, and what ALTER TABLE, UPDATE and DELETE do to a table that others change too.
TLC checks small instances; TLAPS proves, for instances of any size, the safety
properties of everything that runs concurrently and of what plans and expressions are
translated into.

## The system

| Part | State | Operations | Shared with |
|---|---|---|---|
| Transaction manager (`storage/clickhouse_transaction.cpp`) | transaction ids, `written` flags, retired batches of catalog entries, one mutex | StartTransaction, RetireEntries, EndTransaction (commit, rollback), MarkWritten | every DuckDB connection; the catalog cache retires entries to it |
| Catalog cache (`clickhouse_catalog_set.cpp`, `clickhouse_schema_set.cpp`, `clickhouse_table_set.cpp`, `clickhouse_catalog.cpp`, `clickhouse_schema_entry.cpp`) | the lazily loaded set of schemas, in each a lazily loaded set of tables; `load_lock` and `entry_lock` per set | GetEntry, Scan, GetEntryOwner, ClearEntries, and the DDL methods that run a statement and then clear | every connection, through raw pointers into the entries |
| Connection pool (`dbconnector/pool`) | idle connections, the count of all connections, limits, `shutdown_flag`, a condition variable, one cached connection per thread, the reaper thread | Acquire (force, wait, try), Return, Discard, SetMaxConnections, SetAcquireMode, the reaper's sweep, Shutdown | every statement |
| Connection (`clickhouse_connection.cpp`, `clickhouse_connection_pool.cpp`) | the client's protocol state, `broken`, `last_used` | BeginQuery, NextBlock, Cancel, Query, Execute, BeginInsert, SendInsertBlock, EndInsert, AbortInsert, IsHealthy; the pool's recover and reset hooks | one statement at a time |
| Scan (`clickhouse_scanner.cpp`) | one query, `finished`, `next_batch_index`, a lock; a block per worker | InitGlobal, FetchNextBlock, the destructor | the workers of one scan |
| Insert, CREATE TABLE AS (`clickhouse_insert.cpp`) | the pending block, `insert_count`, the connection, the target | PrepareTarget, Sink, StartInsert, Flush, Finalize, the destructor | one sink; the pool and the cache, which its own query uses too |
| DDL (`clickhouse_ddl.cpp`), DML (`clickhouse_dml.cpp`), `clickhouse_execute` | none of their own | checks by query, then one statement; DDL clears the cache | the server, which other clients change too |
| Types, writer, conversion (`clickhouse_types.cpp`, `clickhouse_writer.cpp`, `clickhouse_conversion.cpp`) | none; they work with column types the cache holds | ToDuckDB, ReadExpression, GetWriteMode, AppendVector, ConvertColumn | the server, whose columns may have changed |
| Expressions, pushdown, configuration | none | pure translations | |

What is hard in it: entries are handed out as raw pointers while any connection
may clear the cache; loading holds a lock across network queries that fail; the
pool releases its lock during health checks and connects, notifies after
unlocking and has waiters with deadlines; a statement may be abandoned in the
middle of a protocol exchange and its connection reused; several workers share
one stream. ALTER TABLE, UPDATE and DELETE check by query and then send a mutation
that runs in the background, on several replicas, and blocks the table if it fails.
What a plan computes in DuckDB must come out the same in ClickHouse, NULLs,
out-of-range constants and reordered columns included. Values cross between two
columnar formats, nested, in chunks and slices, under types that may be out of date.
A statement that reads and writes the same database holds two connections and waits
for locks in between. Nothing is persisted, so there is no crash recovery; ClickHouse
has no multi-statement transactions, so there is nothing to undo.

`PROJECT.json` lists every part with what is left out of it, and the hazards at
their source lines with the properties aimed at them.

## Modules

* `GracePeriod`: what the transaction manager promises. Retired entries wait for
  the set of transactions active at their retirement; each is let go exactly when
  the last of these ends. No numbers.
* `TransactionManager`: ids, stamps and the prefix rule of
  `ClickhouseTransactionManager`. Every operation runs under `transaction_lock`
  and is one action. It implements `GracePeriod` under a refinement mapping (a
  batch waits for the connections whose transaction id is below its stamp).
* `CatalogCache` extends it: the cache, and statements of several connections as
  program counters that walk through `TryLoadEntries`, the search, the table set,
  and then bind a plan, run a DDL statement or clear the cache. A step is one
  critical section or one query. The server is a version number; an entry records
  the version it was read at. Which entries are alive is derived from the
  `shared_ptr`s the code keeps (`Alive`). `floor` and `since` are history
  variables that no guard reads.
* `ConnectionPool`: handles and threads walk through the acquires and returns; a
  step is one critical section of `pool_lock` or a stretch between two.
  Connections are counted, not named; any idle one may turn out expired or
  unhealthy. A handle sleeping on `pool_cv` is woken by a notify, or spuriously.
* `ClickhouseConnection`: one connection as a record, its operations as sets of
  outcomes, among them the server's exceptions (the connection stays usable) and
  all others (it is marked broken). `clickhouse::Client` itself is not in the
  repository: its part is modelled from how the extension uses it; where that says
  nothing (what a busy client does with a second query, the client's state after a
  network error) every possibility is an outcome.
* `StatementExecution`: sessions that run scans with several workers, inserts,
  queries and statements, one after the other, over connections they share. The
  pool appears as what `ConnectionPool` provides: a set of idle connections.
* `InsertSelect` composes cache, pool and sink, each reduced to what the others see of
  it: INSERT ... SELECT and CREATE TABLE ... AS of several sessions, from the planner's
  lookup through the scan of the same database, `PrepareTarget()` and `StartInsert()`
  to the end, while other clients create and drop the table. The pool is a number of
  connections with the outcomes of the acquire modes; a cleared cache is a new
  generation of schema entries, and a statement goes on with the entry it found.
  `since` and `missed` are history variables.
* `ClickhouseTypes`: a type as the parser's tree, its DuckDB type, the expression that
  reads it and the way it is written.
* `ColumnFormats` (external): the columns of `clickhouse-cpp` and the vectors of DuckDB
  as the conversions rely on them: offsets, NULL flags over arbitrary values,
  selections, child vectors with gaps.
* `ClickhouseWriter` and `ClickhouseConversion`: the Append functions of an INSERT, the
  Convert functions of a scan, and the check `ParseText()` puts around the server's
  conversion of text. Text is a sequence of symbols, one of which is not UTF-8.
* `ValueTransfer`: one column from DuckDB to the server and back. An INSERT takes chunks
  in several vector layouts, fills blocks and sends them; the properties look at every
  slice a scan may be asked for. What the server holds is compared with DuckDB's values
  by `Same`, a definition that knows neither offsets nor flags but what the numbers
  count: a position in a dictionary, a day, a tick or a decimal without its scale is not
  the same as the integer.
* `Expressions`: expression trees and their value in three-valued logic, in DuckDB,
  in ClickHouse and in a ClickHouse whose profile sets `transform_null_in`. Both
  evaluators are external. Here and in the next two modules a recursion of the code is
  one operator for one level of it (`Apply`, `TransformExpression`,
  `TranslateExpression`, `TranslateTableFilter`), given the results for the arguments,
  and a recursive function over `Trees`, the set of all expressions. What makes `Trees`
  that set is `AreExpressions`: it has a node over any finitely many of its members, and
  its members have finite depth. TLC never enumerates it.
* `FilterPushdown`: `ClickhouseFilterPushdown`, from a filter of one column to the
  condition of the scan's query.
* `ClickhouseExpression`: the stricter translation UPDATE and DELETE use.
* `QueryPlan`: a DuckDB plan over one table. DuckDB's planner is external and builds
  the plan operator by operator (the scan, its filters, filters, projections, MARK
  joins, maps of outputs, LIMIT, TOP N); over each plan the module defines what
  `ClickhouseOptimizer` pushes into the scan and what `PlanDelete` and `PlanUpdate`
  make of it. Values are days; columns are of a kind each that the code treats
  differently. SQL text is the translated tree, evaluated.
* `ColumnTypes`: which type changes `KeepsEveryValue()` accepts, and the reference
  definition `Fits`: every value of one type is a value of the other.
* `TableChange`: one column of a table that two sessions ALTER, UPDATE and DELETE
  while others insert. A session's statement is its checks, one query each, and the
  statement it sends. The server is external: parts of one row, a log of changes of
  the column's metadata (`alters`, per replica `applied`) and one of mutations
  (`mutations`, `done`). Other replicas follow in the order of each log, but a change
  of metadata does not wait for earlier mutations there, as the comment in
  `clickhouse_ddl.cpp` lines 410 to 412 says. `ch_mutations_sync` matters where something
  follows the mutation: SET and DROP DEFAULT. An insert reaches all replicas at once. A
  column is there from the start or added by ADD COLUMN, as a nullable `Int32`.
  `seen`, `settled` and `raced` record whether anything else happened between a
  statement's first look at the table and what it sends.
* `MC...` modules hold constants for TLC only; `...Proofs` the theorems, for
  `TransactionManager`, `CatalogCache`, `ConnectionPool`, `StatementExecution`,
  `InsertSelect`, `TableChange` and `QueryPlan`.
* `Recursion` (proofs only): a definition by recursion over trees, or along the operators
  of a plan, has the value its equation says.

In every module the operators that stand before a definition under a similar
name (`RetireStampBehind` before `RetireEntries`, `PutUnlimited` before `Put`)
are deliberately wrong variants. `PROJECT.json` pairs them with the property
each one breaks; no specification uses them.

## Runs

| Run | Instance | Shows |
|---|---|---|
| catalog_cache | 2 connections, 1 database, 3 entries, 2 transactions, 2 clears | no dangling pointer; freshness after a clear; sorted stamps; a set that is loaded is complete |
| catalog_liveness | 2 connections, 2 entries, 1 clear (an entry more than clears, or a load could wait for one), under fairness | every statement ends; every write is remembered; refinement of `GracePeriod`; a plan owns its entry unless the cache was cleared |
| connection_pool | 3 handles, 3 threads, limits 0 to 2, all modes | exact count, idle within the limit, no lost wakeup |
| thread_local_pool | 2 handles, 2 threads, limits 0, 1 and 3, caches and deadlines on, under fairness | the same count and limit with thread-local caches; shutdown wakes every waiter |
| statement_execution | 2 sessions, 2 connections, 2 workers, answers of up to 2 blocks, inserts of up to 4 rows in chunks of 1 or 2 and blocks of 2 | clean pool, blocks once and in order, correct insert count |
| insert_select | 2 sessions, 2 connections in wait mode, 2 statements, 1 change by others, 2 layouts, under fairness | rows under their names; IF NOT EXISTS asks the server; a statement alone never waits; every statement ends |
| value_transfer | 32 column types, 23 changes of type, 2 rows in chunks and blocks of 1 or 2, 3 vector layouts, at most 1 row of others | what is stored and what is read is exact, what is refused is unfit; a stale type is noticed, except by the writer where it passes for the column's (`Mistaken`) |
| query_plan | 6 scans, 2 conditions, 2 other operators, 3 of them in all, every row over 2 or 4 values and NULL | pushed filters, LIMIT, DELETE and UPDATE mean in ClickHouse what they mean in DuckDB; no unchecked value fails a mutation |
| table_change | 2 sessions, 2 replicas, 2 or 3 statements, 1 or 2 inserts, 19 types, 4 engines | an ALTER keeps every value, ADD COLUMN gives the default, a mutation is stuck only after a race, counts are right |
| default_on_replicas | as table_change | violated: a SET DEFAULT changes what another replica reads |
| stale_decimal | a decimal column of 2 types | violated: a stale scale goes unnoticed |
| if_not_exists_race | as insert_select, without fairness | violated: IF NOT EXISTS writes into an existing table |

The bounds. Races over the cache are between one connection that looks up or
loads and one that clears; two clears with three entries allow a clear during a
reload after a clear, and a transaction per connection lets an older transaction
hold what a younger one clears (histories of any length are the subject of the
proofs). The pool needs three threads: one that returns, one
that waits, one that takes what was meant for the waiter; limits 0, 1 and 2 cover
disabled, exhausted and partly free. Two sessions suffice to reuse a connection
the other one left; two blocks of either kind distinguish first, middle and last;
chunks of 1 and 2 rows against blocks of 2 leave partial blocks and cross the
boundary. A plan of three steps has an operator of interest between two others, or
a condition below one; the six scans have every kind of column, reordered columns,
a rowid, a column only a filter needs, and pushdown switched off. A constant below,
one above and one inside the representable days, a label of an enum and a text that
is none, distinguish the cases of pushdown. In `TableChange` a column that does not
exist at first needs three statements: ADD COLUMN, a statement of the other session,
and the one that meets it; how many statements and inserts a table gets is part of
`Tables`. All 19 types are tried on an engine whose statements have no further
steps. The values of a column are the extreme ones of its type.

In `InsertSelect` one statement creates or fills the table and one other clears the
cache under it or holds what it waits for; with a limit of 2 one statement fits and
two collide, each with one connection. The other client's one change is a creation or
a drop at the worst moment; the second layout has the query's columns in another
order. In `ValueTransfer` every path of the Append and Convert functions has a type,
and every range check values on both sides of its limit. The limits are scaled
down (`LimitsAssumption`): a digit group is a factor of 10, `Int64Max` lies between the
largest representable timestamp in microseconds and in nanoseconds, as in the code, so
that both range checks of a DateTime64 and the overflow between them happen, and
`Int32Max` between the 16 and the 64 bits, so that decimals are cut. Two rows
with lists of two elements, in two chunks or one, make offsets relative to chunk,
block, slice and gap all different. Numeric columns other than the ones listed share
their code with one that is (templates), and are left out.

Deadlock is checked except where the bounds end every behaviour
(`CHECK_DEADLOCK FALSE` in the runs with a bounded number of transactions, clears,
statements, rows or operators). Sessions of `TableChange` are interchangeable: symmetry.

Fairness. In `CatalogCache` a running statement takes its next step (the server
answers, or the query fails by its timeout): weak fairness. A thread waiting for
`load_lock` that others keep taking and releasing gets it: strong fairness on the
locking steps, which `std::mutex` does not promise but schedulers provide; without
it a connection may starve behind others. `InsertSelect` has the same two: a step that
does not wait for a mutex is taken, the deadline of a wait for a connection included,
and a mutex that others keep releasing is granted. In `ConnectionPool` a thread that is not
asleep runs on, and a thread that owes a notify sends it: weak fairness. Sleeping
threads get no fairness at all, so only a notify wakes them: no deadline helps
`ShutdownWakesWaiters`. The other runs check safety only.

## What the violated runs show

* `if_not_exists_race`: `GetEntry()` loads in one critical section and searches in
  another, and a clear in between makes `LookupTable()` return null. `PrepareTarget()`
  takes that for a missing table, CREATE TABLE IF NOT EXISTS does nothing, the columns
  match, and the rows are appended to a table the statement promised to leave alone.
  `IfNotExistsChecksTheServer` shows that this is the only way.
* `stale_decimal`: `ConvertDecimal()` looks at neither scale nor width, so a column
  changed from `Decimal(4, 2)` to `Decimal(9, 3)` reads as ten times its value, or cut to
  16 bits, until the cache is cleared. A scan refuses every other change of type in
  `MCChanges`, or shows the values all the same (`StaleReadRefused` in value_transfer).
* `default_on_replicas`: SET DEFAULT first stores the column in every part, so that
  no row reads as the new default, but looks for such parts on one replica. If a
  mutation has just stored the column there and not yet elsewhere, nothing is stored,
  and the other replica reads the new default for old rows, then writes it.

Further limits that the properties' exceptions describe. An INSERT planned with a stale
type is not always refused, although `ThrowMismatch()` (`clickhouse_writer.cpp` lines 131
to 142) and the stale-metadata case of `insert.test` (line 599) suggest that it is.
`AppendNumeric()` (lines 193 to 200) compares only how DuckDB stores a value: once another
client has changed the column, an ENUM goes into a `UInt8` as its position in the
dictionary, a `DECIMAL(4, 2)` into an `Int16` as its unscaled integer, a timestamp or time
into an `Int64` as its ticks, a date into an `Int32` as its days. `AppendDecimal()` compares
the scale (line 257) and not the width: an integer of a `Decimal(18, 2)` is cut to the 32
bits of a `Decimal(9, 2)`. No error is raised and wrong values are stored.
`StoredExactly` exempts exactly these cases, by `Mistaken`, and without the exemption each
of the seven `MistakenChanges` of `MCValueTransfer` violates it; with it the run
shows that every other change is refused or harmless on the way in, and that a scan
refuses these too, or reads the narrowed decimal as it is stored. After a clear and a reload by
others `GetScanFunction()` finds the owner of the new schema entry by name, so a plan's
`lifetime` may own another entry than `table_entry` points into (`PlanOwnsItsEntry`
exempts it; `NoDanglingPointer` still holds for the transaction, and DuckDB rebinds a
plan that outlives it). `wait_until()` reports a timeout to a thread that was notified at
the last moment, and the code throws "all connections in use" without looking again;
`NoLostWakeup` is therefore stated without deadlines. `ReturnFromThreadLocalCache()`
frees a slot without a notify, which matters only with thread-local caches, which the
extension leaves off. A NULL inserted between the
check of SET NOT NULL and its statement leaves a mutation that fails for ever, although
`clickhouse_ddl.hpp` says that such a mutation is never sent (`StuckOnlyWhenRaced`
exempts it). A race may also leave the replicas with different rows: a DROP DEFAULT
raced by a mutation lets another replica store NULL where this one stored the default,
and a later SET NOT NULL, raced by nobody, finds no NULL here and never ends there. It
takes four statements, one more than the run has; the proof of `StuckOnlyWhenRaced`
failed on it, and its third disjunct is this case. And an UPDATE or DELETE compares UUIDs in ClickHouse's order, which the
extension documents (`NoUuid`). `TransformExact` needs that a NOT IN over a
scan's column has a constant in range: of one that has none `TransformIn()` makes `1 = 1`
(`clickhouse_filter_pushdown.cpp` lines 298 to 300), which keeps the rows where the column
is NULL and DuckDB's NOT IN is not true, although the comment there calls leaving such
constants out exact. As DuckDB's FilterCombiner leaves no NOT IN to a scan
(`ConditionsAssumption`), nothing comes of it.

## Proofs

All theorems hold for arbitrary constants under the named assumptions of the
modules. These say that sets of handles and threads are finite, that bounds and limits
are natural numbers, that `None` and the special values are no members of the sets they
stand beside, and of the data: `AnswersAssumption` (the packets of an answer end with
its end or an error), `RowsAssumption`, `QueryAssumption` (the layouts are lists of
names and the query has one of them), `ValuesAssumption`, `TypesAssumption` (targets of
TYPE are types) and `TablesAssumption` (the column a table starts with is one the code
can load, and a column with a default has one). `DigitsAssumption` in `ColumnTypes` has
no constant in it: a decimal of `IntegerDigits()` digits holds every integer of the
type, a fact about ten numbers, up to 2^128, that TLC evaluates and SMT cannot.
Of `QueryPlan`: the representable days are an interval (`RepresentableAssumption`), what
columns hold is among them (`ValuesAssumption`), `Null` is neither a number nor a truth
value (`NullAssumption`), a scan reads columns its table has (`ScansAssumption`), and a
condition has the constants its operator needs, of which DuckDB's FilterCombiner leaves to a
scan no NULL and no NOT IN (`ConditionsAssumption`). `AreExpressions` is the only
hypothesis the theorems state themselves, since a TLC instance does not satisfy it; that
some set does is the theorem `ExpressionsExist`.

* `TransactionManagerProofs`: `TmSafety` (types and `StampsSorted`) is inductive
  together with the bound of every stamp and id by `next_transaction_id`.
  `TmRefinement` maps each action to one of `GracePeriod`; the case that needs an
  argument is `EndTransaction`, where the longest releasable prefix must be exactly
  the batches whose set of awaited transactions becomes empty: sorted stamps give
  it.
* `CatalogCacheProofs`: one inductive invariant, a conjunction of named parts:
  the transaction manager's invariant, types, what the holder of `load_lock` has
  (`LoadInv`), the versions of entries against `floor` (`FreshInv`), what a program
  location says of the statement (`StatementInv`), where a held pointer's entry is
  (`PointerInv`: cached, in a clearing statement's vector, or in a batch whose stamp
  exceeds the holder's id), and disjointness facts (`ClearedInv`). `NoDanglingPointer`
  is not inductive: it does not say why a retired entry stays; `PointerInv` adds the
  stamp. `FreshAfterClear` needs that no load started before a clear ends after it,
  which is the holder's part of `LoadInv`. `LoadedIsComplete` needs to know what a load
  half done has created (`NameInv`: the names left in its answer are those without an
  entry); `PlanOwnsItsEntry` that an entry is created once (`PlanInv`).
* `ConnectionPoolProofs`: `Accounting` and `IdleWithinLimit` are inductive with the
  types and `ThreadInv` (a handle in a call has a thread). The argument counts: each
  step moves one handle in or out of `Owning`, or one thread in or out of `cached`, and
  changes the counters by as much. `NoLostWakeup` counts too (`WakeInv`): that somebody
  is awake is not enough, since he takes one connection and another may be free; as
  long as someone sleeps and no `notify_all()` is owed, the wakeups on their way are at
  least as many as the connections and slots that are free. The theorem assumes that
  the thread-local cache is off and no deadline passes: with either the property is
  false, as said above.
* `StatementExecutionProofs`: a connection is idle and clean, or held by one session
  (`PoolInv`); what is left on a held connection follows from its session's location
  (`ConnectionInv`); who has the lock of a scan and whether it is finished (`ScanInv`);
  the wire holds the rest of the answer, and the blocks with rows before it have been
  taken, but for one in the hands of the lock's holder (`OrderInv`); rows received and
  pending make up the count (`CountInv`). `BlocksInOrder` is stated by position: the i-th
  block taken is the one with i blocks with rows up to it.
* `InsertSelectProofs`: which connections a location may hold (`HeldInv`), that CREATE
  TABLE AS has no target until it was compared (`TargetInv`), and that a table set
  loaded after a statement's own clear shows every table that was there when the
  statement began (`CheckInv`). Other sessions touch only what `SharedOK` allows: a
  loaded table set stays as it is, a new generation starts unloaded.
* `TableChangeProofs`: four results, one invariant. Every type the column had holds all
  its values (`LogInv`, which rests on `KeepsEveryValue()` implying `Fits`), so
  conversions change nothing. Which parts lack the column, and why each replica reads
  the same there before and after an ALTER that was not raced (`PartsInv`). A mutation
  that was not raced was sent when all others were finished, has counted what it will
  change, and passes on every replica while no race has made these differ
  (`PendingInv`). What a session's checks saw still holds while the table has the
  version it saw (`SessionInv`).

* `QueryPlanProofs`: all five properties of the query_plan run, for plans of any length,
  expressions of any depth, tables of any number of columns and any range of
  representable days.
  - Recursion. The library's induction theorems take a predicate as a parameter, which no
    backend can instantiate. Its theorem about well-founded relations and sets can be
    used: every nonempty set has a least element. So each induction here is about the
    least counterexample, the shallowest tree or the lowest operator of the set of those
    for which the claim fails. `Recursion` proves once that a recursion has a solution,
    for a step that is a constant of the module, and is instantiated with one level of
    each recursion of the model.
  - Translations. `TransformExact`: a filter of a scan is translated into a condition
    that is true for the rows for which the filter is, into nothing if it restricts
    nothing, or refused. The condition may be false where the filter is NULL, so the claim
    is about what is true; it carries over AND and OR only because neither has a NOT over
    it (`IsFilterNode`, with the other shapes FilterCombiner produces).
    `TranslateExact`: the stricter translation has the same value in all three systems,
    or is refused; `InList()` needs its `if(isNull(...))` for that. `TableFilterExact`
    combines the two kinds.
  - The invariant. `PlanInv` (`PlanInvariant`): each operator's expressions refer to
    outputs the operator below has, maps stay within them, and a filter of the scan is over
    one column of the table. Nothing about translations is in it: the five properties
    follow from it state by state, since a plan's meaning and its translation are both
    defined along the same plan.
  - Plans. A traced column or reference has, for every row, the value of the output it was
    traced from (`ColumnTraced`, `ReferencesTraced`); a resolved output has that value in
    ClickHouse (`ResolveExact`); a MARK column is IN over its constants (`MarkExact`). A row
    passes the filters if and only if it matches the predicate (`TargetExact`), from which
    `DeletesExact` and `UpdatesExact` follow, for tables without UUIDs.
    `UpdatesChecked` holds with UUIDs too: a value that is passed on unchanged is one
    its source column can hold, and NULL comes only from a column that can hold it.

Only model-checked: the liveness properties (every statement ends, shutdown wakes every
waiter), since the prover does not handle fairness; and the four properties of
`ValueTransfer` (`StoredExactly`, `RefusedOnlyIfUnfit`, `ReadExactly`, `StaleReadRefused`)
with the modules it rests on, `ClickhouseTypes`, `ColumnFormats`, `ClickhouseWriter` and
`ClickhouseConversion`. Their operators recurse over a type, a column and a value at once
and are declared RECURSIVE, of which the prover does not accept any in reach of a theorem.

## Not modelled

Not modelled, because it adds data and no behaviour: casts and functions in expressions
(`ClassifyCast()`, `TranslateFunction()`: tables of names), NULL elements of nested values
in UPDATE (`MayGetNullElement()`), `FloorTimestamp()`, the parser of type strings and
the types of CREATE TABLE (`clickhouse_ddl_types.cpp`), tuples inside Nullable, the mapping of
listed columns in INSERT. DROP COLUMN and the renames are one statement without a check.
Another client's ADD COLUMN is not modelled (a DROP NOT NULL turns its missing zeros into
NULLs). The reaper thread is started by the pool's constructor and joined by
`Shutdown()`; the races between other callers of the two are the library's, not the
extension's.

Out of scope: SQL text, connection strings, TLS, logging, and the table of error names:
they keep no state, and their errors are those of data rather than of order.
