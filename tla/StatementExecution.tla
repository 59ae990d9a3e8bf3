------------------------- MODULE StatementExecution -------------------------
(***************************************************************************)
(* The statements that use connections of an attached database's pool:     *)
(* scans, whose workers take turns on one streaming query                  *)
(* (clickhouse_scanner.cpp); inserts, one sink that streams blocks         *)
(* (clickhouse_insert.cpp); and the calls that run one query to its end,   *)
(* ClickhouseConnection::Query() and Execute().                            *)
(*                                                                         *)
(* A session runs one such statement after the other, and every statement  *)
(* may fail wherever the code can throw.  The pool is what its callers see *)
(* of it: a set of idle connections, of which a healthy one is handed out, *)
(* or a new one; ConnectionPool has its locking and its limits.            *)
(***************************************************************************)
EXTENDS ClickhouseConnection, FiniteSets

CONSTANTS
    Conns,        \* connection objects; a closed one stands for the next opened
    Sessions,     \* each runs one statement at a time
    Workers,      \* threads DuckDB gives a scan
    None,
    Answers,      \* answers of the server, as sequences of packet kinds
    ChunkSizes,   \* rows of the chunks an insert is given
    BlockSize,    \* ch_insert_block_size
    MaxRows       \* bound: rows of an insert

ASSUME NoneAssumption == None \notin Conns \cup Workers
ASSUME AnswersAssumption ==
    \A a \in Answers : /\ a \in Seq({"rows", "empty", "end", "error"}) /\ a # <<>>
                       /\ \A i \in DOMAIN a : i = Len(a) <=> a[i] \in {"end", "error"}
ASSUME RowsAssumption ==
    ChunkSizes \subseteq Nat \ {0} /\ BlockSize \in Nat /\ MaxRows \in Nat

VARIABLES
    conns,        \* the connection objects
    idle,         \* those in the pool
    pc,           \* per session: where its statement is
    kind,         \* what its statement is
    conn,         \* the connection its statement holds
    answer,       \* the server's answer to its query
    fetched,      \* blocks taken, at the position of their batch_index
    failed,       \* an exception was thrown to DuckDB
    finished,     \* ClickhouseScanGlobalState::finished
    lock,         \* worker that holds ClickhouseScanGlobalState::lock
    worker,       \* per session and worker: where FetchNextBlock() is
    block,        \* per session and worker: the block taken, until it has an index
    target,       \* insert: whether PrepareTarget() has run, and found to skip
    pending_rows, insert_count,
    chunk,        \* rows of the chunk Sink() is working on
    received      \* rows the server has been sent by this insert

poolVars == <<conns, idle, conn>>
scanVars == <<answer, fetched, finished, lock, worker, block>>
insertVars == <<target, pending_rows, insert_count, chunk, received>>
vars == <<poolVars, pc, kind, failed, scanVars, insertVars>>

Kinds == {"scan", "query", "execute", "insert"}
Locations == {"idle", "acquire", "begin", "scanning", "reading", "sink", "append",
              "flush", "last", "end", "report", "destroy"}
WorkerLocations == {"out", "next", "got", "over"}

StatementTypeOK ==
    /\ conns \in [Conns -> Connection(Sessions)]
    /\ idle \in SUBSET Conns
    /\ pc \in [Sessions -> Locations]
    /\ kind \in [Sessions -> Kinds]
    /\ conn \in [Sessions -> Conns \cup {None}]
    /\ answer \in [Sessions -> Answers \cup {<<>>}]
    /\ fetched \in [Sessions -> Seq(Packets(Sessions))]
    /\ failed \in [Sessions -> BOOLEAN]
    /\ finished \in [Sessions -> BOOLEAN]
    /\ lock \in [Sessions -> Workers \cup {None}]
    /\ worker \in [Sessions -> [Workers -> WorkerLocations]]
    /\ block \in [Sessions -> [Workers -> Seq(Packets(Sessions))]]
    /\ target \in [Sessions -> {"unknown", "ready", "skip"}]
    /\ pending_rows \in [Sessions -> Nat]
    /\ insert_count \in [Sessions -> Nat]
    /\ chunk \in [Sessions -> Nat]
    /\ received \in [Sessions -> Nat]

Init ==
    /\ conns = [k \in Conns |-> Closed]
    /\ idle = {}
    /\ pc = [s \in Sessions |-> "idle"]
    /\ kind = [s \in Sessions |-> "query"]
    /\ conn = [s \in Sessions |-> None]
    /\ answer = [s \in Sessions |-> <<>>]
    /\ fetched = [s \in Sessions |-> <<>>]
    /\ failed = [s \in Sessions |-> FALSE]
    /\ finished = [s \in Sessions |-> FALSE]
    /\ lock = [s \in Sessions |-> None]
    /\ worker = [s \in Sessions |-> [w \in Workers |-> "out"]]
    /\ block = [s \in Sessions |-> [w \in Workers |-> <<>>]]
    /\ target = [s \in Sessions |-> "unknown"]
    /\ pending_rows = [s \in Sessions |-> 0]
    /\ insert_count = [s \in Sessions |-> 0]
    /\ chunk = [s \in Sessions |-> 0]
    /\ received = [s \in Sessions |-> 0]

-----------------------------------------------------------------------------
Goto(s, from, to) == pc[s] = from /\ pc' = [pc EXCEPT ![s] = to]

\* The statement goes on, and its connection is now c.
Update(s, c) ==
    /\ conns' = [conns EXCEPT ![conn[s]] = c]
    /\ UNCHANGED <<idle, conn>>

\* ~PooledConnection() of a valid handle whose connection is now c.
Release(s, c) ==
    \E d \in Return(c) :
        /\ conns' = [conns EXCEPT ![conn[s]] = d]
        /\ idle' = IF d = Closed THEN idle ELSE idle \cup {conn[s]}
        /\ conn' = [conn EXCEPT ![s] = None]

\* The same of an Invalidate()d one: Discard() destroys the connection, and with
\* it the mark that AbortInsert() leaves on it.
Abandon(s) ==
    /\ conns' = [conns EXCEPT ![conn[s]] = Closed]
    /\ conn' = [conn EXCEPT ![s] = None]
    /\ UNCHANGED idle

\* A session starts a statement.  A scan, a query or a statement takes a
\* connection first; an insert waits for its first chunk.
Start(s) ==
    /\ pc[s] = "idle"
    /\ \E what \in Kinds :
         /\ kind' = [kind EXCEPT ![s] = what]
         /\ pc' = [pc EXCEPT ![s] = IF what = "insert" THEN "sink" ELSE "acquire"]
    /\ UNCHANGED <<poolVars, failed, scanVars, insertVars>>

\* The statement is over and its states are destroyed; s is free again.
Finish(s, from) ==
    /\ Goto(s, from, "idle")
    /\ kind' = [kind EXCEPT ![s] = "query"]
    /\ failed' = [failed EXCEPT ![s] = FALSE]
    /\ answer' = [answer EXCEPT ![s] = <<>>]
    /\ fetched' = [fetched EXCEPT ![s] = <<>>]
    /\ finished' = [finished EXCEPT ![s] = FALSE]
    /\ worker' = [worker EXCEPT ![s] = [w \in Workers |-> "out"]]
    /\ target' = [target EXCEPT ![s] = "unknown"]
    /\ pending_rows' = [pending_rows EXCEPT ![s] = 0]
    /\ insert_count' = [insert_count EXCEPT ![s] = 0]
    /\ chunk' = [chunk EXCEPT ![s] = 0]
    /\ received' = [received EXCEPT ![s] = 0]
    /\ UNCHANGED <<lock, block>>

-----------------------------------------------------------------------------
(* Taking a connection, starting a query, and reading it to its end.       *)

\* GetConnection(): an idle connection that passes its health check, or a new one.
Acquire(s) ==
    /\ pc[s] = "acquire"
    /\ \/ \E k \in idle : \E h \in IsHealthy(conns[k]) :
            /\ idle' = idle \ {k}
            /\ IF h.result
                 THEN /\ Goto(s, "acquire", "begin")
                      /\ conn' = [conn EXCEPT ![s] = k]
                      /\ conns' = [conns EXCEPT ![k] = h.conn]
                 ELSE /\ conns' = [conns EXCEPT ![k] = Closed]
                      /\ UNCHANGED <<pc, conn>>
       \/ \E k \in Conns :
            /\ conns[k] = Closed
            /\ Goto(s, "acquire", "begin")
            /\ conn' = [conn EXCEPT ![s] = k]
            /\ conns' = [conns EXCEPT ![k] = Opened]
            /\ UNCHANGED idle
    /\ UNCHANGED <<kind, failed, scanVars, insertVars>>

\* No connection: Open() failed, or the pool is exhausted or shut down.
AcquireFails(s) ==
    /\ Goto(s, "acquire", "destroy")
    /\ UNCHANGED <<poolVars, kind, failed, scanVars, insertVars>>

\* The answer a of the server to s's query, packet by packet.
PacketsOf(s, a) == [i \in 1 .. Len(a) |-> [query |-> s, number |-> i, kind |-> a[i]]]

\* BeginQuery(): for a scan in ClickhouseInitGlobal().
Begin(s) ==
    /\ kind[s] # "insert"
    /\ pc[s] = "begin"
    /\ \E a \in Answers : \E o \in BeginQuery(conns[conn[s]], PacketsOf(s, a)) :
         /\ Update(s, o.conn)
         /\ IF o.result = "ok"
              THEN /\ Goto(s, "begin", IF kind[s] = "scan" THEN "scanning" ELSE "reading")
                   /\ answer' = [answer EXCEPT ![s] = a]
              ELSE Goto(s, "begin", "destroy") /\ UNCHANGED answer
    /\ UNCHANGED <<kind, failed, fetched, finished, lock, worker, block, insertVars>>

\* The loop of Query(), which keeps every block, and of Execute(), which cancels
\* the rest of a result that turns out to have rows.
Read(s) ==
    /\ pc[s] = "reading"
    /\ \E o \in NextBlock(conns[conn[s]]) :
         CASE o.result = "rows" /\ kind[s] = "query" ->
                /\ Update(s, o.conn)
                /\ fetched' = [fetched EXCEPT ![s] = Append(@, Head(conns[conn[s]].wire))]
                /\ UNCHANGED pc
           [] o.result = "rows" /\ kind[s] = "execute" ->
                /\ \E d \in Cancel(o.conn) : Update(s, d)
                /\ Goto(s, "reading", "destroy")
                /\ UNCHANGED fetched
           [] o.result = "empty" ->
                Update(s, o.conn) /\ UNCHANGED <<pc, fetched>>
           [] o.result \in {"end", "threw"} ->
                Update(s, o.conn) /\ Goto(s, "reading", "destroy") /\ UNCHANGED fetched
    /\ UNCHANGED <<kind, failed, answer, finished, lock, worker, block, insertVars>>

-----------------------------------------------------------------------------
(* FetchNextBlock() of a worker w of scan s, under the scan's lock.        *)

SetWorker(s, w, from, to) ==
    worker[s][w] = from /\ worker' = [worker EXCEPT ![s][w] = to]

FetchNextBlockUnlocked(s, w) ==
    /\ pc[s] = "scanning"
    /\ SetWorker(s, w, "out", "next")
    /\ lock' = [lock EXCEPT ![s] = w]
    /\ UNCHANGED <<poolVars, pc, kind, failed, answer, fetched, finished, block, insertVars>>

FetchNextBlock(s, w) ==
    /\ pc[s] = "scanning"
    /\ lock[s] = None
    /\ SetWorker(s, w, "out", "next")
    /\ lock' = [lock EXCEPT ![s] = w]
    /\ UNCHANGED <<poolVars, pc, kind, failed, answer, fetched, finished, block, insertVars>>

\* Another worker met the end of the query, or its failure.
SeeFinished(s, w) ==
    /\ finished[s]
    /\ SetWorker(s, w, "next", "over")
    /\ lock' = [lock EXCEPT ![s] = None]
    /\ UNCHANGED <<poolVars, pc, kind, failed, answer, fetched, finished, block, insertVars>>

\* A block: without rows the loop goes on.
TakeBlock(s, w) ==
    /\ ~finished[s] /\ conn[s] # None
    /\ worker[s][w] = "next"
    /\ \E o \in NextBlock(conns[conn[s]]) :
         /\ o.result \in {"rows", "empty"}
         /\ Update(s, o.conn)
         /\ IF o.result = "rows"
              THEN /\ SetWorker(s, w, "next", "got")
                   /\ block' = [block EXCEPT ![s][w] = <<Head(conns[conn[s]].wire)>>]
              ELSE UNCHANGED <<worker, block>>
    /\ UNCHANGED <<pc, kind, failed, answer, fetched, finished, lock, insertVars>>

FinishScanKeepsGoing(s, w) ==
    /\ ~finished[s] /\ conn[s] # None
    /\ SetWorker(s, w, "next", "over")
    /\ \E o \in NextBlock(conns[conn[s]]) :
         /\ o.result \in {"end", "threw"}
         /\ Release(s, o.conn)
         /\ failed' = [failed EXCEPT ![s] = @ \/ o.result = "threw"]
    /\ finished' = [finished EXCEPT ![s] = FALSE]
    /\ lock' = [lock EXCEPT ![s] = None]
    /\ UNCHANGED <<pc, kind, answer, fetched, block, insertVars>>

\* The end, or an exception: the connection goes back to the pool at once, and
\* no worker may touch it again.
FinishScan(s, w) ==
    /\ ~finished[s] /\ conn[s] # None
    /\ SetWorker(s, w, "next", "over")
    /\ \E o \in NextBlock(conns[conn[s]]) :
         /\ o.result \in {"end", "threw"}
         /\ Release(s, o.conn)
         /\ failed' = [failed EXCEPT ![s] = @ \/ o.result = "threw"]
    /\ finished' = [finished EXCEPT ![s] = TRUE]
    /\ lock' = [lock EXCEPT ![s] = None]
    /\ UNCHANGED <<pc, kind, answer, fetched, block, insertVars>>

\* next_batch_index++ for the block w took.
IndexBlock(s, w) ==
    /\ SetWorker(s, w, "got", "out")
    /\ fetched' = [fetched EXCEPT ![s] = @ \o block[s][w]]
    /\ block' = [block EXCEPT ![s][w] = <<>>]
    /\ lock' = [lock EXCEPT ![s] = None]
    /\ UNCHANGED <<poolVars, pc, kind, failed, answer, finished, insertVars>>

\* ConvertBlock() throws for a worker: the others do not learn of it.
ConversionFails(s, w) ==
    /\ pc[s] = "scanning"
    /\ fetched[s] # <<>>
    /\ SetWorker(s, w, "out", "over")
    /\ failed' = [failed EXCEPT ![s] = TRUE]
    /\ UNCHANGED <<poolVars, pc, kind, answer, fetched, finished, lock, block, insertVars>>

\* DuckDB is done with the scan: it is exhausted, a LIMIT is reached, an error or
\* an interrupt stopped it.
StopScan(s) ==
    /\ Goto(s, "scanning", "destroy")
    /\ \A w \in Workers : worker[s][w] \in {"out", "over"}
    /\ UNCHANGED <<poolVars, kind, failed, scanVars, insertVars>>

-----------------------------------------------------------------------------
(* ClickhouseInsert: Sink() for each chunk, Finalize() after the last.     *)

\* PrepareTarget(), once: CREATE TABLE IF NOT EXISTS ... AS may find the table
\* there and write nothing.  It may also throw: see SinkFails.
PrepareTarget(s) ==
    target' \in IF target[s] # "unknown" THEN {target}
                ELSE {[target EXCEPT ![s] = t] : t \in {"ready", "skip"}}

\* A chunk arrives, which may mean that the insert has to be started first.
Sink(s) ==
    /\ pc[s] = "sink"
    /\ insert_count[s] < MaxRows
    /\ target[s] # "skip"
    /\ PrepareTarget(s)
    /\ \E rows \in ChunkSizes :
         IF target'[s] = "skip"
           THEN UNCHANGED <<pc, chunk>>
           ELSE /\ Goto(s, "sink", IF conn[s] = None THEN "acquire" ELSE "append")
                /\ chunk' = [chunk EXCEPT ![s] = rows]
    /\ UNCHANGED <<poolVars, kind, failed, scanVars, pending_rows, insert_count, received>>

\* The input fails, or PrepareTarget() does.
SinkFails(s) ==
    /\ Goto(s, "sink", "destroy")
    /\ UNCHANGED <<poolVars, kind, failed, scanVars, insertVars>>

\* StartInsert(), once it has a connection.  A header that does not match the
\* columns fails the statement in mid-insert.
StartInsert(s) ==
    /\ kind[s] = "insert"
    /\ pc[s] = "begin"
    /\ \E o \in BeginInsert(conns[conn[s]]) :
         /\ Update(s, o.conn)
         /\ \/ o.result = "ok" /\ Goto(s, "begin", "append")
            \/ Goto(s, "begin", "destroy")
    /\ UNCHANGED <<kind, failed, scanVars, insertVars>>

\* The rest of Sink(): the rows are converted and wait for their block to be full.
AppendRows(s) ==
    /\ pc[s] = "append"
    /\ pending_rows' = [pending_rows EXCEPT ![s] = @ + chunk[s]]
    /\ insert_count' = [insert_count EXCEPT ![s] = @ + chunk[s]]
    /\ chunk' = [chunk EXCEPT ![s] = 0]
    /\ Goto(s, "append", IF pending_rows'[s] >= BlockSize THEN "flush" ELSE "sink")
    /\ UNCHANGED <<poolVars, kind, failed, scanVars, target, received>>

\* AppendVector() throws: a value does not fit its column.
AppendFails(s) ==
    /\ Goto(s, "append", "destroy")
    /\ UNCHANGED <<poolVars, kind, failed, scanVars, insertVars>>

FlushSubtracting(s) ==
    /\ pc[s] \in {"flush", "last"}
    /\ IF pending_rows[s] = 0
         THEN /\ Goto(s, pc[s], IF pc[s] = "flush" THEN "sink" ELSE "end")
              /\ UNCHANGED <<poolVars, received>>
         ELSE \E o \in SendInsertBlock(conns[conn[s]]) :
              /\ Update(s, o.conn)
              /\ IF o.result = "ok"
                   THEN /\ Goto(s, pc[s], IF pc[s] = "flush" THEN "sink" ELSE "end")
                        /\ received' = [received EXCEPT ![s] = @ + pending_rows[s]]
                   ELSE Goto(s, pc[s], "destroy") /\ UNCHANGED received
    /\ pending_rows' = [pending_rows EXCEPT ![s] = @ - BlockSize]
    /\ UNCHANGED <<kind, failed, scanVars, target, insert_count, chunk>>

\* Flush(), called by Sink() for a full block and by Finalize() for the last one.
Flush(s) ==
    /\ pc[s] \in {"flush", "last"}
    /\ IF pending_rows[s] = 0
         THEN /\ Goto(s, pc[s], IF pc[s] = "flush" THEN "sink" ELSE "end")
              /\ UNCHANGED <<poolVars, received>>
         ELSE \E o \in SendInsertBlock(conns[conn[s]]) :
              /\ Update(s, o.conn)
              /\ IF o.result = "ok"
                   THEN /\ Goto(s, pc[s], IF pc[s] = "flush" THEN "sink" ELSE "end")
                        /\ received' = [received EXCEPT ![s] = @ + pending_rows[s]]
                   ELSE Goto(s, pc[s], "destroy") /\ UNCHANGED received
    /\ pending_rows' = [pending_rows EXCEPT ![s] = 0]
    /\ UNCHANGED <<kind, failed, scanVars, target, insert_count, chunk>>

FinalizeUnflushed(s) ==
    /\ PrepareTarget(s)
    /\ Goto(s, "sink", IF conn[s] = None THEN "report" ELSE "end")
    /\ UNCHANGED <<poolVars, kind, failed, scanVars, pending_rows, insert_count, chunk,
                   received>>

\* Finalize(): an insert that was given no rows was never started.
Finalize(s) ==
    /\ PrepareTarget(s)
    /\ Goto(s, "sink", IF conn[s] = None THEN "report" ELSE "last")
    /\ UNCHANGED <<poolVars, kind, failed, scanVars, pending_rows, insert_count, chunk,
                   received>>

\* EndInsert(): errors of the server surface here; success is final.
FinishInsert(s) ==
    /\ pc[s] = "end"
    /\ \E o \in EndInsert(conns[conn[s]]) :
         IF o.result = "ok"
           THEN Goto(s, "end", "report") /\ Release(s, o.conn)
           ELSE Goto(s, "end", "destroy") /\ Update(s, o.conn)
    /\ UNCHANGED <<kind, failed, scanVars, insertVars>>

\* GetDataInternal() returns insert_count.
Report(s) ==
    /\ Finish(s, "report")
    /\ UNCHANGED poolVars

-----------------------------------------------------------------------------
\* The statement's states are destroyed and its handle with them: a scan's query
\* is cancelled, an insert that was not finished is abandoned.
Destroy(s) ==
    /\ Finish(s, "destroy")
    /\ LET c == conns[conn[s]] IN
       \/ conn[s] = None /\ UNCHANGED poolVars
       \/ conn[s] # None /\ kind[s] = "scan" /\ \E d \in Cancel(c) : Release(s, d)
       \/ conn[s] # None /\ kind[s] \in {"query", "execute"} /\ Release(s, c)
       \/ conn[s] # None /\ kind[s] = "insert" /\ c.client # "inserting" /\ Release(s, c)
       \/ conn[s] # None /\ kind[s] = "insert" /\ c.client = "inserting" /\ Abandon(s)

WorkerStep(s, w) ==
    \/ FetchNextBlock(s, w) \/ SeeFinished(s, w) \/ TakeBlock(s, w)
    \/ FinishScan(s, w) \/ IndexBlock(s, w) \/ ConversionFails(s, w)

StatementStep(s) ==
    \/ Acquire(s) \/ AcquireFails(s) \/ Begin(s) \/ Read(s) \/ StopScan(s)
    \/ Sink(s) \/ SinkFails(s) \/ StartInsert(s) \/ AppendRows(s) \/ AppendFails(s)
    \/ Flush(s) \/ Finalize(s) \/ FinishInsert(s) \/ Report(s) \/ Destroy(s)

Next == \E s \in Sessions :
            Start(s) \/ StatementStep(s) \/ \E w \in Workers : WorkerStep(s, w)

Spec == Init /\ [][Next]_vars

-----------------------------------------------------------------------------
\* The blocks with rows among the first n packets of the answer to s's query.
RowBlocks(s, n) == {i \in 1 .. n : answer[s][i] = "rows"}

(***************************************************************************)
(* "... returns a clean connection to the pool" (test/sql/scan/basic.test, *)
(* ResetConnection(), TryRecoverConnection()): whatever a statement left   *)
(* behind (a query in progress, an insert, unread packets, a network       *)
(* error), an idle connection has none of it.                              *)
(***************************************************************************)
CleanPool == \A k \in idle : conns[k] = Opened

(***************************************************************************)
(* FetchNextBlock() and Query() take the blocks of their own query, in the *)
(* server's order, each once: the block with batch_index i is the i-th the *)
(* server sent, whichever worker has it.  When the workers are told that   *)
(* the query is exhausted and none of them was given an exception, no      *)
(* block is missing.                                                       *)
(***************************************************************************)
BlocksInOrder ==
    \A s \in Sessions :
        /\ \A i \in DOMAIN fetched[s] : \E n \in DOMAIN answer[s] :
              /\ fetched[s][i] = PacketsOf(s, answer[s])[n]
              /\ answer[s][n] = "rows" /\ Cardinality(RowBlocks(s, n)) = i
        /\ finished[s] /\ ~failed[s] =>
              Len(fetched[s]) = Cardinality(RowBlocks(s, Len(answer[s])))

(***************************************************************************)
(* A scan that goes on has its connection, and one that has ended, by an   *)
(* exception of any worker too, has let go of it: nobody reads from a      *)
(* connection that may already serve another statement.                    *)
(***************************************************************************)
ScanOwnsConnection ==
    \A s \in Sessions : pc[s] = "scanning" => (finished[s] <=> conn[s] = None)

(***************************************************************************)
(* The count an INSERT returns is the number of rows the server was sent,  *)
(* and accepted, whatever the sizes of the chunks and of the blocks        *)
(* (Sink(), Flush(), Finalize(), GetDataInternal()).                       *)
(***************************************************************************)
CountIsRowsInserted ==
    \A s \in Sessions : pc[s] = "report" => received[s] = insert_count[s]
=============================================================================
