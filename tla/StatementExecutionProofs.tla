---------------------- MODULE StatementExecutionProofs ----------------------
(***************************************************************************)
(* Proofs about the statements and their connections: what a statement     *)
(* leaves behind never reaches the pool, the workers of a scan take its    *)
(* blocks in order and let go of its connection once, and the count of an  *)
(* INSERT is what the server was sent.                                     *)
(***************************************************************************)
EXTENDS StatementExecution, FiniteSetTheorems, SequenceTheorems, TLAPS

-----------------------------------------------------------------------------
(* The inductive invariant.  A step of a session changes nothing of what   *)
(* the parts other than PoolInv say of another session.                    *)

\* A connection is idle, held by one session, or does not exist.
PoolInv ==
    /\ CleanPool
    /\ \A s \in Sessions : conn[s] # None => conn[s] \notin idle
    /\ \A s, t \in Sessions : conn[s] # None /\ conn[s] = conn[t] => s = t

\* The connection s holds.
Held(s) == conns[conn[s]]

\* A client that is idle on a connection that works has read its answer.
Clean(c) == c.client = "idle" /\ ~c.broken => c.wire = <<>>

\* s has a query, or an insert, in progress.
Reading(s) == pc[s] = "reading" \/ (pc[s] = "scanning" /\ ~finished[s])
Inserting(s) ==
    pc[s] \in {"append", "flush", "last", "end"} \/ (pc[s] = "sink" /\ conn[s] # None)

\* What is left on a connection follows from where its statement is.
ConnectionInv(s) ==
    /\ conn[s] # None => Held(s).client # "closed" /\ Clean(Held(s))
    /\ pc[s] \in {"idle", "acquire", "report"} => conn[s] = None
    /\ pc[s] = "begin" => conn[s] # None /\ Held(s) = Opened
    /\ Reading(s) => conn[s] # None /\ Held(s).client = "selecting" /\ ~Held(s).broken
    /\ Inserting(s) => /\ conn[s] # None /\ Held(s).client = "inserting"
                       /\ ~Held(s).broken /\ Held(s).wire = <<>>
    /\ pc[s] = "reading" => kind[s] \in {"query", "execute"}

\* The lock of a scan, and the end of the scan.
ScanInv(s) ==
    /\ pc[s] = "scanning" => (finished[s] <=> conn[s] = None)
    /\ finished[s] => pc[s] \in {"scanning", "destroy"}
    /\ \A w \in Workers : worker[s][w] \in {"next", "got"} <=> lock[s] = w
    /\ lock[s] # None => pc[s] = "scanning"
    /\ \A w \in Workers : worker[s][w] = "got" => ~finished[s]

\* Packets of the answer the client has read, and blocks read but not indexed.
Position(s) == Len(answer[s]) - Len(Held(s).wire)
InHand(s) == IF \E w \in Workers : worker[s][w] = "got" THEN 1 ELSE 0

\* The wire has the rest of the answer; the blocks with rows before it are in
\* `fetched`, but for the one the worker with the lock has in hand.
OrderInv(s) ==
    /\ \A i \in DOMAIN fetched[s] : \E n \in DOMAIN answer[s] :
          /\ fetched[s][i] = PacketsOf(s, answer[s])[n]
          /\ answer[s][n] = "rows" /\ Cardinality(RowBlocks(s, n)) = i
    /\ finished[s] /\ ~failed[s] =>
          Len(fetched[s]) = Cardinality(RowBlocks(s, Len(answer[s])))
    /\ fetched[s] # <<>> => pc[s] \in {"scanning", "reading", "destroy"}
    /\ Reading(s) =>
          /\ answer[s] \in Answers /\ Len(Held(s).wire) \in 1 .. Len(answer[s])
          /\ \A i \in 1 .. Len(Held(s).wire) :
                Held(s).wire[i] = PacketsOf(s, answer[s])[Position(s) + i]
          /\ Len(fetched[s]) + InHand(s) = Cardinality(RowBlocks(s, Position(s)))
    /\ \A w \in Workers : worker[s][w] = "got" =>
          /\ Position(s) \in DOMAIN answer[s] /\ answer[s][Position(s)] = "rows"
          /\ block[s][w] = <<PacketsOf(s, answer[s])[Position(s)]>>

\* Rows wait in pending_rows between Sink() and Flush(), and only there.
CountInv(s) ==
    /\ pc[s] # "destroy" => received[s] + pending_rows[s] = insert_count[s]
    /\ pc[s] \notin {"append", "flush", "last", "sink", "destroy"} => pending_rows[s] = 0
    /\ pc[s] = "sink" /\ conn[s] = None => pending_rows[s] = 0

SessionInv(s) == ConnectionInv(s) /\ ScanInv(s) /\ OrderInv(s) /\ CountInv(s)

Inv == StatementTypeOK /\ PoolInv /\ \A s \in Sessions : SessionInv(s)

-----------------------------------------------------------------------------
(* The operations of a connection.                                         *)

LEMMA ConnectionTypes ==
    /\ Opened \in Connection(Sessions) /\ Closed \in Connection(Sessions)
    /\ Opened # Closed
    /\ \A c \in Connection(Sessions) :
          c.client = "idle" /\ ~c.broken /\ c.wire = <<>> => c = Opened
  <1>1. Opened \in Connection(Sessions) /\ Closed \in Connection(Sessions)
    BY DEF Opened, Closed, Connection, ClientStates
  <1>2. Opened # Closed
    <2>1. Opened.client # Closed.client
      BY DEF Opened, Closed
    <2> QED
      BY <2>1
  <1>3. ASSUME NEW c \in Connection(Sessions), c.client = "idle", ~c.broken, c.wire = <<>>
        PROVE  c = Opened
    <2>1. c = [client |-> c.client, broken |-> c.broken, wire |-> c.wire] /\ c.broken \in BOOLEAN
      BY DEF Connection
    <2>2. c.broken = FALSE
      BY <1>3, <2>1
    <2> QED
      BY <1>3, <2>1, <2>2 DEF Opened
  <1> QED
    BY <1>1, <1>2, <1>3

LEMMA NetworkErrorOutcome ==
    ASSUME NEW c \in Connection(Sessions), NEW state \in ClientStates \ {"closed"},
           NEW o \in NetworkError(c, state)
    PROVE  /\ o.conn \in Connection(Sessions) /\ o.conn.client # "closed"
           /\ o.conn.broken /\ o.result = "threw"
  <1>1. PICK t \in {"idle", state} :
           o = Outcome([c EXCEPT !.broken = TRUE, !.client = t], "threw")
    BY DEF NetworkError
  <1>2. o.conn = [c EXCEPT !.broken = TRUE, !.client = t] /\ o.result = "threw"
    BY <1>1 DEF Outcome
  <1>3. o.conn = [client |-> t, broken |-> TRUE, wire |-> c.wire]
    BY <1>2 DEF Connection
  <1> QED
    BY <1>2, <1>3 DEF Connection, ClientStates

\* A client that is selecting is done with its answer, or the connection broken.
LEMMA CancelCases ==
    ASSUME NEW c \in Connection(Sessions), NEW d \in Cancel(c)
    PROVE  /\ d \in Connection(Sessions)
           /\ \/ c.client # "selecting" /\ d = c
              \/ /\ c.client = "selecting" /\ d.client \in {"idle", "selecting"}
                 /\ d.broken \/ d.wire = <<>>
  <1>1. CASE c.client # "selecting"
    BY <1>1 DEF Cancel
  <1>2. CASE d = [c EXCEPT !.client = "idle", !.wire = <<>>] /\ c.client = "selecting"
    <2>1. d = [client |-> "idle", broken |-> c.broken, wire |-> <<>>]
      BY <1>2 DEF Connection
    <2>2. d.client = "idle" /\ d.wire = <<>>
      BY <2>1
    <2>3. d \in Connection(Sessions)
      <3>1. c.broken \in BOOLEAN /\ <<>> \in Seq(Packets(Sessions)) /\ "idle" \in ClientStates
        BY DEF Connection, ClientStates
      <3> QED
        BY <2>1, <3>1 DEF Connection
    <2> QED
      BY <1>2, <2>2, <2>3
  <1>3. ASSUME NEW t \in {"idle", "selecting"}, d = [c EXCEPT !.client = t, !.broken = TRUE],
               c.client = "selecting"
        PROVE  /\ d \in Connection(Sessions) /\ d.client = t /\ d.broken
    <2>1. d = [client |-> t, broken |-> TRUE, wire |-> c.wire]
      BY <1>3 DEF Connection
    <2> QED
      BY <1>3, <2>1 DEF Connection, ClientStates
  <1> QED
    BY <1>1, <1>2, <1>3 DEF Cancel

\* Cancel() leaves a clean connection clean, and never closes one.
LEMMA CancelOutcome ==
    ASSUME NEW c \in Connection(Sessions), Clean(c), c.client # "closed", NEW d \in Cancel(c)
    PROVE  d \in Connection(Sessions) /\ Clean(d) /\ d.client # "closed"
  BY CancelCases DEF Clean

\* Return() keeps a connection in the pool only as if it had just been opened.
LEMMA ReturnOutcome ==
    ASSUME NEW c \in Connection(Sessions), Clean(c), NEW d \in Return(c)
    PROVE  d \in {Opened, Closed}
  <1>1. CASE d = Closed
    BY <1>1
  <1>2. ASSUME NEW h \in IsHealthy(c), h.result, d \in ResetConnection(h.conn)
        PROVE  d = Opened
    <2>1. h.conn = c /\ c.client = "idle" /\ ~c.broken
      BY <1>2 DEF IsHealthy, Outcome
    <2> QED
      BY <1>2, <2>1, ConnectionTypes DEF ResetConnection, Cancel, Clean
  <1>3. ASSUME NEW h \in IsHealthy(c), ~h.result, NEW r \in TryRecoverConnection(h.conn),
               r.result, d \in ResetConnection(r.conn)
        PROVE  d = Opened
    <2>1. PICK e \in Cancel(h.conn) : r = Outcome(e, ~e.broken /\ e.client = "idle")
      BY <1>3 DEF TryRecoverConnection
    <2>2. r.conn = e /\ ~e.broken /\ e.client = "idle"
      BY <1>3, <2>1 DEF Outcome
    <2>3. h.conn \in Connection(Sessions) /\ (h.conn.broken \/ h.conn.client # "idle")
      <3>1. CASE h = Outcome(c, FALSE) /\ (c.broken \/ c.client # "idle")
        BY <3>1 DEF Outcome
      <3>2. CASE h = Outcome([c EXCEPT !.broken = TRUE], FALSE)
        BY <3>2 DEF Outcome, Connection
      <3> QED
        BY <1>3, <3>1, <3>2 DEF IsHealthy, Outcome
    <2>4. h.conn.client = "selecting" /\ e.wire = <<>> /\ e \in Connection(Sessions)
      BY <2>1, <2>2, <2>3, CancelCases
    <2>5. d = e
      BY <1>3, <2>2 DEF ResetConnection, Cancel
    <2> QED
      BY <2>2, <2>4, <2>5, ConnectionTypes
  <1> QED
    BY <1>1, <1>2, <1>3 DEF Return

\* Reading a block, the end, or an exception.
LEMMA NextBlockOutcome ==
    ASSUME NEW c \in Connection(Sessions), c.client = "selecting", ~c.broken,
           NEW o \in NextBlock(c)
    PROVE  /\ o.conn \in Connection(Sessions) /\ o.conn.client # "closed"
           /\ \/ /\ o.result \in {"rows", "empty"}
                 /\ c.wire # <<>> /\ o.result = Head(c.wire).kind
                 /\ o.conn.client = "selecting" /\ ~o.conn.broken
                 /\ o.conn.wire = Tail(c.wire)
              \/ /\ o.result = "end" /\ c.wire # <<>> /\ Head(c.wire).kind = "end"
                 /\ o.conn.wire = Tail(c.wire)
              \/ /\ o.result = "threw"
                 /\ \/ o.conn.broken
                    \/ /\ c.wire # <<>> /\ Head(c.wire).kind \notin {"rows", "empty"}
                       /\ o.conn.wire = Tail(c.wire)
  <1>1. CASE o \in NetworkError(c, "selecting")
    BY <1>1, NetworkErrorOutcome DEF ClientStates
  <1>2. CASE o \notin NetworkError(c, "selecting")
    <2>1. c.wire # <<>> /\ Tail(c.wire) \in Seq(Packets(Sessions))
      BY <1>2 DEF NextBlock, Connection
    <2>2. CASE Head(c.wire).kind \in {"rows", "empty"}
      <3>1. o = Outcome([c EXCEPT !.wire = Tail(c.wire)], Head(c.wire).kind)
        BY <1>2, <2>1, <2>2 DEF NextBlock
      <3> QED
        BY <2>1, <2>2, <3>1 DEF Outcome, Connection
    <2>3. CASE Head(c.wire).kind \notin {"rows", "empty"}
      <3>1. o = Outcome([c EXCEPT !.wire = Tail(c.wire), !.client = "idle"],
                        IF Head(c.wire).kind = "end" THEN "end" ELSE "threw")
        BY <1>2, <2>1, <2>3 DEF NextBlock
      <3> QED
        BY <2>1, <2>3, <3>1 DEF Outcome, Connection, ClientStates
    <2> QED
      BY <2>2, <2>3
  <1> QED
    BY <1>1, <1>2

-----------------------------------------------------------------------------
(* The connections in the hands of the sessions.                           *)

\* The steps of others leave the connection of t alone.
SameConnection(t) == conn'[t] = conn[t] /\ (conn[t] # None => conns'[conn[t]] = conns[conn[t]])

LEMMA UpdateFacts ==
    ASSUME StatementTypeOK, PoolInv, NEW s \in Sessions, conn[s] # None,
           NEW c \in Connection(Sessions), Update(s, c)
    PROVE  /\ conns' \in [Conns -> Connection(Sessions)] /\ UNCHANGED <<idle, conn>>
           /\ Held(s)' = c /\ PoolInv'
           /\ \A t \in Sessions \ {s} : SameConnection(t)
  <1>1. conn[s] \in Conns
    BY DEF StatementTypeOK
  <1>2. /\ conns' = [conns EXCEPT ![conn[s]] = c] /\ UNCHANGED <<idle, conn>>
        /\ conns \in [Conns -> Connection(Sessions)] /\ idle \subseteq Conns
    BY DEF Update, StatementTypeOK
  <1>3. \A k \in Conns : conns'[k] = IF k = conn[s] THEN c ELSE conns[k]
    BY <1>1, <1>2
  <1>4. PoolInv'
    BY <1>2, <1>3 DEF PoolInv, CleanPool
  <1>5. \A t \in Sessions \ {s} : SameConnection(t)
    BY <1>2, <1>3 DEF PoolInv, SameConnection, StatementTypeOK
  <1> QED
    BY <1>1, <1>2, <1>3, <1>4, <1>5 DEF Held

LEMMA ReleaseFacts ==
    ASSUME StatementTypeOK, PoolInv, NEW s \in Sessions, conn[s] # None,
           NEW c \in Connection(Sessions), Clean(c), Release(s, c)
    PROVE  /\ conns' \in [Conns -> Connection(Sessions)] /\ idle' \in SUBSET Conns
           /\ conn' \in [Sessions -> Conns \cup {None}] /\ conn'[s] = None /\ PoolInv'
           /\ \A t \in Sessions \ {s} : SameConnection(t)
  <1>1. conn[s] \in Conns
    BY DEF StatementTypeOK
  <1>2. PICK d \in Return(c) :
           /\ conns' = [conns EXCEPT ![conn[s]] = d]
           /\ idle' = IF d = Closed THEN idle ELSE idle \cup {conn[s]}
           /\ conn' = [conn EXCEPT ![s] = None]
    BY DEF Release
  <1>3. d \in {Opened, Closed} /\ d \in Connection(Sessions)
    BY ReturnOutcome, ConnectionTypes
  <1>4. /\ conns' \in [Conns -> Connection(Sessions)] /\ idle' \in SUBSET Conns
        /\ conn' \in [Sessions -> Conns \cup {None}]
    BY <1>1, <1>2, <1>3 DEF StatementTypeOK
  <1>5. /\ \A k \in Conns : conns'[k] = IF k = conn[s] THEN d ELSE conns[k]
        /\ \A t \in Sessions : conn'[t] = IF t = s THEN None ELSE conn[t]
    BY <1>1, <1>2 DEF StatementTypeOK
  <1>6. CleanPool'
    BY <1>2, <1>3, <1>4, <1>5 DEF PoolInv, CleanPool
  <1>7. \A t \in Sessions \ {s} : conn[t] # None => conn[t] # conn[s]
    BY DEF PoolInv
  <1>8. \A t \in Sessions \ {s} : SameConnection(t)
    BY <1>5, <1>7 DEF SameConnection, StatementTypeOK
  <1>9. PoolInv'
    BY <1>2, <1>5, <1>6, <1>7 DEF PoolInv
  <1> QED
    BY <1>4, <1>5, <1>8, <1>9

LEMMA AbandonFacts ==
    ASSUME StatementTypeOK, PoolInv, NEW s \in Sessions, conn[s] # None, Abandon(s)
    PROVE  /\ conns' \in [Conns -> Connection(Sessions)] /\ idle' \in SUBSET Conns
           /\ conn' \in [Sessions -> Conns \cup {None}] /\ conn'[s] = None /\ PoolInv'
           /\ \A t \in Sessions \ {s} : SameConnection(t)
  <1>1. conn[s] \in Conns
    BY DEF StatementTypeOK
  <1>2. /\ conns' \in [Conns -> Connection(Sessions)] /\ UNCHANGED idle
        /\ conn' \in [Sessions -> Conns \cup {None}]
    BY ConnectionTypes DEF Abandon, StatementTypeOK
  <1>3. /\ \A k \in Conns : conns'[k] = IF k = conn[s] THEN Closed ELSE conns[k]
        /\ \A t \in Sessions : conn'[t] = IF t = s THEN None ELSE conn[t]
    BY <1>1 DEF Abandon, StatementTypeOK
  <1>4. \A t \in Sessions \ {s} : conn[t] # None => conn[t] # conn[s]
    BY DEF PoolInv
  <1>5. \A t \in Sessions \ {s} : SameConnection(t)
    BY <1>3, <1>4 DEF SameConnection, StatementTypeOK
  <1>6. PoolInv'
    BY <1>2, <1>3, <1>4 DEF PoolInv, CleanPool, StatementTypeOK
  <1> QED
    BY <1>2, <1>3, <1>5, <1>6 DEF StatementTypeOK

\* s has a connection nobody else has, fresh or as good as it; or it has to try
\* again, and everything is well.
Acquired(s) ==
    /\ conns' \in [Conns -> Connection(Sessions)] /\ idle' \in SUBSET Conns
    /\ conn' \in [Sessions -> Conns \cup {None}] /\ PoolInv'
    /\ \A t \in Sessions \ {s} : SameConnection(t)
    /\ \/ UNCHANGED <<pc, conn>>
       \/ pc' = [pc EXCEPT ![s] = "begin"] /\ conn'[s] # None /\ Held(s)' = Opened

LEMMA AcquireFacts ==
    ASSUME StatementTypeOK, PoolInv, \A t \in Sessions : ConnectionInv(t),
           NEW s \in Sessions, Acquire(s)
    PROVE  Acquired(s)
  <1>1. pc[s] = "acquire" /\ conn[s] = None
    BY DEF Acquire, ConnectionInv
  <1>2. \A t \in Sessions : conn[t] # None => conns[conn[t]] # Closed /\ conn[t] \notin idle
    BY DEF ConnectionInv, Held, PoolInv, Closed
  <1>3. ASSUME NEW k \in Conns, NEW d \in Connection(Sessions), conns' = [conns EXCEPT ![k] = d],
               k \in idle \/ conns[k] = Closed
        PROVE  /\ conns' \in [Conns -> Connection(Sessions)]
               /\ \A j \in Conns : conns'[j] = IF j = k THEN d ELSE conns[j]
               /\ \A t \in Sessions : conn[t] # k
               /\ \A t \in Sessions : conn[t] # None => conns'[conn[t]] = conns[conn[t]]
    <2>1. /\ conns' \in [Conns -> Connection(Sessions)]
          /\ \A j \in Conns : conns'[j] = IF j = k THEN d ELSE conns[j]
      BY <1>3 DEF StatementTypeOK
    <2>2. \A t \in Sessions : conn[t] # k
      BY <1>2, <1>3, NoneAssumption
    <2> QED
      BY <2>1, <2>2 DEF StatementTypeOK
  <1>4. ASSUME NEW k \in Conns, k \in idle, idle' = idle \ {k}, conns' = [conns EXCEPT ![k] = Closed],
               UNCHANGED <<pc, conn>>
        PROVE  Acquired(s)
    <2>1. /\ conns' \in [Conns -> Connection(Sessions)]
          /\ \A j \in Conns : conns'[j] = IF j = k THEN Closed ELSE conns[j]
          /\ \A t \in Sessions : conn[t] # None => conns'[conn[t]] = conns[conn[t]]
      BY <1>3, <1>4, ConnectionTypes
    <2>2. PoolInv'
      BY <1>4, <2>1 DEF PoolInv, CleanPool, StatementTypeOK
    <2> QED
      BY <1>4, <2>1, <2>2 DEF StatementTypeOK, SameConnection, Acquired
  <1>5. ASSUME NEW k \in Conns, idle' = idle \ {k}, conns' = [conns EXCEPT ![k] = Opened],
               k \in idle \/ conns[k] = Closed, conn' = [conn EXCEPT ![s] = k],
               pc' = [pc EXCEPT ![s] = "begin"]
        PROVE  Acquired(s)
    <2>1. /\ conns' \in [Conns -> Connection(Sessions)]
          /\ \A j \in Conns : conns'[j] = IF j = k THEN Opened ELSE conns[j]
          /\ \A t \in Sessions : conn[t] # k
          /\ \A t \in Sessions : conn[t] # None => conns'[conn[t]] = conns[conn[t]]
      BY <1>3, <1>5, ConnectionTypes
    <2>2. /\ \A t \in Sessions : conn'[t] = IF t = s THEN k ELSE conn[t]
          /\ conn' \in [Sessions -> Conns \cup {None}] /\ k # None
      BY <1>5, NoneAssumption DEF StatementTypeOK
    <2>3. PoolInv'
      BY <1>5, <2>1, <2>2 DEF PoolInv, CleanPool, StatementTypeOK
    <2> QED
      BY <1>5, <2>1, <2>2, <2>3 DEF StatementTypeOK, SameConnection, Held, Acquired
  <1>6. ASSUME NEW k \in idle, NEW h \in IsHealthy(conns[k])
        PROVE  h.result => h.conn = Opened
    BY DEF PoolInv, CleanPool, IsHealthy, Outcome, Opened
  <1>7. ASSUME NEW k \in Conns, conns[k] = Closed
        PROVE  idle = idle \ {k}
    BY <1>7, ConnectionTypes DEF PoolInv, CleanPool
  <1> QED
    BY <1>4, <1>5, <1>6, <1>7 DEF Acquire, Goto, StatementTypeOK

-----------------------------------------------------------------------------
(* The answer to a query and how much of it has been read.                 *)

LEMMA RowBlocksCount ==
    ASSUME NEW s \in Sessions, NEW n \in Nat
    PROVE  /\ Cardinality(RowBlocks(s, n)) \in Nat
           /\ Cardinality(RowBlocks(s, 0)) = 0
           /\ Cardinality(RowBlocks(s, n + 1)) =
                 Cardinality(RowBlocks(s, n)) + IF answer[s][n + 1] = "rows" THEN 1 ELSE 0
  <1>1. IsFiniteSet(RowBlocks(s, n))
    <2>1. IsFiniteSet(1 .. n)
      BY FS_Interval
    <2> QED
      BY <2>1, FS_Subset DEF RowBlocks
  <1>2. RowBlocks(s, 0) = {}
    BY DEF RowBlocks
  <1>3. RowBlocks(s, n + 1) = IF answer[s][n + 1] = "rows" THEN RowBlocks(s, n) \cup {n + 1}
                                                           ELSE RowBlocks(s, n)
    BY DEF RowBlocks
  <1>4. n + 1 \notin RowBlocks(s, n)
    BY DEF RowBlocks
  <1>5. Cardinality(RowBlocks(s, n)) \in Nat /\ Cardinality(RowBlocks(s, 0)) = 0
    BY <1>1, <1>2, FS_CardinalityType, FS_EmptySet
  <1>6. Cardinality(RowBlocks(s, n) \cup {n + 1}) = Cardinality(RowBlocks(s, n)) + 1
    BY <1>1, <1>4, FS_AddElement
  <1> QED
    BY <1>3, <1>5, <1>6

\* The next packet of a query in progress is the next of its answer, and the
\* last one leaves nothing on the wire.
LEMMA ReadingFacts ==
    ASSUME StatementTypeOK, NEW s \in Sessions, ConnectionInv(s), OrderInv(s), Reading(s)
    PROVE  /\ conn[s] # None /\ Held(s) \in Connection(Sessions)
           /\ Held(s).client = "selecting" /\ ~Held(s).broken
           /\ answer[s] \in Answers /\ Len(answer[s]) \in Nat
           /\ Position(s) \in Nat /\ Position(s) + 1 \in 1 .. Len(answer[s])
           /\ Held(s).wire # <<>>
           /\ Head(Held(s).wire) = PacketsOf(s, answer[s])[Position(s) + 1]
           /\ Head(Held(s).wire).kind = answer[s][Position(s) + 1]
           /\ Len(Tail(Held(s).wire)) = Len(Held(s).wire) - 1
           /\ \A i \in 1 .. Len(Tail(Held(s).wire)) :
                 Tail(Held(s).wire)[i] = PacketsOf(s, answer[s])[Position(s) + 1 + i]
           /\ IF Head(Held(s).wire).kind \in {"rows", "empty"}
                THEN Len(Tail(Held(s).wire)) \in 1 .. Len(answer[s])
                ELSE Tail(Held(s).wire) = <<>> /\ Position(s) + 1 = Len(answer[s])
  <1> DEFINE w == Held(s).wire
             n == Position(s)
             a == answer[s]
  <1>1. /\ conn[s] # None /\ Held(s) \in Connection(Sessions)
        /\ Held(s).client = "selecting" /\ ~Held(s).broken
    BY DEF ConnectionInv, StatementTypeOK, Held
  <1>2. /\ a \in Answers /\ Len(w) \in 1 .. Len(a) /\ n = Len(a) - Len(w)
        /\ \A i \in 1 .. Len(w) : w[i] = PacketsOf(s, a)[n + i]
    BY DEF OrderInv, Position
  <1>3. /\ a \in Seq({"rows", "empty", "end", "error"}) /\ w \in Seq(Packets(Sessions))
        /\ \A i \in DOMAIN a : i = Len(a) <=> a[i] \in {"end", "error"}
    BY <1>1, <1>2, AnswersAssumption DEF Connection
  <1> HIDE DEF w, n, a
  <1>4. /\ Len(a) \in Nat /\ Len(w) \in Nat /\ n \in Nat /\ n + 1 \in 1 .. Len(a)
        /\ DOMAIN a = 1 .. Len(a) /\ w # <<>>
    BY <1>2, <1>3
  <1>5. Head(w) = PacketsOf(s, a)[n + 1]
    BY <1>2, <1>3, <1>4
  <1>6. Head(w).kind = a[n + 1]
    BY <1>4, <1>5 DEF PacketsOf
  <1>7. /\ Len(Tail(w)) = Len(w) - 1
        /\ \A i \in 1 .. Len(Tail(w)) : Tail(w)[i] = w[i + 1]
    BY <1>3, <1>4
  <1>8. \A i \in 1 .. Len(Tail(w)) : Tail(w)[i] = PacketsOf(s, a)[n + 1 + i]
    <2> TAKE i \in 1 .. Len(Tail(w))
    <2>1. Tail(w)[i] = PacketsOf(s, a)[n + (i + 1)]
      BY <1>2, <1>4, <1>7
    <2>2. n + (i + 1) = n + 1 + i
      BY <1>4, <1>7
    <2> QED
      BY <2>1, <2>2
  <1>9. CASE a[n + 1] \in {"rows", "empty"}
    <2>1. n + 1 # Len(a)
      BY <1>3, <1>4, <1>9
    <2>2. Len(Tail(w)) \in 1 .. Len(a)
      BY <1>2, <1>4, <1>7, <2>1
    <2> QED
      BY <1>1, <1>2, <1>4, <1>5, <1>6, <1>7, <1>8, <1>9, <2>2 DEF w, n, a
  <1>10. CASE a[n + 1] \notin {"rows", "empty"}
    <2>1. a[n + 1] \in {"end", "error"}
      BY <1>3, <1>4, <1>10
    <2>2. n + 1 = Len(a)
      BY <1>3, <1>4, <2>1
    <2>3. Len(Tail(w)) = 0 /\ Tail(w) \in Seq(Packets(Sessions))
      BY <1>2, <1>3, <1>4, <1>7, <2>2
    <2>4. Tail(w) = <<>>
      BY <2>3, EmptySeq
    <2> QED
      BY <1>1, <1>2, <1>4, <1>5, <1>6, <1>7, <1>8, <1>10, <2>2, <2>4 DEF w, n, a
  <1> QED
    BY <1>9, <1>10

LEMMA PacketsOfType ==
    ASSUME NEW s \in Sessions, NEW a \in Answers
    PROVE  /\ PacketsOf(s, a) \in Seq(Packets(Sessions))
           /\ Len(PacketsOf(s, a)) = Len(a) /\ Len(a) \in Nat \ {0}
  <1>1. a \in Seq({"rows", "empty", "end", "error"}) /\ a # <<>>
    BY AnswersAssumption
  <1> QED
    BY <1>1 DEF PacketsOf, Packets

-----------------------------------------------------------------------------
(* A step of another session changes nothing of what the invariant says.   *)

SameSession(t) ==
    /\ SameConnection(t)
    /\ pc'[t] = pc[t] /\ kind'[t] = kind[t] /\ answer'[t] = answer[t]
    /\ fetched'[t] = fetched[t] /\ failed'[t] = failed[t] /\ finished'[t] = finished[t]
    /\ lock'[t] = lock[t] /\ worker'[t] = worker[t] /\ block'[t] = block[t]
    /\ pending_rows'[t] = pending_rows[t] /\ insert_count'[t] = insert_count[t]
    /\ received'[t] = received[t]

LEMMA SessionFrame ==
    ASSUME NEW t \in Sessions, SessionInv(t), SameSession(t)
    PROVE  SessionInv(t)'
  <1>1. conn[t] # None => Held(t)' = Held(t)
    BY DEF SameSession, SameConnection, Held
  <1>2. ConnectionInv(t)'
    BY <1>1 DEF SessionInv, ConnectionInv, SameSession, SameConnection, Reading, Inserting
  <1>3. ScanInv(t)'
    BY DEF SessionInv, ScanInv, SameSession, SameConnection
  <1>4. CountInv(t)'
    BY DEF SessionInv, CountInv, SameSession, SameConnection
  <1>5. \A n : RowBlocks(t, n)' = RowBlocks(t, n)
    BY DEF RowBlocks, SameSession
  <1>6. Reading(t)' = Reading(t) /\ (Reading(t) => Position(t)' = Position(t) /\ Held(t)' = Held(t))
    BY <1>1 DEF SessionInv, ConnectionInv, Reading, Position, SameSession
  <1>7. InHand(t)' = InHand(t)
    BY DEF InHand, SameSession
  <1>8. \A w \in Workers : worker[t][w] = "got" => Reading(t)
    BY NoneAssumption DEF SessionInv, ScanInv, Reading
  <1>9. OrderInv(t)'
    BY <1>5, <1>6, <1>7, <1>8 DEF SessionInv, OrderInv, SameSession
  <1> QED
    BY <1>2, <1>3, <1>4, <1>9 DEF SessionInv

\* What has to be shown of a step of s.
StepOK(s) ==
    /\ StatementTypeOK' /\ PoolInv' /\ SessionInv(s)'
    /\ \A t \in Sessions \ {s} : SameSession(t)

LEMMA StepOKSuffices ==
    ASSUME Inv, NEW s \in Sessions, StepOK(s)
    PROVE  Inv'
  BY SessionFrame DEF Inv, StepOK

LEMMA PoolFrame ==
    ASSUME PoolInv, UNCHANGED poolVars
    PROVE  PoolInv' /\ \A t \in Sessions : SameConnection(t)
  BY DEF PoolInv, CleanPool, poolVars, SameConnection

\* A block in hand means that the scan goes on.
LEMMA GotIsReading ==
    ASSUME NEW s \in Sessions, ScanInv(s), NEW w \in Workers, worker[s][w] = "got"
    PROVE  pc[s] = "scanning" /\ Reading(s)
  BY NoneAssumption DEF ScanInv, Reading

\* Steps of s that take no block and index none.
LEMMA OrderFrame ==
    ASSUME NEW s \in Sessions, SessionInv(s),
           answer'[s] = answer[s], fetched'[s] = fetched[s], block'[s] = block[s],
           finished'[s] = finished[s], ~failed'[s] => ~failed[s],
           \A w \in Workers : worker'[s][w] = "got" <=> worker[s][w] = "got",
           SameConnection(s) \/ pc[s] # "scanning",
           Reading(s)' => Reading(s) /\ SameConnection(s),
           fetched[s] = <<>> \/ pc'[s] \in {"scanning", "reading", "destroy"}
    PROVE  OrderInv(s)'
  <1>1. \A n : RowBlocks(s, n)' = RowBlocks(s, n)
    BY DEF RowBlocks
  <1>2. SameConnection(s) /\ Reading(s) => Position(s)' = Position(s) /\ Held(s)' = Held(s)
    BY DEF Position, Held, SameConnection, SessionInv, ConnectionInv
  <1>3. InHand(s)' = InHand(s)
    BY DEF InHand
  <1>4. \A w \in Workers : worker[s][w] = "got" =>
            Position(s)' = Position(s) /\ Held(s)' = Held(s)
    BY <1>2, GotIsReading DEF SessionInv
  <1> QED
    BY <1>1, <1>2, <1>3, <1>4 DEF SessionInv, OrderInv

\* Steps of s outside of a scan.
LEMMA ScanFrame ==
    ASSUME NEW s \in Sessions, ScanInv(s),
           finished'[s] = finished[s], lock'[s] = lock[s], worker'[s] = worker[s],
           pc[s] \notin {"scanning", "destroy"}, pc'[s] # "scanning"
    PROVE  ScanInv(s)'
  BY DEF ScanInv

\* The steps that change where s is and nothing else that the invariant is about.
LEMMA MoveFrame ==
    ASSUME Inv, NEW s \in Sessions, NEW from \in Locations, NEW to \in Locations, Goto(s, from, to),
           kind' \in [Sessions -> Kinds], \A t \in Sessions \ {s} : kind'[t] = kind[t],
           target' \in [Sessions -> {"unknown", "ready", "skip"}],
           chunk' \in [Sessions -> Nat],
           UNCHANGED <<poolVars, failed, scanVars, pending_rows, insert_count, received>>,
           from \notin {"scanning", "destroy"}, to # "scanning", 
           fetched[s] = <<>> \/ to \in {"reading", "destroy"},
           ConnectionInv(s)', CountInv(s)', Reading(s)' => Reading(s)
    PROVE  StepOK(s)
  <1> USE DEF Inv
  <1>1. /\ pc[s] = from /\ pc' \in [Sessions -> Locations]
        /\ \A t \in Sessions : pc'[t] = IF t = s THEN to ELSE pc[t]
    BY DEF Goto, StatementTypeOK
  <1>2. StatementTypeOK'
    BY <1>1 DEF StatementTypeOK, poolVars, scanVars
  <1>3. PoolInv' /\ \A t \in Sessions : SameConnection(t)
    BY PoolFrame
  <1>4. \A t \in Sessions \ {s} : SameSession(t)
    BY <1>1, <1>3 DEF SameSession, scanVars
  <1>5. ScanInv(s)'
    BY <1>1, ScanFrame DEF scanVars, SessionInv
  <1>6. OrderInv(s)'
    BY <1>1, <1>3, OrderFrame DEF scanVars
  <1> QED
    BY <1>2, <1>3, <1>4, <1>5, <1>6 DEF StepOK, SessionInv

-----------------------------------------------------------------------------
(* The steps, one lemma for each kind.                                     *)

\* Outside of a scan and of the end of a statement nothing has been fetched.
LEMMA NothingFetched ==
    ASSUME NEW s \in Sessions, OrderInv(s), pc[s] \notin {"scanning", "reading", "destroy"}
    PROVE  fetched[s] = <<>>
  BY DEF OrderInv

LEMMA StartStep ==
    ASSUME Inv, NEW s \in Sessions, Start(s)
    PROVE  StepOK(s)
  <1> USE DEF Inv
  <1>1. PICK what \in Kinds :
           /\ kind' = [kind EXCEPT ![s] = what]
           /\ pc' = [pc EXCEPT ![s] = IF what = "insert" THEN "sink" ELSE "acquire"]
    BY DEF Start
  <1> DEFINE to == IF what = "insert" THEN "sink" ELSE "acquire"
  <1>2. /\ pc[s] = "idle" /\ UNCHANGED <<poolVars, failed, scanVars, insertVars>>
        /\ pc'[s] = to /\ Goto(s, "idle", to) /\ to \in {"sink", "acquire"} /\ to \in Locations
    BY <1>1 DEF Start, StatementTypeOK, Goto, Locations
  <1> HIDE DEF to
  <1>3. /\ kind' \in [Sessions -> Kinds] /\ \A t \in Sessions \ {s} : kind'[t] = kind[t]
        /\ target' \in [Sessions -> {"unknown", "ready", "skip"}] /\ chunk' \in [Sessions -> Nat]
        /\ UNCHANGED <<pending_rows, insert_count, received>>
    BY <1>1, <1>2 DEF StatementTypeOK, insertVars
  <1>4. ConnectionInv(s)' /\ ~Reading(s)'
    BY <1>2, PoolFrame DEF SessionInv, ConnectionInv, Reading, Inserting, SameConnection
  <1>5. CountInv(s)'
    BY <1>2, <1>3 DEF SessionInv, CountInv
  <1> QED
    BY <1>2, <1>3, <1>4, <1>5, NothingFetched, MoveFrame DEF SessionInv, Locations

\* A statement that fails where it has taken nothing, or what it has is left to
\* the destructors.
LEMMA FailStep ==
    ASSUME Inv, NEW s \in Sessions, AcquireFails(s) \/ SinkFails(s) \/ AppendFails(s)
    PROVE  StepOK(s)
  <1> USE DEF Inv
  <1>1. PICK from \in {"acquire", "sink", "append"} : Goto(s, from, "destroy")
    BY DEF AcquireFails, SinkFails, AppendFails
  <1>2. /\ UNCHANGED <<poolVars, kind, failed, scanVars, insertVars>>
        /\ pc[s] = from /\ pc'[s] = "destroy" /\ from \in Locations /\ "destroy" \in Locations
    BY <1>1 DEF AcquireFails, SinkFails, AppendFails, StatementTypeOK, Goto, Locations
  <1>3. /\ kind' \in [Sessions -> Kinds]
        /\ target' \in [Sessions -> {"unknown", "ready", "skip"}] /\ chunk' \in [Sessions -> Nat]
        /\ UNCHANGED <<pending_rows, insert_count, received>>
    BY <1>2 DEF StatementTypeOK, insertVars
  <1>4. SameConnection(s) /\ conn'[s] = conn[s] /\ (conn[s] # None => Held(s)' = Held(s))
    BY <1>2, PoolFrame DEF SameConnection, Held
  <1>5. ConnectionInv(s)' /\ ~Reading(s)'
    BY <1>2, <1>4 DEF SessionInv, ConnectionInv, Reading, Inserting
  <1>6. CountInv(s)'
    BY <1>2 DEF CountInv
  <1> QED
    BY <1>1, <1>2, <1>3, <1>5, <1>6, MoveFrame

LEMMA PrepareTargetType ==
    ASSUME StatementTypeOK, NEW s \in Sessions, PrepareTarget(s)
    PROVE  target' \in [Sessions -> {"unknown", "ready", "skip"}]
  BY DEF PrepareTarget, StatementTypeOK

\* Sink() and Finalize() up to what they do with the connection.
LEMMA SinkStep ==
    ASSUME Inv, NEW s \in Sessions, Sink(s) \/ Finalize(s)
    PROVE  StepOK(s)
  <1> USE DEF Inv
  <1>1. PICK to \in {"sink", "acquire", "append", "report", "last"} :
           /\ Goto(s, "sink", to)
           /\ to \in {"acquire", "report"} => conn[s] = None
           /\ to \in {"append", "last"} => conn[s] # None
    <2>1. CASE Sink(s) /\ UNCHANGED pc
      BY <2>1 DEF Sink, Goto, StatementTypeOK
    <2>2. CASE Sink(s) /\ ~UNCHANGED pc
      BY <2>2 DEF Sink
    <2>3. CASE Finalize(s)
      BY <2>3 DEF Finalize
    <2> QED
      BY <2>1, <2>2, <2>3
  <1>2. /\ UNCHANGED <<poolVars, kind, failed, scanVars, pending_rows, insert_count, received>>
        /\ pc[s] = "sink" /\ pc'[s] = to /\ to \in Locations /\ "sink" \in Locations
    BY <1>1 DEF Sink, Finalize, Goto, StatementTypeOK, Locations
  <1>3. target' \in [Sessions -> {"unknown", "ready", "skip"}]
    BY PrepareTargetType DEF Sink, Finalize
  <1>4. kind' \in [Sessions -> Kinds] /\ chunk' \in [Sessions -> Nat]
    BY <1>2, RowsAssumption DEF Sink, Finalize, StatementTypeOK
  <1>5. SameConnection(s) /\ conn'[s] = conn[s] /\ (conn[s] # None => Held(s)' = Held(s))
    BY <1>2, PoolFrame DEF SameConnection, Held
  <1>6. ConnectionInv(s)' /\ ~Reading(s)'
    BY <1>1, <1>2, <1>5 DEF SessionInv, ConnectionInv, Reading, Inserting
  <1>7. CountInv(s)'
    BY <1>1, <1>2, <1>5 DEF SessionInv, CountInv
  <1>8. fetched[s] = <<>>
    BY <1>2, NothingFetched DEF SessionInv
  <1> QED
    BY <1>1, <1>2, <1>3, <1>4, <1>6, <1>7, <1>8, MoveFrame

\* Steps of s that take or use a connection but are not about a query.
LEMMA NoQueryFrame ==
    ASSUME Inv, NEW s \in Sessions, StatementTypeOK', PoolInv',
           UNCHANGED <<kind, failed, scanVars>>,
           \A t \in Sessions \ {s} :
              /\ SameConnection(t) /\ pc'[t] = pc[t] /\ pending_rows'[t] = pending_rows[t]
              /\ insert_count'[t] = insert_count[t] /\ received'[t] = received[t],
           pc[s] \notin {"scanning", "reading", "destroy"},
           pc'[s] \notin {"scanning", "reading"},
           ConnectionInv(s)', CountInv(s)'
    PROVE  StepOK(s)
  <1> USE DEF Inv
  <1>1. \A t \in Sessions \ {s} : SameSession(t)
    BY DEF SameSession, scanVars
  <1>2. ScanInv(s)'
    BY ScanFrame DEF scanVars, SessionInv
  <1>3. ~Reading(s)'
    BY DEF Reading
  <1>4. fetched[s] = <<>>
    BY NothingFetched DEF SessionInv
  <1>5. OrderInv(s)'
    BY <1>3, <1>4, OrderFrame DEF scanVars
  <1> QED
    BY <1>1, <1>2, <1>5 DEF StepOK, SessionInv

LEMMA AcquireStep ==
    ASSUME Inv, NEW s \in Sessions, Acquire(s)
    PROVE  StepOK(s)
  <1> USE DEF Inv
  <1>1. Acquired(s)
    BY AcquireFacts DEF SessionInv
  <1>2. pc[s] = "acquire" /\ UNCHANGED <<kind, failed, scanVars, insertVars>>
    BY DEF Acquire
  <1>3. /\ pc' \in [Sessions -> Locations]
        /\ \A t \in Sessions \ {s} : pc'[t] = pc[t]
        /\ \/ pc'[s] = "acquire" /\ conn'[s] = conn[s]
           \/ pc'[s] = "begin" /\ conn'[s] # None /\ Held(s)' = Opened
    BY <1>1, <1>2 DEF Acquired, StatementTypeOK, Locations
  <1>4. StatementTypeOK'
    BY <1>1, <1>2, <1>3 DEF Acquired, StatementTypeOK, scanVars, insertVars
  <1>5. ConnectionInv(s)'
    BY <1>2, <1>3 DEF SessionInv, ConnectionInv, Reading, Inserting, Clean, Opened
  <1>6. CountInv(s)'
    BY <1>2, <1>3 DEF SessionInv, CountInv, insertVars
  <1> QED
    BY <1>1, <1>2, <1>3, <1>4, <1>5, <1>6, NoQueryFrame DEF Acquired, insertVars

LEMMA StartInsertStep ==
    ASSUME Inv, NEW s \in Sessions, StartInsert(s)
    PROVE  StepOK(s)
  <1> USE DEF Inv
  <1>1. PICK o \in BeginInsert(Held(s)) :
           /\ Update(s, o.conn)
           /\ \/ o.result = "ok" /\ Goto(s, "begin", "append")
              \/ Goto(s, "begin", "destroy")
    BY DEF StartInsert, Held
  <1>2. /\ pc[s] = "begin" /\ conn[s] # None /\ Held(s) = Opened
        /\ UNCHANGED <<kind, failed, scanVars, insertVars>>
    BY DEF StartInsert, SessionInv, ConnectionInv
  <1>3. /\ o.conn \in Connection(Sessions) /\ o.conn.client = "inserting"
        /\ o.conn.wire = <<>> /\ (o.result = "ok" => ~o.conn.broken)
    <2>1. o \in {Outcome([Opened EXCEPT !.client = "inserting", !.broken = TRUE], "threw"),
                 Outcome([Opened EXCEPT !.client = "inserting"], "ok")}
      BY <1>2 DEF BeginInsert
    <2>2. CASE o = Outcome([Opened EXCEPT !.client = "inserting", !.broken = TRUE], "threw")
      <3>1. o.result = "threw"
            /\ o.conn = [client |-> "inserting", broken |-> TRUE, wire |-> <<>>]
        BY <2>2 DEF Outcome, Opened
      <3> QED
        BY <3>1 DEF Connection, ClientStates
    <2>3. CASE o = Outcome([Opened EXCEPT !.client = "inserting"], "ok")
      <3>1. o.conn = [client |-> "inserting", broken |-> FALSE, wire |-> <<>>]
        BY <2>3 DEF Outcome, Opened
      <3> QED
        BY <3>1 DEF Connection, ClientStates
    <2> QED
      BY <2>1, <2>2, <2>3
  <1>4. /\ conns' \in [Conns -> Connection(Sessions)] /\ UNCHANGED <<idle, conn>>
        /\ Held(s)' = o.conn /\ PoolInv'
        /\ \A t \in Sessions \ {s} : SameConnection(t)
    BY <1>1, <1>2, <1>3, UpdateFacts
  <1>5. /\ pc' \in [Sessions -> Locations] /\ \A t \in Sessions \ {s} : pc'[t] = pc[t]
        /\ \/ pc'[s] = "append" /\ o.result = "ok"
           \/ pc'[s] = "destroy"
    BY <1>1 DEF Goto, StatementTypeOK, Locations
  <1>6. StatementTypeOK'
    BY <1>2, <1>4, <1>5 DEF StatementTypeOK, scanVars, insertVars
  <1>7. ConnectionInv(s)'
    BY <1>2, <1>3, <1>4, <1>5 DEF SessionInv, ConnectionInv, Reading, Inserting, Clean
  <1>8. CountInv(s)'
    BY <1>2, <1>5 DEF SessionInv, CountInv, insertVars
  <1> QED
    BY <1>2, <1>4, <1>5, <1>6, <1>7, <1>8, NoQueryFrame DEF insertVars

LEMMA AppendRowsStep ==
    ASSUME Inv, NEW s \in Sessions, AppendRows(s)
    PROVE  StepOK(s)
  <1> USE DEF Inv
  <1>1. /\ pc[s] = "append" /\ UNCHANGED <<poolVars, kind, failed, scanVars, target, received>>
        /\ pending_rows' = [pending_rows EXCEPT ![s] = @ + chunk[s]]
        /\ insert_count' = [insert_count EXCEPT ![s] = @ + chunk[s]]
        /\ chunk' = [chunk EXCEPT ![s] = 0]
        /\ pc' = [pc EXCEPT ![s] = IF pending_rows'[s] >= BlockSize THEN "flush" ELSE "sink"]
    BY DEF AppendRows, Goto
  <1>2. PoolInv' /\ \A t \in Sessions : SameConnection(t)
    BY <1>1, PoolFrame
  <1>3. /\ pc' \in [Sessions -> Locations] /\ \A t \in Sessions \ {s} : pc'[t] = pc[t]
        /\ pc'[s] \in {"flush", "sink"}
    BY <1>1 DEF StatementTypeOK, Locations
  <1>4. /\ pending_rows' \in [Sessions -> Nat] /\ insert_count' \in [Sessions -> Nat]
        /\ chunk' \in [Sessions -> Nat]
        /\ pending_rows'[s] = pending_rows[s] + chunk[s]
        /\ insert_count'[s] = insert_count[s] + chunk[s]
        /\ \A t \in Sessions \ {s} : /\ pending_rows'[t] = pending_rows[t]
                                     /\ insert_count'[t] = insert_count[t]
    BY <1>1 DEF StatementTypeOK
  <1>5. StatementTypeOK'
    BY <1>1, <1>3, <1>4 DEF StatementTypeOK, poolVars, scanVars
  <1>6. conn[s] # None /\ conn'[s] = conn[s] /\ Held(s)' = Held(s)
    BY <1>1 DEF poolVars, SessionInv, ConnectionInv, Inserting, Held
  <1>7. ConnectionInv(s)'
    BY <1>1, <1>3, <1>6 DEF SessionInv, ConnectionInv, Reading, Inserting, Clean
  <1>8. CountInv(s)'
    <2>1. received[s] + pending_rows[s] = insert_count[s] /\ received'[s] = received[s]
      BY <1>1 DEF SessionInv, CountInv
    <2>2. /\ received[s] \in Nat /\ pending_rows[s] \in Nat
          /\ insert_count[s] \in Nat /\ chunk[s] \in Nat
      BY DEF StatementTypeOK
    <2>3. received'[s] + pending_rows'[s] = insert_count'[s]
      BY <1>4, <2>1, <2>2
    <2> QED
      BY <1>3, <1>6, <2>3 DEF CountInv
  <1> QED
    BY <1>1, <1>2, <1>3, <1>4, <1>5, <1>7, <1>8, NoQueryFrame

LEMMA FlushStep ==
    ASSUME Inv, NEW s \in Sessions, Flush(s)
    PROVE  StepOK(s)
  <1> USE DEF Inv
  <1>1. /\ pc[s] \in {"flush", "last"}
        /\ pending_rows' = [pending_rows EXCEPT ![s] = 0]
        /\ UNCHANGED <<kind, failed, scanVars, target, insert_count, chunk>>
    BY DEF Flush
  <1> DEFINE next == IF pc[s] = "flush" THEN "sink" ELSE "end"
  <1>2. /\ conn[s] # None /\ Held(s) \in Connection(Sessions)
        /\ Held(s).client = "inserting" /\ ~Held(s).broken /\ Held(s).wire = <<>>
        /\ received[s] + pending_rows[s] = insert_count[s]
    BY <1>1 DEF SessionInv, ConnectionInv, Inserting, CountInv, Held, StatementTypeOK
  <1>3. /\ pending_rows' \in [Sessions -> Nat] /\ pending_rows'[s] = 0
        /\ \A t \in Sessions \ {s} : pending_rows'[t] = pending_rows[t]
    BY <1>1 DEF StatementTypeOK
  <1>4. ASSUME UNCHANGED idle, UNCHANGED conn, conns' \in [Conns -> Connection(Sessions)], PoolInv',
               \A t \in Sessions \ {s} : SameConnection(t),
               received' \in [Sessions -> Nat],
               \A t \in Sessions \ {s} : received'[t] = received[t],
               \/ /\ pc' = [pc EXCEPT ![s] = next] /\ Held(s)' = Held(s)
                  /\ received'[s] = received[s] + pending_rows[s]
               \/ /\ pc' = [pc EXCEPT ![s] = "destroy"]
                  /\ Held(s)'.client # "closed" /\ Held(s)'.broken
        PROVE  StepOK(s)
    <2>1. /\ pc' \in [Sessions -> Locations] /\ \A t \in Sessions \ {s} : pc'[t] = pc[t]
          /\ pc'[s] \in {"sink", "end", "destroy"}
          /\ \/ pc'[s] = "destroy" /\ Held(s)'.client # "closed" /\ Held(s)'.broken
             \/ /\ pc'[s] \in {"sink", "end"} /\ Held(s)' = Held(s)
                /\ received'[s] = received[s] + pending_rows[s]
      BY <1>1, <1>4 DEF StatementTypeOK, Locations
    <2>2. StatementTypeOK'
      BY <1>1, <1>3, <1>4, <2>1 DEF StatementTypeOK, scanVars
    <2>3. ConnectionInv(s)'
      BY <1>2, <1>4, <2>1 DEF ConnectionInv, Reading, Inserting, Clean
    <2>4. CountInv(s)'
      BY <1>1, <1>2, <1>3, <2>1 DEF CountInv, StatementTypeOK
    <2> QED
      BY <1>1, <1>3, <1>4, <2>1, <2>2, <2>3, <2>4, NoQueryFrame
  <1>5. CASE pending_rows[s] = 0
    <2>1. pc' = [pc EXCEPT ![s] = next] /\ UNCHANGED <<poolVars, received>>
      BY <1>1, <1>5 DEF Flush, Goto
    <2>2. PoolInv' /\ \A t \in Sessions : SameConnection(t)
      BY <2>1, PoolFrame
    <2>3. received[s] = received[s] + pending_rows[s]
      BY <1>5 DEF StatementTypeOK
    <2> QED
      BY <1>4, <2>1, <2>2, <2>3 DEF poolVars, Held, StatementTypeOK
  <1>6. CASE pending_rows[s] # 0
    <2>1. PICK o \in SendInsertBlock(Held(s)) :
             /\ Update(s, o.conn)
             /\ IF o.result = "ok"
                  THEN /\ pc' = [pc EXCEPT ![s] = next]
                       /\ received' = [received EXCEPT ![s] = @ + pending_rows[s]]
                  ELSE pc' = [pc EXCEPT ![s] = "destroy"] /\ UNCHANGED received
      BY <1>6 DEF Flush, Goto, Held
    <2>2. /\ o.conn \in Connection(Sessions)
          /\ IF o.result = "ok" THEN o.conn = Held(s)
             ELSE o.conn.client # "closed" /\ o.conn.broken
      <3>1. CASE o \in NetworkError(Held(s), "inserting")
        BY <1>2, <3>1, NetworkErrorOutcome DEF ClientStates
      <3>2. CASE o = Outcome(Held(s), "ok")
        BY <1>2, <3>2 DEF Outcome
      <3> QED
        BY <3>1, <3>2 DEF SendInsertBlock
    <2>3. /\ conns' \in [Conns -> Connection(Sessions)] /\ UNCHANGED <<idle, conn>>
          /\ Held(s)' = o.conn /\ PoolInv'
          /\ \A t \in Sessions \ {s} : SameConnection(t)
      BY <1>2, <2>1, <2>2, UpdateFacts
    <2>4. /\ received' \in [Sessions -> Nat]
          /\ \A t \in Sessions \ {s} : received'[t] = received[t]
          /\ o.result = "ok" => received'[s] = received[s] + pending_rows[s]
      <3>1. received \in [Sessions -> Nat] /\ pending_rows[s] \in Nat
        BY DEF StatementTypeOK
      <3>2. CASE o.result = "ok"
        BY <2>1, <3>1, <3>2
      <3> QED
        BY <2>1, <3>1, <3>2
    <2> QED
      BY <1>4, <2>1, <2>2, <2>3, <2>4
  <1> QED
    BY <1>5, <1>6 DEF StatementTypeOK

LEMMA FinishInsertStep ==
    ASSUME Inv, NEW s \in Sessions, FinishInsert(s)
    PROVE  StepOK(s)
  <1> USE DEF Inv
  <1>1. PICK o \in EndInsert(Held(s)) :
           IF o.result = "ok" THEN Goto(s, "end", "report") /\ Release(s, o.conn)
                              ELSE Goto(s, "end", "destroy") /\ Update(s, o.conn)
    BY DEF FinishInsert, Held
  <1>2. /\ pc[s] = "end" /\ UNCHANGED <<kind, failed, scanVars, insertVars>>
        /\ conn[s] # None /\ Held(s) \in Connection(Sessions) /\ Held(s).wire = <<>>
    BY DEF FinishInsert, SessionInv, ConnectionInv, Inserting, Held, StatementTypeOK
  <1>3. CASE o = Outcome([Held(s) EXCEPT !.client = "idle"], "ok")
    <2>1. o.result = "ok" /\ o.conn = [Held(s) EXCEPT !.client = "idle"]
      BY <1>3 DEF Outcome
    <2>2. o.conn \in Connection(Sessions) /\ Clean(o.conn)
      BY <1>2, <2>1 DEF Connection, ClientStates, Clean
    <2>3. /\ conns' \in [Conns -> Connection(Sessions)] /\ idle' \in SUBSET Conns
          /\ conn' \in [Sessions -> Conns \cup {None}] /\ conn'[s] = None /\ PoolInv'
          /\ \A t \in Sessions \ {s} : SameConnection(t)
      BY <1>1, <1>2, <2>1, <2>2, ReleaseFacts
    <2>4. /\ pc' \in [Sessions -> Locations] /\ \A t \in Sessions \ {s} : pc'[t] = pc[t]
          /\ pc'[s] = "report"
      BY <1>1, <2>1 DEF Goto, StatementTypeOK, Locations
    <2>5. StatementTypeOK'
      BY <1>2, <2>3, <2>4 DEF StatementTypeOK, scanVars, insertVars
    <2>6. ConnectionInv(s)'
      BY <2>3, <2>4 DEF ConnectionInv, Reading, Inserting
    <2>7. CountInv(s)'
      BY <1>2, <2>4 DEF SessionInv, CountInv, insertVars
    <2> QED
      BY <1>2, <2>3, <2>4, <2>5, <2>6, <2>7, NoQueryFrame DEF insertVars
  <1>4. CASE o \in NetworkError(Held(s), "inserting")
    <2>1. /\ o.conn \in Connection(Sessions) /\ o.conn.client # "closed"
          /\ o.conn.broken /\ o.result = "threw"
      BY <1>2, <1>4, NetworkErrorOutcome DEF ClientStates
    <2>2. /\ conns' \in [Conns -> Connection(Sessions)] /\ UNCHANGED <<idle, conn>>
          /\ Held(s)' = o.conn /\ PoolInv'
          /\ \A t \in Sessions \ {s} : SameConnection(t)
      BY <1>1, <1>2, <2>1, UpdateFacts
    <2>3. /\ pc' \in [Sessions -> Locations] /\ \A t \in Sessions \ {s} : pc'[t] = pc[t]
          /\ pc'[s] = "destroy"
      BY <1>1, <2>1 DEF Goto, StatementTypeOK, Locations
    <2>4. StatementTypeOK'
      BY <1>2, <2>2, <2>3 DEF StatementTypeOK, scanVars, insertVars
    <2>5. ConnectionInv(s)'
      BY <1>2, <2>1, <2>2, <2>3 DEF ConnectionInv, Reading, Inserting, Clean
    <2>6. CountInv(s)'
      BY <2>3 DEF CountInv
    <2> QED
      BY <1>2, <2>2, <2>3, <2>4, <2>5, <2>6, NoQueryFrame DEF insertVars
  <1> QED
    BY <1>3, <1>4 DEF EndInsert

\* The end of a statement whose connection is gone.
LEMMA FinishFacts ==
    ASSUME Inv, NEW s \in Sessions, NEW from \in {"report", "destroy"}, Finish(s, from),
           conns' \in [Conns -> Connection(Sessions)], idle' \in SUBSET Conns,
           conn' \in [Sessions -> Conns \cup {None}], conn'[s] = None, PoolInv',
           \A t \in Sessions \ {s} : SameConnection(t)
    PROVE  StepOK(s)
  <1> USE DEF Inv
  <1>1. /\ pc[s] = from /\ pc' \in [Sessions -> Locations] /\ kind' \in [Sessions -> Kinds]
        /\ answer' \in [Sessions -> Answers \cup {<<>>}]
        /\ fetched' \in [Sessions -> Seq(Packets(Sessions))]
        /\ target' \in [Sessions -> {"unknown", "ready", "skip"}]
    BY DEF Finish, Goto, StatementTypeOK, Locations, Kinds
  <1>2. /\ failed' \in [Sessions -> BOOLEAN] /\ finished' \in [Sessions -> BOOLEAN]
        /\ worker' \in [Sessions -> [Workers -> WorkerLocations]]
    BY DEF Finish, StatementTypeOK, WorkerLocations
  <1>3. /\ pending_rows' \in [Sessions -> Nat] /\ insert_count' \in [Sessions -> Nat]
        /\ chunk' \in [Sessions -> Nat] /\ received' \in [Sessions -> Nat]
    BY DEF Finish, StatementTypeOK
  <1>4. StatementTypeOK'
    BY <1>1, <1>2, <1>3 DEF StatementTypeOK, Finish
  <1>5. \A t \in Sessions \ {s} : SameSession(t)
    BY DEF SameSession, Finish, Goto, StatementTypeOK
  <1>6. /\ pc'[s] = "idle" /\ fetched'[s] = <<>> /\ finished'[s] = FALSE
        /\ \A w \in Workers : worker'[s][w] = "out"
        /\ pending_rows'[s] = 0 /\ insert_count'[s] = 0 /\ received'[s] = 0
    BY DEF Finish, Goto, StatementTypeOK
  <1>7. lock'[s] = None
    BY <1>1 DEF Finish, SessionInv, ScanInv
  <1>8. ConnectionInv(s)' /\ CountInv(s)'
    BY <1>6 DEF ConnectionInv, CountInv, Reading, Inserting
  <1>9. ScanInv(s)'
    BY <1>6, <1>7, NoneAssumption DEF ScanInv
  <1>10. OrderInv(s)'
    BY <1>6 DEF OrderInv, Reading
  <1> QED
    BY <1>4, <1>5, <1>8, <1>9, <1>10 DEF StepOK, SessionInv

LEMMA ReportStep ==
    ASSUME Inv, NEW s \in Sessions, Report(s)
    PROVE  StepOK(s)
  <1>1. conn[s] = None /\ UNCHANGED poolVars /\ Finish(s, "report")
    BY DEF Report, Finish, Goto, Inv, SessionInv, ConnectionInv
  <1> QED
    BY <1>1, PoolFrame, FinishFacts DEF Inv, StatementTypeOK, poolVars

LEMMA DestroyStep ==
    ASSUME Inv, NEW s \in Sessions, Destroy(s)
    PROVE  StepOK(s)
  <1> USE DEF Inv
  <1>1. Finish(s, "destroy")
    BY DEF Destroy
  <1>2. CASE conn[s] = None /\ UNCHANGED poolVars
    BY <1>1, <1>2, PoolFrame, FinishFacts DEF StatementTypeOK, poolVars
  <1>3. ASSUME conn[s] # None
        PROVE  Held(s) \in Connection(Sessions) /\ Clean(Held(s)) /\ Held(s).client # "closed"
    BY <1>3 DEF SessionInv, ConnectionInv, Held, StatementTypeOK
  <1>4. ASSUME conn[s] # None, NEW d \in Cancel(Held(s)), Release(s, d)
        PROVE  StepOK(s)
    BY <1>1, <1>3, <1>4, CancelOutcome, ReleaseFacts, FinishFacts
  <1>5. CASE conn[s] # None /\ Release(s, Held(s))
    BY <1>1, <1>3, <1>5, ReleaseFacts, FinishFacts
  <1>6. CASE conn[s] # None /\ Abandon(s)
    BY <1>1, <1>6, AbandonFacts, FinishFacts
  <1> QED
    BY <1>2, <1>4, <1>5, <1>6 DEF Destroy, Held

\* A session outside of a scan has no worker at a block.
LEMMA NoWorker ==
    ASSUME NEW s \in Sessions, ScanInv(s), pc[s] # "scanning"
    PROVE  lock[s] = None /\ \A w \in Workers : worker[s][w] \notin {"next", "got"}
  BY NoneAssumption DEF ScanInv

LEMMA BeginStep ==
    ASSUME Inv, NEW s \in Sessions, Begin(s)
    PROVE  StepOK(s)
  <1> USE DEF Inv
  <1>0. PICK a \in Answers : \E o \in BeginQuery(Held(s), PacketsOf(s, a)) :
           /\ Update(s, o.conn)
           /\ IF o.result = "ok"
                THEN /\ Goto(s, "begin", IF kind[s] = "scan" THEN "scanning" ELSE "reading")
                     /\ answer' = [answer EXCEPT ![s] = a]
                ELSE Goto(s, "begin", "destroy") /\ UNCHANGED answer
    BY DEF Begin, Held
  <1>1. PICK o \in BeginQuery(Held(s), PacketsOf(s, a)) : <1>0!(a)!(o)
    BY <1>0
  <1>2. /\ pc[s] = "begin" /\ conn[s] # None /\ Held(s) = Opened /\ kind[s] # "insert"
        /\ UNCHANGED <<kind, failed, fetched, finished, lock, worker, block, insertVars>>
    BY DEF Begin, SessionInv, ConnectionInv
  <1>3. /\ PacketsOf(s, a) \in Seq(Packets(Sessions))
        /\ Len(PacketsOf(s, a)) = Len(a) /\ Len(a) \in Nat \ {0}
    BY PacketsOfType
  <1>4. /\ o.conn \in Connection(Sessions) /\ o.conn.client # "closed" /\ Clean(o.conn)
        /\ o.result = "ok" => /\ o.conn.client = "selecting" /\ ~o.conn.broken
                              /\ o.conn.wire = PacketsOf(s, a)
    <2>1. CASE o = Outcome([Opened EXCEPT !.client = "selecting", !.wire = @ \o PacketsOf(s, a)], "ok")
      <3>1. o.conn = [client |-> "selecting", broken |-> FALSE, wire |-> <<>> \o PacketsOf(s, a)]
        BY <2>1 DEF Outcome, Opened
      <3>2. <<>> \o PacketsOf(s, a) = PacketsOf(s, a)
        BY <1>3, ConcatEmptySeq
      <3>3. o.conn.client = "selecting" /\ ~o.conn.broken /\ o.conn.wire = PacketsOf(s, a)
        BY <3>1, <3>2
      <3>4. o.conn \in Connection(Sessions)
        BY <1>3, <3>1, <3>2 DEF Connection, ClientStates
      <3> QED
        BY <3>3, <3>4 DEF Clean
    <2>2. CASE o = Outcome(Opened, "threw")
      BY <2>2, ConnectionTypes DEF Outcome, Opened, Clean
    <2>3. CASE o \in NetworkError(Opened, "selecting")
      BY <2>3, ConnectionTypes, NetworkErrorOutcome DEF ClientStates, Clean
    <2> QED
      BY <1>2, <2>1, <2>2, <2>3 DEF BeginQuery
  <1>5. /\ conns' \in [Conns -> Connection(Sessions)] /\ UNCHANGED <<idle, conn>>
        /\ Held(s)' = o.conn /\ PoolInv'
        /\ \A t \in Sessions \ {s} : SameConnection(t)
    BY <1>1, <1>2, <1>4, UpdateFacts
  <1>6. /\ pc' \in [Sessions -> Locations] /\ answer' \in [Sessions -> Answers \cup {<<>>}]
        /\ \A t \in Sessions \ {s} : pc'[t] = pc[t] /\ answer'[t] = answer[t]
        /\ \/ pc'[s] = "destroy" /\ answer'[s] = answer[s]
           \/ /\ pc'[s] \in {"scanning", "reading"} /\ answer'[s] = a /\ o.result = "ok"
              /\ pc'[s] = "reading" => kind[s] # "scan"
    <2>1. /\ pc \in [Sessions -> Locations] /\ answer \in [Sessions -> Answers \cup {<<>>}]
          /\ {"scanning", "reading", "destroy"} \subseteq Locations
      BY DEF StatementTypeOK, Locations
    <2>2. CASE o.result = "ok"
      BY <1>1, <2>1, <2>2 DEF Goto
    <2>3. CASE o.result # "ok"
      BY <1>1, <2>1, <2>3 DEF Goto
    <2> QED
      BY <2>2, <2>3
  <1>7. StatementTypeOK'
    BY <1>2, <1>5, <1>6 DEF StatementTypeOK, insertVars
  <1>8. \A t \in Sessions \ {s} : SameSession(t)
    BY <1>2, <1>5, <1>6 DEF SameSession, insertVars
  <1>9. ~finished[s] /\ fetched[s] = <<>> /\ finished'[s] = finished[s] /\ fetched'[s] = fetched[s]
    BY <1>2, NothingFetched DEF SessionInv, ScanInv
  <1>10. lock'[s] = None /\ \A w \in Workers : worker'[s][w] \notin {"next", "got"}
    BY <1>2, NoWorker DEF SessionInv
  <1>11. ConnectionInv(s)'
    <2>1. pc'[s] = "reading" => kind'[s] \in {"query", "execute"}
      BY <1>2, <1>6 DEF StatementTypeOK, Kinds
    <2> QED
      BY <1>2, <1>4, <1>5, <1>6, <2>1 DEF ConnectionInv, Reading, Inserting
  <1>12. ScanInv(s)'
    BY <1>2, <1>5, <1>6, <1>9, <1>10, NoneAssumption DEF ScanInv
  <1>13. CountInv(s)'
    BY <1>2, <1>6 DEF SessionInv, CountInv, insertVars
  <1>14. OrderInv(s)'
    <2>1. CASE pc'[s] = "destroy"
      BY <1>9, <1>10, <2>1 DEF OrderInv, Reading
    <2>2. CASE pc'[s] \in {"scanning", "reading"}
      <3>1. answer'[s] = a /\ Held(s)'.wire = PacketsOf(s, a) /\ Position(s)' = 0
        BY <1>3, <1>4, <1>5, <1>6, <2>2 DEF Position
      <3>2. InHand(s)' = 0
        BY <1>10 DEF InHand
      <3>3. Cardinality(RowBlocks(s, 0)') = 0
        BY FS_EmptySet DEF RowBlocks
      <3>4. Len(fetched'[s]) + InHand(s)' = Cardinality(RowBlocks(s, Position(s)))'
        BY <1>9, <3>1, <3>2, <3>3, EmptySeq
      <3>5. /\ Len(Held(s)'.wire) \in 1 .. Len(answer'[s])
            /\ \A i \in 1 .. Len(Held(s)'.wire) :
                  Held(s)'.wire[i] = PacketsOf(s, answer'[s])[Position(s)' + i]
        BY <1>3, <3>1
      <3> QED
        BY <1>9, <1>10, <2>2, <3>1, <3>4, <3>5 DEF OrderInv
    <2> QED
      BY <1>6, <2>1, <2>2
  <1> QED
    BY <1>5, <1>7, <1>8, <1>11, <1>12, <1>13, <1>14 DEF StepOK, SessionInv

\* The client has taken a block from the wire, with or without rows.
LEMMA AfterBlock ==
    ASSUME StatementTypeOK, NEW s \in Sessions, ConnectionInv(s), OrderInv(s), Reading(s),
           NEW c \in Connection(Sessions), c.wire = Tail(Held(s).wire),
           Head(Held(s).wire).kind \in {"rows", "empty"},
           answer'[s] = answer[s], Held(s)' = c
    PROVE  /\ Position(s)' = Position(s) + 1 /\ Position(s)' \in DOMAIN answer[s]
           /\ Len(c.wire) \in 1 .. Len(answer[s])
           /\ \A i \in 1 .. Len(c.wire) : c.wire[i] = PacketsOf(s, answer[s])[Position(s)' + i]
           /\ Head(Held(s).wire) = PacketsOf(s, answer[s])[Position(s)']
           /\ Head(Held(s).wire).kind = answer[s][Position(s)']
           /\ Head(Held(s).wire) \in Packets(Sessions)
           /\ Cardinality(RowBlocks(s, Position(s)))' =
                 Cardinality(RowBlocks(s, Position(s))) +
                    IF Head(Held(s).wire).kind = "rows" THEN 1 ELSE 0
  <1> DEFINE w == Held(s).wire
             n == Position(s)
  <1>1. /\ Held(s) \in Connection(Sessions)
        /\ answer[s] \in Answers /\ Len(answer[s]) \in Nat
        /\ n \in Nat /\ n + 1 \in 1 .. Len(answer[s]) /\ w # <<>>
        /\ Head(w) = PacketsOf(s, answer[s])[n + 1] /\ Head(w).kind = answer[s][n + 1]
        /\ Len(Tail(w)) = Len(w) - 1
        /\ \A i \in 1 .. Len(Tail(w)) : Tail(w)[i] = PacketsOf(s, answer[s])[n + 1 + i]
        /\ Len(Tail(w)) \in 1 .. Len(answer[s])
    BY ReadingFacts
  <1>2. w \in Seq(Packets(Sessions)) /\ Len(w) \in Nat
    BY <1>1, LenProperties DEF Connection
  <1>3. DOMAIN answer[s] = 1 .. Len(answer[s])
    BY <1>1, AnswersAssumption
  <1>4. Position(s)' = n + 1
    <2>1. Position(s)' = Len(answer[s]) - Len(Tail(w)) /\ n = Len(answer[s]) - Len(w)
      BY DEF Position
    <2> HIDE DEF w, n
    <2> QED
      BY <1>1, <1>2, <2>1
  <1>5. Head(w) \in Packets(Sessions)
    BY <1>1, <1>2, HeadTailProperties
  <1>6. RowBlocks(s, Position(s))' = RowBlocks(s, n + 1)
    BY <1>4 DEF RowBlocks
  <1>7. Cardinality(RowBlocks(s, Position(s)))' =
           Cardinality(RowBlocks(s, n)) + IF answer[s][n + 1] = "rows" THEN 1 ELSE 0
    BY <1>1, <1>6, RowBlocksCount
  <1> QED
    BY <1>1, <1>3, <1>4, <1>5, <1>7

\* The end of a query, or an exception: nothing is left of it on a connection
\* that still works, and the end is the end of the answer.
LEMMA AfterEnd ==
    ASSUME StatementTypeOK, NEW s \in Sessions, ConnectionInv(s), OrderInv(s), Reading(s),
           NEW o \in NextBlock(Held(s)), o.result \in {"end", "threw"}
    PROVE  /\ conn[s] # None
           /\ o.conn \in Connection(Sessions) /\ o.conn.client # "closed" /\ Clean(o.conn)
           /\ o.result = "end" =>
                 Cardinality(RowBlocks(s, Position(s))) =
                    Cardinality(RowBlocks(s, Len(answer[s])))
  <1>1. /\ conn[s] # None /\ Held(s) \in Connection(Sessions)
        /\ Held(s).client = "selecting" /\ ~Held(s).broken
        /\ Position(s) \in Nat /\ Head(Held(s).wire).kind = answer[s][Position(s) + 1]
        /\ Head(Held(s).wire).kind \notin {"rows", "empty"} =>
              Tail(Held(s).wire) = <<>> /\ Position(s) + 1 = Len(answer[s])
    BY ReadingFacts
  <1>2. /\ o.conn \in Connection(Sessions) /\ o.conn.client # "closed"
        /\ \/ o.result = "end" /\ Head(Held(s).wire).kind = "end"
              /\ o.conn.wire = Tail(Held(s).wire)
           \/ /\ o.result = "threw"
              /\ \/ o.conn.broken
                 \/ /\ Head(Held(s).wire).kind \notin {"rows", "empty"}
                    /\ o.conn.wire = Tail(Held(s).wire)
    BY <1>1, NextBlockOutcome
  <1>3. Clean(o.conn)
    BY <1>1, <1>2 DEF Clean
  <1>4. ASSUME o.result = "end"
        PROVE  Cardinality(RowBlocks(s, Position(s))) = Cardinality(RowBlocks(s, Len(answer[s])))
    <2>1. Position(s) + 1 = Len(answer[s]) /\ answer[s][Position(s) + 1] # "rows"
      BY <1>1, <1>2, <1>4
    <2>2. Cardinality(RowBlocks(s, Position(s) + 1)) = Cardinality(RowBlocks(s, Position(s))) + 0
      BY <1>1, <2>1, RowBlocksCount
    <2>3. Cardinality(RowBlocks(s, Position(s))) \in Nat
      BY <1>1, RowBlocksCount
    <2> QED
      BY <2>1, <2>2, <2>3
  <1> QED
    BY <1>1, <1>2, <1>3, <1>4

\* One more block at the end of those that were taken.
LEMMA OneMoreBlock ==
    ASSUME NEW s \in Sessions, NEW old \in Seq(Packets(Sessions)), NEW p \in Packets(Sessions),
           NEW n \in DOMAIN answer[s], p = PacketsOf(s, answer[s])[n], answer[s][n] = "rows",
           Cardinality(RowBlocks(s, n)) = Len(old) + 1,
           \A i \in DOMAIN old : \E m \in DOMAIN answer[s] :
              /\ old[i] = PacketsOf(s, answer[s])[m]
              /\ answer[s][m] = "rows" /\ Cardinality(RowBlocks(s, m)) = i
    PROVE  /\ Append(old, p) \in Seq(Packets(Sessions)) /\ Len(Append(old, p)) = Len(old) + 1
           /\ \A i \in DOMAIN Append(old, p) : \E m \in DOMAIN answer[s] :
                 /\ Append(old, p)[i] = PacketsOf(s, answer[s])[m]
                 /\ answer[s][m] = "rows" /\ Cardinality(RowBlocks(s, m)) = i
  <1>1. /\ Append(old, p) \in Seq(Packets(Sessions)) /\ Len(Append(old, p)) = Len(old) + 1
        /\ \A i \in 1 .. Len(old) : Append(old, p)[i] = old[i]
        /\ Append(old, p)[Len(old) + 1] = p
    BY AppendProperties
  <1>2. /\ DOMAIN Append(old, p) = 1 .. Len(old) + 1 /\ DOMAIN old = 1 .. Len(old)
        /\ Len(old) \in Nat
    BY <1>1, LenProperties
  <1> SUFFICES ASSUME NEW i \in DOMAIN Append(old, p)
               PROVE  \E m \in DOMAIN answer[s] :
                         /\ Append(old, p)[i] = PacketsOf(s, answer[s])[m]
                         /\ answer[s][m] = "rows" /\ Cardinality(RowBlocks(s, m)) = i
    BY <1>1
  <1>3. CASE i \in DOMAIN old
    BY <1>1, <1>2, <1>3
  <1>4. CASE i = Len(old) + 1
    BY <1>1, <1>4
  <1> QED
    BY <1>2, <1>3, <1>4

LEMMA ReadStep ==
    ASSUME Inv, NEW s \in Sessions, Read(s)
    PROVE  StepOK(s)
  <1> USE DEF Inv
  <1>1. /\ pc[s] = "reading" /\ Reading(s) /\ kind[s] \in {"query", "execute"}
        /\ UNCHANGED <<kind, failed, answer, finished, lock, worker, block, insertVars>>
    BY DEF Read, Reading, SessionInv, ConnectionInv
  <1>2. /\ conn[s] # None /\ Held(s) \in Connection(Sessions)
        /\ Held(s).client = "selecting" /\ ~Held(s).broken
    BY <1>1, ReadingFacts DEF SessionInv
  <1>3. PICK o \in NextBlock(Held(s)) :
         CASE o.result = "rows" /\ kind[s] = "query" ->
                /\ Update(s, o.conn)
                /\ fetched' = [fetched EXCEPT ![s] = Append(@, Head(Held(s).wire))]
                /\ UNCHANGED pc
           [] o.result = "rows" /\ kind[s] = "execute" ->
                /\ \E d \in Cancel(o.conn) : Update(s, d)
                /\ Goto(s, "reading", "destroy")
                /\ UNCHANGED fetched
           [] o.result = "empty" ->
                Update(s, o.conn) /\ UNCHANGED <<pc, fetched>>
           [] o.result \in {"end", "threw"} ->
                Update(s, o.conn) /\ Goto(s, "reading", "destroy") /\ UNCHANGED fetched
    BY DEF Read, Held
  <1>4. /\ o.conn \in Connection(Sessions) /\ o.conn.client # "closed"
        /\ o.result \in {"rows", "empty", "end", "threw"}
        /\ o.result \in {"rows", "empty"} =>
              /\ o.result = Head(Held(s).wire).kind
              /\ o.conn.client = "selecting" /\ ~o.conn.broken
              /\ o.conn.wire = Tail(Held(s).wire)
    BY <1>2, NextBlockOutcome
  <1>5. ~finished[s] /\ lock[s] = None /\ InHand(s) = 0 /\ InHand(s)' = 0
        /\ \A w \in Workers : worker[s][w] # "got" /\ worker'[s][w] # "got"
    BY <1>1, NoWorker DEF InHand, SessionInv, ScanInv
  <1>6. ASSUME NEW c \in Connection(Sessions), Update(s, c), c.client # "closed", Clean(c),
               Goto(s, "reading", "destroy"), UNCHANGED fetched
        PROVE  StepOK(s)
    <2>1. /\ conns' \in [Conns -> Connection(Sessions)] /\ UNCHANGED <<idle, conn>>
          /\ Held(s)' = c /\ PoolInv' /\ \A t \in Sessions \ {s} : SameConnection(t)
      BY <1>2, <1>6, UpdateFacts
    <2>2. /\ pc' \in [Sessions -> Locations] /\ pc'[s] = "destroy"
          /\ \A t \in Sessions \ {s} : pc'[t] = pc[t]
      BY <1>6 DEF Goto, StatementTypeOK, Locations
    <2>3. StatementTypeOK'
      BY <1>1, <1>6, <2>1, <2>2 DEF StatementTypeOK, insertVars
    <2>4. \A t \in Sessions \ {s} : SameSession(t)
      BY <1>1, <1>6, <2>1, <2>2 DEF SameSession, insertVars
    <2>5. ConnectionInv(s)' /\ ~Reading(s)'
      BY <1>6, <2>1, <2>2 DEF ConnectionInv, Reading, Inserting
    <2>6. ScanInv(s)'
      BY <1>1, <2>2, ScanFrame DEF SessionInv
    <2>7. OrderInv(s)'
      BY <1>1, <1>6, <2>2, <2>5, OrderFrame
    <2>8. CountInv(s)'
      BY <2>2 DEF CountInv
    <2> QED
      BY <2>1, <2>3, <2>4, <2>5, <2>6, <2>7, <2>8 DEF StepOK, SessionInv
  <1>7. CASE o.result \in {"end", "threw"}
    <2>1. Update(s, o.conn) /\ Goto(s, "reading", "destroy") /\ UNCHANGED fetched
      BY <1>3, <1>7
    <2> QED
      BY <1>1, <1>6, <1>7, <2>1, AfterEnd DEF SessionInv
  <1>8. CASE o.result = "rows" /\ kind[s] = "execute"
    <2>1. Goto(s, "reading", "destroy") /\ UNCHANGED fetched /\ \E d \in Cancel(o.conn) : Update(s, d)
      BY <1>3, <1>8
    <2>2. Clean(o.conn)
      BY <1>4, <1>8 DEF Clean
    <2> QED
      BY <1>4, <1>6, <2>1, <2>2, CancelOutcome
  <1>9. CASE o.result = "empty" \/ (o.result = "rows" /\ kind[s] = "query")
    <2>1. /\ Update(s, o.conn) /\ UNCHANGED pc
          /\ IF o.result = "rows"
               THEN fetched' = [fetched EXCEPT ![s] = Append(@, Head(Held(s).wire))]
               ELSE UNCHANGED fetched
      BY <1>3, <1>9
    <2>2. /\ conns' \in [Conns -> Connection(Sessions)] /\ UNCHANGED <<idle, conn>>
          /\ Held(s)' = o.conn /\ PoolInv' /\ \A t \in Sessions \ {s} : SameConnection(t)
      BY <1>2, <1>4, <2>1, UpdateFacts
    <2>3. /\ Position(s)' = Position(s) + 1 /\ Position(s)' \in DOMAIN answer[s]
          /\ Len(o.conn.wire) \in 1 .. Len(answer[s])
          /\ \A i \in 1 .. Len(o.conn.wire) :
                o.conn.wire[i] = PacketsOf(s, answer[s])[Position(s)' + i]
          /\ Head(Held(s).wire) = PacketsOf(s, answer[s])[Position(s)']
          /\ Head(Held(s).wire).kind = answer[s][Position(s)']
          /\ Head(Held(s).wire) \in Packets(Sessions)
          /\ Cardinality(RowBlocks(s, Position(s)))' =
                Cardinality(RowBlocks(s, Position(s))) + IF o.result = "rows" THEN 1 ELSE 0
      BY <1>1, <1>4, <1>9, <2>2, AfterBlock DEF SessionInv
    <2>4. \A n : RowBlocks(s, n)' = RowBlocks(s, n)
      BY <1>1 DEF RowBlocks
    <2>5. /\ fetched[s] \in Seq(Packets(Sessions)) /\ Len(fetched[s]) \in Nat
          /\ Len(fetched[s]) = Cardinality(RowBlocks(s, Position(s)))
          /\ answer[s] \in Answers
      <3>1. fetched[s] \in Seq(Packets(Sessions)) /\ Len(fetched[s]) \in Nat
        BY LenProperties DEF StatementTypeOK
      <3>2. Len(fetched[s]) + 0 = Cardinality(RowBlocks(s, Position(s))) /\ answer[s] \in Answers
        BY <1>1, <1>5 DEF SessionInv, OrderInv
      <3> QED
        BY <3>1, <3>2
    <2>6. /\ fetched' \in [Sessions -> Seq(Packets(Sessions))]
          /\ \A t \in Sessions \ {s} : fetched'[t] = fetched[t]
          /\ Len(fetched'[s]) + 0 = Cardinality(RowBlocks(s, Position(s)))'
          /\ \A i \in DOMAIN fetched'[s] : \E m \in DOMAIN answer[s] :
                /\ fetched'[s][i] = PacketsOf(s, answer[s])[m]
                /\ answer[s][m] = "rows" /\ Cardinality(RowBlocks(s, m)) = i
      <3>0. \A i \in DOMAIN fetched[s] : \E m \in DOMAIN answer[s] :
                /\ fetched[s][i] = PacketsOf(s, answer[s])[m]
                /\ answer[s][m] = "rows" /\ Cardinality(RowBlocks(s, m)) = i
        BY DEF SessionInv, OrderInv
      <3>1. CASE o.result = "rows"
        <4>1. Cardinality(RowBlocks(s, Position(s)')) = Len(fetched[s]) + 1
          BY <2>3, <2>4, <2>5, <3>1
        <4>2. /\ Append(fetched[s], Head(Held(s).wire)) \in Seq(Packets(Sessions))
              /\ Len(Append(fetched[s], Head(Held(s).wire))) = Len(fetched[s]) + 1
              /\ \A i \in DOMAIN Append(fetched[s], Head(Held(s).wire)) : \E m \in DOMAIN answer[s] :
                    /\ Append(fetched[s], Head(Held(s).wire))[i] = PacketsOf(s, answer[s])[m]
                    /\ answer[s][m] = "rows" /\ Cardinality(RowBlocks(s, m)) = i
          <5> DEFINE p == Head(Held(s).wire)
                     n == Position(s)'
          <5>1. /\ p \in Packets(Sessions) /\ n \in DOMAIN answer[s]
                /\ p = PacketsOf(s, answer[s])[n] /\ answer[s][n] = "rows"
            BY <1>4, <2>3, <3>1
          <5> HIDE DEF p, n
          <5>2. Cardinality(RowBlocks(s, n)) = Len(fetched[s]) + 1
            BY <4>1 DEF n
          <5>3. /\ Append(fetched[s], p) \in Seq(Packets(Sessions))
                /\ Len(Append(fetched[s], p)) = Len(fetched[s]) + 1
                /\ \A i \in DOMAIN Append(fetched[s], p) : \E m \in DOMAIN answer[s] :
                      /\ Append(fetched[s], p)[i] = PacketsOf(s, answer[s])[m]
                      /\ answer[s][m] = "rows" /\ Cardinality(RowBlocks(s, m)) = i
            BY <2>5, <3>0, <5>1, <5>2, OneMoreBlock
          <5> QED
            BY <5>3 DEF p
        <4>3. /\ fetched'[s] = Append(fetched[s], Head(Held(s).wire))
              /\ \A t \in Sessions \ {s} : fetched'[t] = fetched[t]
          BY <2>1, <3>1 DEF StatementTypeOK
        <4>4. fetched' \in [Sessions -> Seq(Packets(Sessions))]
          BY <2>1, <3>1, <4>2 DEF StatementTypeOK
        <4> QED
          BY <2>3, <2>5, <3>1, <4>2, <4>3, <4>4
      <3>2. CASE o.result # "rows"
        BY <2>1, <2>3, <2>5, <3>0, <3>2 DEF StatementTypeOK
      <3> QED
        BY <3>1, <3>2
    <2>7. StatementTypeOK'
      BY <1>1, <2>1, <2>2, <2>6 DEF StatementTypeOK, insertVars
    <2>8. \A t \in Sessions \ {s} : SameSession(t)
      BY <1>1, <2>1, <2>2, <2>6 DEF SameSession, insertVars
    <2>9. ConnectionInv(s)'
      BY <1>1, <1>2, <1>4, <1>9, <2>1, <2>2 DEF ConnectionInv, Reading, Inserting, Clean
    <2>10. ScanInv(s)'
      BY <1>1, <2>1, ScanFrame DEF SessionInv
    <2>11. CountInv(s)'
      BY <1>1, <2>1, <2>2 DEF SessionInv, CountInv, insertVars
    <2>12. OrderInv(s)'
      <3>1. answer' = answer /\ pc'[s] = "reading" /\ finished'[s] = finished[s]
        BY <1>1, <2>1
      <3>2. \A n : Cardinality(RowBlocks(s, n))' = Cardinality(RowBlocks(s, n))
        BY <2>4
      <3>3. \A i \in DOMAIN fetched'[s] : \E n \in DOMAIN answer'[s] :
               /\ fetched'[s][i] = PacketsOf(s, answer'[s])[n]
               /\ answer'[s][n] = "rows" /\ Cardinality(RowBlocks(s, n))' = i
        BY <2>6, <3>1, <3>2
      <3>4. /\ Len(Held(s)'.wire) \in 1 .. Len(answer'[s])
            /\ \A i \in 1 .. Len(Held(s)'.wire) :
                  Held(s)'.wire[i] = PacketsOf(s, answer'[s])[Position(s)' + i]
        BY <2>2, <2>3, <3>1
      <3>5. answer'[s] \in Answers /\ Len(fetched'[s]) + InHand(s)' =
                                        Cardinality(RowBlocks(s, Position(s)))'
        BY <1>5, <2>5, <2>6, <3>1
      <3> QED
        BY <1>5, <3>1, <3>3, <3>4, <3>5 DEF OrderInv
    <2> QED
      BY <2>2, <2>7, <2>8, <2>9, <2>10, <2>11, <2>12 DEF StepOK, SessionInv
  <1> QED
    BY <1>1, <1>4, <1>7, <1>8, <1>9

-----------------------------------------------------------------------------
(* The workers of a scan.                                                  *)

LEMMA SetWorkerFacts ==
    ASSUME StatementTypeOK, NEW s \in Sessions, NEW w \in Workers, NEW from,
           NEW to \in WorkerLocations, SetWorker(s, w, from, to)
    PROVE  /\ worker[s][w] = from /\ worker' \in [Sessions -> [Workers -> WorkerLocations]]
           /\ \A v \in Workers : worker'[s][v] = IF v = w THEN to ELSE worker[s][v]
           /\ \A t \in Sessions \ {s} : worker'[t] = worker[t]
  BY DEF SetWorker, StatementTypeOK

LEMMA StopScanStep ==
    ASSUME Inv, NEW s \in Sessions, StopScan(s)
    PROVE  StepOK(s)
  <1> USE DEF Inv
  <1>1. /\ pc[s] = "scanning" /\ pc' \in [Sessions -> Locations] /\ pc'[s] = "destroy"
        /\ \A t \in Sessions \ {s} : pc'[t] = pc[t]
        /\ \A w \in Workers : worker[s][w] \notin {"next", "got"}
        /\ UNCHANGED <<poolVars, kind, failed, scanVars, insertVars>>
    BY DEF StopScan, Goto, StatementTypeOK, Locations
  <1>2. StatementTypeOK'
    BY <1>1 DEF StatementTypeOK, poolVars, scanVars, insertVars
  <1>3. PoolInv' /\ \A t \in Sessions : SameConnection(t)
    BY <1>1, PoolFrame
  <1>4. \A t \in Sessions \ {s} : SameSession(t)
    BY <1>1, <1>3 DEF SameSession, scanVars, insertVars
  <1>5. ConnectionInv(s)' /\ ~Reading(s)'
    BY <1>1, <1>3 DEF SessionInv, ConnectionInv, Reading, Inserting, SameConnection, Held
  <1>6. ScanInv(s)'
    <2>1. lock[s] = None
      BY <1>1 DEF SessionInv, ScanInv, StatementTypeOK
    <2> QED
      BY <1>1, <2>1, NoneAssumption DEF ScanInv, scanVars
  <1>7. OrderInv(s)'
    BY <1>1, <1>3, <1>5, OrderFrame DEF scanVars
  <1>8. CountInv(s)'
    BY <1>1 DEF CountInv
  <1> QED
    BY <1>2, <1>3, <1>4, <1>5, <1>6, <1>7, <1>8 DEF StepOK, SessionInv

\* A worker takes the lock, sees the end, or fails with its block.
LEMMA LockWorkerStep ==
    ASSUME Inv, NEW s \in Sessions, NEW w \in Workers,
           FetchNextBlock(s, w) \/ SeeFinished(s, w) \/ ConversionFails(s, w)
    PROVE  StepOK(s)
  <1> USE DEF Inv
  <1>1. /\ UNCHANGED <<poolVars, pc, kind, answer, fetched, finished, block, insertVars>>
        /\ \E from \in {"out", "next"}, to \in {"next", "over"} : SetWorker(s, w, from, to)
    BY DEF FetchNextBlock, SeeFinished, ConversionFails
  <1>2. /\ worker' \in [Sessions -> [Workers -> WorkerLocations]]
        /\ \A v \in Workers : v # w => worker'[s][v] = worker[s][v]
        /\ worker[s][w] # "got" /\ worker'[s][w] # "got"
        /\ \A t \in Sessions \ {s} : worker'[t] = worker[t]
    BY <1>1, SetWorkerFacts DEF WorkerLocations
  <1>3. /\ lock' \in [Sessions -> Workers \cup {None}]
        /\ \A t \in Sessions \ {s} : lock'[t] = lock[t]
    BY DEF FetchNextBlock, SeeFinished, ConversionFails, StatementTypeOK
  <1>4. /\ failed' \in [Sessions -> BOOLEAN]
        /\ ~failed'[s] => ~failed[s]
        /\ \A t \in Sessions \ {s} : failed'[t] = failed[t]
    <2>1. CASE UNCHANGED failed
      BY <2>1 DEF StatementTypeOK
    <2>2. CASE failed' = [failed EXCEPT ![s] = TRUE]
      BY <2>2 DEF StatementTypeOK
    <2> QED
      BY <2>1, <2>2 DEF FetchNextBlock, SeeFinished, ConversionFails
  <1>5. StatementTypeOK'
    BY <1>1, <1>2, <1>3, <1>4 DEF StatementTypeOK, poolVars, insertVars
  <1>6. PoolInv' /\ \A t \in Sessions : SameConnection(t)
    BY <1>1, PoolFrame
  <1>7. \A t \in Sessions \ {s} : SameSession(t)
    BY <1>1, <1>2, <1>3, <1>4, <1>6 DEF SameSession, insertVars
  <1>8. Reading(s)' = Reading(s)
    BY <1>1 DEF Reading
  <1>9. ConnectionInv(s)'
    BY <1>1, <1>6, <1>8 DEF SessionInv, ConnectionInv, Inserting, SameConnection, Held
  <1>10. ScanInv(s)'
    <2>1. CASE FetchNextBlock(s, w)
      <3>1. /\ pc[s] = "scanning" /\ lock[s] = None /\ lock'[s] = w /\ worker'[s][w] = "next"
        BY <2>1, SetWorkerFacts DEF FetchNextBlock, StatementTypeOK, WorkerLocations
      <3> QED
        BY <1>1, <1>2, <3>1, NoneAssumption DEF SessionInv, ScanInv, poolVars
    <2>2. CASE SeeFinished(s, w)
      <3>1. /\ worker[s][w] = "next" /\ lock'[s] = None /\ worker'[s][w] = "over"
        BY <2>2, SetWorkerFacts DEF SeeFinished, StatementTypeOK, WorkerLocations
      <3> QED
        BY <1>1, <1>2, <3>1, NoneAssumption DEF SessionInv, ScanInv, poolVars
    <2>3. CASE ConversionFails(s, w)
      <3>1. /\ worker[s][w] = "out" /\ lock'[s] = lock[s] /\ worker'[s][w] = "over"
        BY <2>3, SetWorkerFacts DEF ConversionFails, StatementTypeOK, WorkerLocations
      <3> QED
        BY <1>1, <1>2, <3>1, NoneAssumption DEF SessionInv, ScanInv, poolVars
    <2> QED
      BY <2>1, <2>2, <2>3
  <1>11. fetched[s] = <<>> \/ pc'[s] \in {"scanning", "reading", "destroy"}
    BY <1>1 DEF SessionInv, OrderInv
  <1>12. OrderInv(s)'
    BY <1>1, <1>2, <1>4, <1>6, <1>8, <1>11, OrderFrame
  <1>13. CountInv(s)'
    BY <1>1 DEF SessionInv, CountInv, insertVars, poolVars
  <1> QED
    BY <1>5, <1>6, <1>7, <1>9, <1>10, <1>12, <1>13 DEF StepOK, SessionInv

\* What the holder of the lock may rely on.
LEMMA HolderFacts ==
    ASSUME Inv, NEW s \in Sessions, NEW w \in Workers, worker[s][w] \in {"next", "got"}
    PROVE  /\ pc[s] = "scanning" /\ lock[s] = w
           /\ \A v \in Workers : v # w => worker[s][v] \notin {"next", "got"}
           /\ InHand(s) = IF worker[s][w] = "got" THEN 1 ELSE 0
  <1>1. /\ pc[s] = "scanning" /\ lock[s] = w
        /\ \A v \in Workers : v # w => worker[s][v] \notin {"next", "got"}
    BY NoneAssumption DEF Inv, SessionInv, ScanInv
  <1> QED
    BY <1>1 DEF InHand

LEMMA FinishScanStep ==
    ASSUME Inv, NEW s \in Sessions, NEW w \in Workers, FinishScan(s, w)
    PROVE  StepOK(s)
  <1> USE DEF Inv
  <1>1. PICK o \in NextBlock(Held(s)) :
           /\ o.result \in {"end", "threw"} /\ Release(s, o.conn)
           /\ failed' = [failed EXCEPT ![s] = @ \/ o.result = "threw"]
    BY DEF FinishScan, Held
  <1>2. /\ ~finished[s] /\ conn[s] # None /\ SetWorker(s, w, "next", "over")
        /\ finished' = [finished EXCEPT ![s] = TRUE] /\ lock' = [lock EXCEPT ![s] = None]
        /\ UNCHANGED <<pc, kind, answer, fetched, block, insertVars>>
    BY DEF FinishScan
  <1>3. /\ worker[s][w] = "next" /\ worker' \in [Sessions -> [Workers -> WorkerLocations]]
        /\ \A v \in Workers : worker'[s][v] = IF v = w THEN "over" ELSE worker[s][v]
        /\ \A t \in Sessions \ {s} : worker'[t] = worker[t]
    BY <1>2, SetWorkerFacts DEF WorkerLocations
  <1>4. /\ pc[s] = "scanning" /\ Reading(s) /\ InHand(s) = 0
        /\ \A v \in Workers : v # w => worker[s][v] \notin {"next", "got"}
    BY <1>2, <1>3, HolderFacts DEF Reading
  <1>5. /\ o.conn \in Connection(Sessions) /\ Clean(o.conn)
        /\ o.result = "end" => Cardinality(RowBlocks(s, Position(s))) =
                                  Cardinality(RowBlocks(s, Len(answer[s])))
    BY <1>1, <1>4, AfterEnd DEF SessionInv
  <1>6. /\ conns' \in [Conns -> Connection(Sessions)] /\ idle' \in SUBSET Conns
        /\ conn' \in [Sessions -> Conns \cup {None}] /\ conn'[s] = None /\ PoolInv'
        /\ \A t \in Sessions \ {s} : SameConnection(t)
    BY <1>1, <1>2, <1>5, ReleaseFacts
  <1>7. /\ finished' \in [Sessions -> BOOLEAN] /\ finished'[s]
        /\ lock' \in [Sessions -> Workers \cup {None}] /\ lock'[s] = None
        /\ \A t \in Sessions \ {s} : finished'[t] = finished[t] /\ lock'[t] = lock[t]
    BY <1>2 DEF StatementTypeOK
  <1>8. /\ failed' \in [Sessions -> BOOLEAN]
        /\ ~failed'[s] => o.result = "end"
        /\ \A t \in Sessions \ {s} : failed'[t] = failed[t]
    <2>1. failed \in [Sessions -> BOOLEAN]
      BY DEF StatementTypeOK
    <2>2. (failed[s] \/ o.result = "threw") \in BOOLEAN
      OBVIOUS
    <2>3. failed'[s] = (failed[s] \/ o.result = "threw")
      BY <1>1, <2>1
    <2> QED
      BY <1>1, <2>1, <2>2, <2>3
  <1>9. StatementTypeOK'
    BY <1>2, <1>3, <1>6, <1>7, <1>8 DEF StatementTypeOK, insertVars
  <1>10. \A t \in Sessions \ {s} : SameSession(t)
    BY <1>2, <1>3, <1>6, <1>7, <1>8 DEF SameSession, insertVars
  <1>11. ConnectionInv(s)' /\ ~Reading(s)'
    BY <1>2, <1>4, <1>6, <1>7 DEF ConnectionInv, Reading, Inserting
  <1>12. ScanInv(s)'
    <2>1. pc'[s] = "scanning" /\ \A v \in Workers : worker'[s][v] \notin {"next", "got"}
      BY <1>2, <1>3, <1>4
    <2>2. \A v \in Workers : lock'[s] # v
      BY <1>7, NoneAssumption
    <2> QED
      BY <1>6, <1>7, <2>1, <2>2 DEF ScanInv
  <1>13. CountInv(s)'
    BY <1>2, <1>4 DEF SessionInv, CountInv, insertVars
  <1>14. OrderInv(s)'
    <2>1. \A n : RowBlocks(s, n)' = RowBlocks(s, n)
      BY <1>2 DEF RowBlocks
    <2>2. ASSUME o.result = "end"
          PROVE  Len(fetched[s]) = Cardinality(RowBlocks(s, Len(answer[s])))
      <3>1. Len(fetched[s]) + 0 = Cardinality(RowBlocks(s, Position(s)))
        BY <1>4 DEF SessionInv, OrderInv
      <3>2. Len(fetched[s]) \in Nat
        BY LenProperties DEF StatementTypeOK
      <3> QED
        BY <1>5, <2>2, <3>1, <3>2
    <2>3. \A v \in Workers : worker'[s][v] # "got"
      BY <1>3, <1>4
    <2>4. /\ answer'[s] = answer[s] /\ fetched'[s] = fetched[s] /\ pc'[s] = "scanning"
          /\ PacketsOf(s, answer[s])' = PacketsOf(s, answer[s])
      BY <1>2, <1>4 DEF PacketsOf
    <2>5. ~failed'[s] => o.result = "end"
      BY <1>8
    <2>6. \A i \in DOMAIN fetched[s] : \E n \in DOMAIN answer[s] :
             /\ fetched[s][i] = PacketsOf(s, answer[s])[n]
             /\ answer[s][n] = "rows" /\ Cardinality(RowBlocks(s, n)) = i
      BY DEF SessionInv, OrderInv
    <2> QED
      BY <1>11, <2>1, <2>2, <2>3, <2>4, <2>5, <2>6 DEF OrderInv
  <1> QED
    BY <1>6, <1>9, <1>10, <1>11, <1>12, <1>13, <1>14 DEF StepOK, SessionInv

\* A worker takes a block from the wire and, when it has rows, has it in hand.
LEMMA TakeBlockStep ==
    ASSUME Inv, NEW s \in Sessions, NEW w \in Workers, TakeBlock(s, w)
    PROVE  StepOK(s)
  <1> USE DEF Inv
  <1> DEFINE p == Head(Held(s).wire)
  <1>1. PICK o \in NextBlock(Held(s)) :
           /\ o.result \in {"rows", "empty"} /\ Update(s, o.conn)
           /\ IF o.result = "rows"
                THEN /\ SetWorker(s, w, "next", "got")
                     /\ block' = [block EXCEPT ![s][w] = <<p>>]
                ELSE UNCHANGED <<worker, block>>
    BY DEF TakeBlock, Held
  <1>2. /\ ~finished[s] /\ worker[s][w] = "next"
        /\ UNCHANGED <<pc, kind, failed, answer, fetched, finished, lock, insertVars>>
    BY DEF TakeBlock
  <1>3. /\ pc[s] = "scanning" /\ Reading(s) /\ lock[s] = w /\ InHand(s) = 0
        /\ \A v \in Workers : v # w => worker[s][v] \notin {"next", "got"}
    BY <1>2, HolderFacts DEF Reading
  <1>4. /\ conn[s] # None /\ Held(s) \in Connection(Sessions)
        /\ Held(s).client = "selecting" /\ ~Held(s).broken
    BY <1>3, ReadingFacts DEF SessionInv
  <1>5. /\ o.conn \in Connection(Sessions) /\ o.result = p.kind
        /\ o.conn.client = "selecting" /\ ~o.conn.broken
        /\ o.conn.wire = Tail(Held(s).wire)
    BY <1>1, <1>4, NextBlockOutcome
  <1>6. /\ conns' \in [Conns -> Connection(Sessions)] /\ UNCHANGED <<idle, conn>>
        /\ Held(s)' = o.conn /\ PoolInv' /\ \A t \in Sessions \ {s} : SameConnection(t)
    BY <1>1, <1>4, <1>5, UpdateFacts
  <1>7. /\ Position(s)' = Position(s) + 1 /\ Position(s)' \in DOMAIN answer[s]
        /\ Len(o.conn.wire) \in 1 .. Len(answer[s])
        /\ \A i \in 1 .. Len(o.conn.wire) :
              o.conn.wire[i] = PacketsOf(s, answer[s])[Position(s)' + i]
        /\ p = PacketsOf(s, answer[s])[Position(s)']
        /\ p.kind = answer[s][Position(s)'] /\ p \in Packets(Sessions)
        /\ Cardinality(RowBlocks(s, Position(s)))' =
              Cardinality(RowBlocks(s, Position(s))) + IF p.kind = "rows" THEN 1 ELSE 0
    BY <1>1, <1>2, <1>3, <1>5, <1>6, AfterBlock DEF SessionInv
  <1> HIDE DEF p
  <1>8. /\ worker' \in [Sessions -> [Workers -> WorkerLocations]]
        /\ worker'[s][w] = IF o.result = "rows" THEN "got" ELSE "next"
        /\ \A v \in Workers : v # w => worker'[s][v] = worker[s][v]
        /\ \A t \in Sessions \ {s} : worker'[t] = worker[t]
    <2>1. CASE o.result = "rows"
      BY <1>1, <2>1, SetWorkerFacts DEF WorkerLocations
    <2>2. CASE o.result # "rows"
      BY <1>1, <1>2, <2>2 DEF StatementTypeOK
    <2> QED
      BY <2>1, <2>2
  <1>9. /\ block' \in [Sessions -> [Workers -> Seq(Packets(Sessions))]]
        /\ o.result = "rows" => block'[s][w] = <<p>>
        /\ \A t \in Sessions \ {s} : block'[t] = block[t]
    <2>1. <<p>> \in Seq(Packets(Sessions))
      BY <1>7
    <2> DEFINE q == <<p>>
    <2> HIDE DEF q
    <2>2. CASE o.result = "rows"
      <3>1. block' = [block EXCEPT ![s][w] = q] /\ q \in Seq(Packets(Sessions))
        BY <1>1, <2>1, <2>2 DEF q
      <3>2. block \in [Sessions -> [Workers -> Seq(Packets(Sessions))]]
        BY DEF StatementTypeOK
      <3> QED
        BY <3>1, <3>2 DEF q
    <2>3. CASE o.result # "rows"
      BY <1>1, <2>3 DEF StatementTypeOK
    <2> QED
      BY <2>2, <2>3
  <1>10. StatementTypeOK'
    BY <1>2, <1>6, <1>8, <1>9 DEF StatementTypeOK, insertVars
  <1>11. \A t \in Sessions \ {s} : SameSession(t)
    BY <1>2, <1>6, <1>8, <1>9 DEF SameSession, insertVars
  <1>12. ConnectionInv(s)' /\ Reading(s)'
    BY <1>2, <1>3, <1>4, <1>5, <1>6 DEF ConnectionInv, Reading, Inserting, Clean
  <1>13. ScanInv(s)'
    BY <1>2, <1>3, <1>4, <1>6, <1>8, NoneAssumption DEF ScanInv
  <1>14. CountInv(s)'
    BY <1>2, <1>3 DEF SessionInv, CountInv, insertVars
  <1>15. OrderInv(s)'
    <2>1. \A n : RowBlocks(s, n)' = RowBlocks(s, n)
      BY <1>2 DEF RowBlocks
    <2>2. /\ answer'[s] = answer[s] /\ fetched'[s] = fetched[s] /\ pc'[s] = "scanning"
          /\ ~finished'[s] /\ PacketsOf(s, answer[s])' = PacketsOf(s, answer[s])
      BY <1>2, <1>3 DEF PacketsOf
    <2>3. InHand(s)' = IF o.result = "rows" THEN 1 ELSE 0
      BY <1>3, <1>8 DEF InHand
    <2>4. /\ answer[s] \in Answers
          /\ Len(fetched[s]) + 0 = Cardinality(RowBlocks(s, Position(s)))
          /\ \A i \in DOMAIN fetched[s] : \E n \in DOMAIN answer[s] :
                /\ fetched[s][i] = PacketsOf(s, answer[s])[n]
                /\ answer[s][n] = "rows" /\ Cardinality(RowBlocks(s, n)) = i
      BY <1>3 DEF SessionInv, OrderInv
    <2>5. Len(fetched[s]) \in Nat
      BY LenProperties DEF StatementTypeOK
    <2>6. Len(fetched[s]) + InHand(s)' = Cardinality(RowBlocks(s, Position(s)))'
      <3>1. Cardinality(RowBlocks(s, Position(s))) = Len(fetched[s])
        BY <2>4, <2>5
      <3>2. CASE o.result = "rows"
        <4>1. Cardinality(RowBlocks(s, Position(s)))' = Cardinality(RowBlocks(s, Position(s))) + 1
          BY <1>5, <1>7, <3>2
        <4> QED
          BY <2>3, <3>1, <3>2, <4>1
      <3>3. CASE o.result # "rows"
        <4>1. Cardinality(RowBlocks(s, Position(s)))' = Cardinality(RowBlocks(s, Position(s))) + 0
          BY <1>5, <1>7, <3>3
        <4> QED
          BY <2>3, <3>1, <3>3, <4>1
      <3> QED
        BY <3>2, <3>3
    <2>7. \A v \in Workers : worker'[s][v] = "got" =>
             /\ answer[s][Position(s)'] = "rows"
             /\ block'[s][v] = <<PacketsOf(s, answer[s])[Position(s)']>>
      BY <1>3, <1>5, <1>7, <1>8, <1>9
    <2>8. \A i \in DOMAIN fetched'[s] : \E n \in DOMAIN answer'[s] :
             /\ fetched'[s][i] = PacketsOf(s, answer[s])'[n]
             /\ answer'[s][n] = "rows" /\ Cardinality(RowBlocks(s, n)') = i
      BY <2>1, <2>2, <2>4
    <2>9. /\ answer'[s] \in Answers /\ Len(Held(s)'.wire) \in 1 .. Len(answer'[s])
          /\ \A i \in 1 .. Len(Held(s)'.wire) :
                Held(s)'.wire[i] = PacketsOf(s, answer[s])'[Position(s)' + i]
          /\ Len(fetched'[s]) + InHand(s)' = Cardinality(RowBlocks(s, Position(s)))'
      BY <1>6, <1>7, <2>2, <2>4, <2>6
    <2> QED
      BY <1>7, <2>2, <2>7, <2>8, <2>9 DEF OrderInv
  <1> QED
    BY <1>6, <1>10, <1>11, <1>12, <1>13, <1>14, <1>15 DEF StepOK, SessionInv

\* The block in hand gets the next index, and the lock is free.
LEMMA IndexBlockStep ==
    ASSUME Inv, NEW s \in Sessions, NEW w \in Workers, IndexBlock(s, w)
    PROVE  StepOK(s)
  <1> USE DEF Inv
  <1> DEFINE n == Position(s)
             p == PacketsOf(s, answer[s])[n]
             old == fetched[s]
  <1>1. /\ SetWorker(s, w, "got", "out")
        /\ fetched' = [fetched EXCEPT ![s] = @ \o block[s][w]]
        /\ block' = [block EXCEPT ![s][w] = <<>>] /\ lock' = [lock EXCEPT ![s] = None]
        /\ UNCHANGED <<poolVars, pc, kind, failed, answer, finished, insertVars>>
    BY DEF IndexBlock
  <1>2. /\ worker[s][w] = "got" /\ worker' \in [Sessions -> [Workers -> WorkerLocations]]
        /\ \A v \in Workers : worker'[s][v] = IF v = w THEN "out" ELSE worker[s][v]
        /\ \A t \in Sessions \ {s} : worker'[t] = worker[t]
    BY <1>1, SetWorkerFacts DEF WorkerLocations
  <1>3. /\ pc[s] = "scanning" /\ Reading(s) /\ ~finished[s] /\ InHand(s) = 1
        /\ \A v \in Workers : worker'[s][v] \notin {"next", "got"}
    BY <1>2, HolderFacts, GotIsReading DEF Reading, SessionInv, ScanInv
  <1>4. /\ n \in DOMAIN answer[s] /\ answer[s][n] = "rows" /\ block[s][w] = <<p>>
        /\ answer[s] \in Answers /\ Len(old) + 1 = Cardinality(RowBlocks(s, n))
        /\ \A i \in DOMAIN old : \E m \in DOMAIN answer[s] :
              /\ old[i] = PacketsOf(s, answer[s])[m]
              /\ answer[s][m] = "rows" /\ Cardinality(RowBlocks(s, m)) = i
    BY <1>2, <1>3 DEF SessionInv, OrderInv
  <1>5. old \in Seq(Packets(Sessions)) /\ p \in Packets(Sessions) /\ Len(old) \in Nat
    <2>1. block[s][w] \in Seq(Packets(Sessions)) /\ old \in Seq(Packets(Sessions))
      BY DEF StatementTypeOK
    <2>2. <<p>> \in Seq(Packets(Sessions))
      BY <1>4, <2>1
    <2> HIDE DEF p, old
    <2> QED
      BY <2>1, <2>2, LenProperties
  <1>6. /\ Append(old, p) \in Seq(Packets(Sessions)) /\ Len(Append(old, p)) = Len(old) + 1
        /\ \A i \in DOMAIN Append(old, p) : \E m \in DOMAIN answer[s] :
              /\ Append(old, p)[i] = PacketsOf(s, answer[s])[m]
              /\ answer[s][m] = "rows" /\ Cardinality(RowBlocks(s, m)) = i
    BY <1>4, <1>5, OneMoreBlock
  <1>7. /\ fetched'[s] = Append(old, p) /\ fetched' \in [Sessions -> Seq(Packets(Sessions))]
        /\ \A t \in Sessions \ {s} : fetched'[t] = fetched[t]
    <2>1. old \o <<p>> = Append(old, p)
      BY <1>5, AppendIsConcat
    <2>2. fetched \in [Sessions -> Seq(Packets(Sessions))]
      BY DEF StatementTypeOK
    <2>3. fetched' = [fetched EXCEPT ![s] = Append(old, p)]
      BY <1>1, <1>4, <2>1
    <2> QED
      BY <1>6, <2>2, <2>3
  <1>8. /\ block' \in [Sessions -> [Workers -> Seq(Packets(Sessions))]]
        /\ lock' \in [Sessions -> Workers \cup {None}] /\ lock'[s] = None
        /\ \A t \in Sessions \ {s} : block'[t] = block[t] /\ lock'[t] = lock[t]
    BY <1>1 DEF StatementTypeOK
  <1>9. StatementTypeOK'
    BY <1>1, <1>2, <1>7, <1>8 DEF StatementTypeOK, poolVars, insertVars
  <1>10. PoolInv' /\ \A t \in Sessions : SameConnection(t)
    BY <1>1, PoolFrame
  <1>11. \A t \in Sessions \ {s} : SameSession(t)
    BY <1>1, <1>2, <1>7, <1>8, <1>10 DEF SameSession, insertVars
  <1>12. Held(s)' = Held(s) /\ Position(s)' = n /\ Reading(s)'
    BY <1>1, <1>3 DEF Held, Position, poolVars, Reading
  <1>13. ConnectionInv(s)'
    BY <1>1, <1>3, <1>12 DEF SessionInv, ConnectionInv, Inserting, poolVars, Reading
  <1>14. ScanInv(s)'
    <2>1. \A v \in Workers : lock'[s] # v
      BY <1>8, NoneAssumption
    <2>2. pc'[s] = "scanning" /\ ~finished'[s] /\ conn'[s] # None
      BY <1>1, <1>3 DEF SessionInv, ScanInv, poolVars
    <2> QED
      BY <1>3, <1>8, <2>1, <2>2 DEF ScanInv
  <1>15. CountInv(s)'
    BY <1>1, <1>3 DEF SessionInv, CountInv, insertVars
  <1>16. OrderInv(s)'
    <2>1. \A m : RowBlocks(s, m)' = RowBlocks(s, m)
      BY <1>1 DEF RowBlocks
    <2>2. /\ answer'[s] = answer[s] /\ pc'[s] = "scanning" /\ ~finished'[s]
          /\ PacketsOf(s, answer[s])' = PacketsOf(s, answer[s])
      BY <1>1, <1>3 DEF PacketsOf
    <2>3. InHand(s)' = 0
      BY <1>3 DEF InHand
    <2>4. /\ Len(Held(s).wire) \in 1 .. Len(answer[s])
          /\ \A i \in 1 .. Len(Held(s).wire) : Held(s).wire[i] = PacketsOf(s, answer[s])[n + i]
      BY <1>3 DEF SessionInv, OrderInv
    <2>5. Len(fetched'[s]) + 0 = Cardinality(RowBlocks(s, n))
      BY <1>4, <1>5, <1>6, <1>7
    <2> HIDE DEF n, p, old
    <2>6. \A i \in DOMAIN fetched'[s] : \E m \in DOMAIN answer[s] :
             /\ fetched'[s][i] = PacketsOf(s, answer[s])[m]
             /\ answer[s][m] = "rows" /\ Cardinality(RowBlocks(s, m)) = i
      BY <1>6, <1>7
    <2> QED
      BY <1>3, <1>4, <1>12, <2>1, <2>2, <2>3, <2>4, <2>5, <2>6 DEF OrderInv
  <1> QED
    BY <1>9, <1>10, <1>11, <1>13, <1>14, <1>15, <1>16 DEF StepOK, SessionInv

-----------------------------------------------------------------------------
(* The invariant is inductive.                                             *)

LEMMA InitInv == Init => Inv
  <1> SUFFICES ASSUME Init
               PROVE  Inv
    OBVIOUS
  <1>1. StatementTypeOK
    <2>1. conns \in [Conns -> Connection(Sessions)]
      BY ConnectionTypes DEF Init
    <2>2. /\ fetched \in [Sessions -> Seq(Packets(Sessions))]
          /\ block \in [Sessions -> [Workers -> Seq(Packets(Sessions))]]
      BY DEF Init
    <2>3. /\ failed \in [Sessions -> BOOLEAN] /\ finished \in [Sessions -> BOOLEAN]
          /\ lock \in [Sessions -> Workers \cup {None}]
          /\ worker \in [Sessions -> [Workers -> WorkerLocations]]
      BY DEF Init, WorkerLocations
    <2>4. /\ idle \in SUBSET Conns /\ pc \in [Sessions -> Locations]
          /\ kind \in [Sessions -> Kinds] /\ conn \in [Sessions -> Conns \cup {None}]
          /\ answer \in [Sessions -> Answers \cup {<<>>}]
      BY DEF Init, Locations, Kinds
    <2>5. /\ target \in [Sessions -> {"unknown", "ready", "skip"}]
          /\ pending_rows \in [Sessions -> Nat] /\ insert_count \in [Sessions -> Nat]
          /\ chunk \in [Sessions -> Nat] /\ received \in [Sessions -> Nat]
      BY DEF Init
    <2> QED
      BY <2>1, <2>2, <2>3, <2>4, <2>5 DEF StatementTypeOK
  <1>2. PoolInv
    BY DEF Init, PoolInv, CleanPool
  <1>3. ASSUME NEW s \in Sessions
        PROVE  SessionInv(s)
    <2>1. /\ pc[s] = "idle" /\ conn[s] = None /\ finished[s] = FALSE /\ fetched[s] = <<>>
          /\ lock[s] = None /\ received[s] = 0 /\ pending_rows[s] = 0 /\ insert_count[s] = 0
          /\ \A w \in Workers : worker[s][w] = "out"
      BY DEF Init
    <2>2. ConnectionInv(s) /\ ~Reading(s)
      BY <2>1 DEF ConnectionInv, Reading, Inserting
    <2>3. ScanInv(s)
      BY <2>1, NoneAssumption DEF ScanInv
    <2>4. OrderInv(s)
      BY <2>1, <2>2 DEF OrderInv
    <2>5. CountInv(s)
      BY <2>1 DEF CountInv
    <2> QED
      BY <2>2, <2>3, <2>4, <2>5 DEF SessionInv
  <1> QED
    BY <1>1, <1>2, <1>3 DEF Inv

LEMMA StepInv == Inv /\ [Next]_vars => Inv'
  <1> SUFFICES ASSUME Inv, [Next]_vars
               PROVE  Inv'
    OBVIOUS
  <1>1. ASSUME NEW s \in Sessions, Start(s)
        PROVE  Inv'
    BY <1>1, StartStep, StepOKSuffices
  <1>2. ASSUME NEW s \in Sessions, StatementStep(s)
        PROVE  Inv'
    <2>1. CASE AcquireFails(s) \/ SinkFails(s) \/ AppendFails(s)
      BY <2>1, FailStep, StepOKSuffices
    <2>2. CASE Acquire(s)
      BY <2>2, AcquireStep, StepOKSuffices
    <2>3. CASE Begin(s)
      BY <2>3, BeginStep, StepOKSuffices
    <2>4. CASE Read(s)
      BY <2>4, ReadStep, StepOKSuffices
    <2>5. CASE StopScan(s)
      BY <2>5, StopScanStep, StepOKSuffices
    <2>6. CASE Sink(s) \/ Finalize(s)
      BY <2>6, SinkStep, StepOKSuffices
    <2>7. CASE StartInsert(s)
      BY <2>7, StartInsertStep, StepOKSuffices
    <2>8. CASE AppendRows(s)
      BY <2>8, AppendRowsStep, StepOKSuffices
    <2>9. CASE Flush(s)
      BY <2>9, FlushStep, StepOKSuffices
    <2>10. CASE FinishInsert(s)
      BY <2>10, FinishInsertStep, StepOKSuffices
    <2>11. CASE Report(s)
      BY <2>11, ReportStep, StepOKSuffices
    <2>12. CASE Destroy(s)
      BY <2>12, DestroyStep, StepOKSuffices
    <2> QED
      BY <1>2, <2>1, <2>2, <2>3, <2>4, <2>5, <2>6, <2>7, <2>8, <2>9, <2>10, <2>11, <2>12
         DEF StatementStep
  <1>3. ASSUME NEW s \in Sessions, NEW w \in Workers, WorkerStep(s, w)
        PROVE  Inv'
    <2>1. CASE FetchNextBlock(s, w) \/ SeeFinished(s, w) \/ ConversionFails(s, w)
      BY <2>1, LockWorkerStep, StepOKSuffices
    <2>2. CASE TakeBlock(s, w)
      BY <2>2, TakeBlockStep, StepOKSuffices
    <2>3. CASE FinishScan(s, w)
      BY <2>3, FinishScanStep, StepOKSuffices
    <2>4. CASE IndexBlock(s, w)
      BY <2>4, IndexBlockStep, StepOKSuffices
    <2> QED
      BY <1>3, <2>1, <2>2, <2>3, <2>4 DEF WorkerStep
  <1>4. CASE UNCHANGED vars
    <2>1. StatementTypeOK'
      BY <1>4 DEF Inv, StatementTypeOK, vars, poolVars, scanVars, insertVars
    <2>2. PoolInv' /\ \A t \in Sessions : SameConnection(t)
      BY <1>4, PoolFrame DEF Inv, vars
    <2>3. \A t \in Sessions : SameSession(t)
      BY <1>4, <2>2 DEF SameSession, vars, poolVars, scanVars, insertVars
    <2> QED
      BY <2>1, <2>2, <2>3, SessionFrame DEF Inv
  <1> QED
    BY <1>1, <1>2, <1>3, <1>4 DEF Next

LEMMA StatementsInv == Spec => []Inv
  BY InitInv, StepInv, PTL DEF Spec

(***************************************************************************)
(* Every state of the statements, of their connections and of the workers  *)
(* of a scan stays in its range, for any number of connections, sessions   *)
(* and workers, and any answers of the server.                             *)
(***************************************************************************)
THEOREM StatementsTyped == Spec => []StatementTypeOK
  <1>1. Inv => StatementTypeOK
    BY DEF Inv
  <1> QED
    BY <1>1, StatementsInv, PTL

(***************************************************************************)
(* Whatever a statement left behind, wherever it failed, an idle           *)
(* connection is as if it had just been opened: ~PooledConnection(), with  *)
(* ResetConnection() and TryRecoverConnection(), never takes back one with *)
(* a query, an insert or unread packets (Return(), Abandon()).             *)
(***************************************************************************)
THEOREM PoolStaysClean == Spec => []CleanPool
  <1>1. Inv => CleanPool
    BY DEF Inv, PoolInv
  <1> QED
    BY <1>1, StatementsInv, PTL

(***************************************************************************)
(* FetchNextBlock(), whichever worker runs it, and Query() give the i-th   *)
(* block with rows of the server's answer the index i, leave none out and  *)
(* take none twice; a scan that ends without an exception has them all.    *)
(***************************************************************************)
THEOREM BlocksTakenInOrder == Spec => []BlocksInOrder
  <1>1. Inv => BlocksInOrder
    BY DEF Inv, SessionInv, OrderInv, BlocksInOrder
  <1> QED
    BY <1>1, StatementsInv, PTL

(***************************************************************************)
(* A scan has its connection exactly as long as ClickhouseScanGlobalState  *)
(* says that it is not finished.                                           *)
(***************************************************************************)
THEOREM ScansOwnTheirConnections == Spec => []ScanOwnsConnection
  <1>1. Inv => ScanOwnsConnection
    BY DEF Inv, SessionInv, ScanInv, ScanOwnsConnection
  <1> QED
    BY <1>1, StatementsInv, PTL

(***************************************************************************)
(* The count of an INSERT is what the server was sent (Sink(), Flush(),    *)
(* Finalize(), GetDataInternal()), for any sizes of chunks and of blocks.  *)
(***************************************************************************)
THEOREM CountsAreRowsInserted == Spec => []CountIsRowsInserted
  <1>1. Inv => CountIsRowsInserted
    <2> SUFFICES ASSUME Inv, NEW s \in Sessions, pc[s] = "report"
                 PROVE  received[s] = insert_count[s]
      BY DEF CountIsRowsInserted
    <2>1. received[s] + pending_rows[s] = insert_count[s] /\ pending_rows[s] = 0
      BY DEF Inv, SessionInv, CountInv
    <2>2. received[s] \in Nat
      BY DEF Inv, StatementTypeOK
    <2> QED
      BY <2>1, <2>2
  <1> QED
    BY <1>1, StatementsInv, PTL
=============================================================================
