------------------------- MODULE TransactionManager -------------------------
(***************************************************************************)
(* ClickhouseTransactionManager: the transactions of one attached          *)
(* ClickHouse database and the catalog entries its cache has retired.      *)
(* Every operation runs under transaction_lock, so each is one step.       *)
(*                                                                         *)
(* ClickHouse has no multi-statement transactions: a transaction is an id, *)
(* and a flag that remembers whether it wrote.                             *)
(***************************************************************************)
EXTENDS Naturals, Sequences

CONSTANTS
    Connections,       \* DuckDB connections (ClientContexts)
    Entries,           \* schema entry objects, each created at most once
    MaxTransactions    \* bound: transactions started in a behaviour

ASSUME MaxTransactionsAssumption == MaxTransactions \in Nat

VARIABLES
    next_transaction_id,
    transactions,      \* id of the active transaction of a connection, 0: none
    written,           \* ClickhouseTransaction::written
    retired            \* RetiredBatch records, in retirement order

tmVars == <<next_transaction_id, transactions, written, retired>>

RetiredBatch == [stamp : Nat, entries : SUBSET Entries]

TmTypeOK ==
    /\ next_transaction_id \in Nat \ {0}
    /\ transactions \in [Connections -> Nat]
    /\ written \in [Connections -> BOOLEAN]
    /\ retired \in Seq(RetiredBatch)

TmInitFromZero ==
    /\ next_transaction_id = 0
    /\ transactions = [c \in Connections |-> 0]
    /\ written = [c \in Connections |-> FALSE]
    /\ retired = <<>>

TmInit ==
    /\ next_transaction_id = 1
    /\ transactions = [c \in Connections |-> 0]
    /\ written = [c \in Connections |-> FALSE]
    /\ retired = <<>>

HasTransaction(c) == transactions[c] # 0

\* Entries owned by the manager.
Retired == UNION {retired[i].entries : i \in DOMAIN retired}

-----------------------------------------------------------------------------
\* The bound on the number of transactions: c is in one, or may start one.
MayHaveTransaction(c) ==
    HasTransaction(c) \/ next_transaction_id <= MaxTransactions

StartTransaction(c) ==
    /\ ~HasTransaction(c)
    /\ next_transaction_id <= MaxTransactions
    /\ transactions' = [transactions EXCEPT ![c] = next_transaction_id]
    /\ next_transaction_id' = next_transaction_id + 1
    /\ UNCHANGED <<written, retired>>

\* Transaction::Get(): the connection's transaction, started on first use.
GetTransaction(c) ==
    \/ StartTransaction(c)
    \/ HasTransaction(c) /\ UNCHANGED tmVars

\* Transaction::Get() followed by MarkWritten().
GetAndMarkWritten(c) ==
    /\ MayHaveTransaction(c)
    /\ written' = [written EXCEPT ![c] = TRUE]
    /\ IF HasTransaction(c)
         THEN UNCHANGED <<transactions, next_transaction_id>>
         ELSE /\ transactions' = [transactions EXCEPT ![c] = next_transaction_id]
              /\ next_transaction_id' = next_transaction_id + 1
    /\ UNCHANGED retired

RetireStampBehind(batch) ==
    /\ IF batch = {}
         THEN UNCHANGED retired
         ELSE retired' = Append(retired, [stamp   |-> next_transaction_id - 1,
                                          entries |-> batch])
    /\ UNCHANGED <<next_transaction_id, transactions, written>>

RetireInFront(batch) ==
    /\ IF batch = {}
         THEN UNCHANGED retired
         ELSE retired' = <<[stamp |-> next_transaction_id, entries |-> batch]>> \o retired
    /\ UNCHANGED <<next_transaction_id, transactions, written>>

\* entries.empty() returns at once; a batch is stamped with the id the next
\* transaction would get.
RetireEntries(batch) ==
    /\ IF batch = {}
         THEN UNCHANGED retired
         ELSE retired' = Append(retired, [stamp   |-> next_transaction_id,
                                          entries |-> batch])
    /\ UNCHANGED <<next_transaction_id, transactions, written>>

\* stamp <= oldest_active, the least of next_transaction_id and the ids of
\* the transactions other than c's that are still active.
ReleasableIgnoringOthers(stamp, c) == stamp <= next_transaction_id

ReleasableStrictly(stamp, c) ==
    /\ stamp < next_transaction_id
    /\ \A d \in Connections \ {c} : HasTransaction(d) => stamp < transactions[d]

Releasable(stamp, c) ==
    /\ stamp <= next_transaction_id
    /\ \A d \in Connections \ {c} : HasTransaction(d) => stamp <= transactions[d]

\* Forgets c's transaction and releases the longest prefix of batches that no
\* remaining transaction can reference.
EndTransaction(c) ==
    /\ HasTransaction(c)
    /\ transactions' = [transactions EXCEPT ![c] = 0]
    /\ written' = [written EXCEPT ![c] = FALSE]
    /\ \E release_count \in 0 .. Len(retired) :
         /\ \A i \in 1 .. release_count : Releasable(retired[i].stamp, c)
         /\ release_count < Len(retired) =>
                ~Releasable(retired[release_count + 1].stamp, c)
         /\ retired' = SubSeq(retired, release_count + 1, Len(retired))
    /\ UNCHANGED next_transaction_id

-----------------------------------------------------------------------------
(* The manager by itself: its callers start and end transactions, mark them *)
(* and retire entries in any order.                                         *)
TmNext ==
    \/ \E c \in Connections :
          StartTransaction(c) \/ GetAndMarkWritten(c) \/ EndTransaction(c)
    \/ \E batch \in SUBSET (Entries \ Retired) : RetireEntries(batch)

TmSpec == TmInit /\ [][TmNext]_tmVars

(***************************************************************************)
(* "Stamps never decrease, so the releasable batches are a prefix"         *)
(* (EndTransaction()), and no stamp exceeds next_transaction_id, so that   *)
(* every batch is releasable when no transaction is active.                *)
(***************************************************************************)
StampsSorted ==
    \A i \in DOMAIN retired :
        /\ retired[i].stamp <= next_transaction_id
        /\ \A j \in DOMAIN retired : i <= j => retired[i].stamp <= retired[j].stamp

-----------------------------------------------------------------------------
\* The transactions a batch still waits for: those with an id below its stamp.
WaitsFor(stamp) == {c \in Connections : HasTransaction(c) /\ transactions[c] < stamp}

ActiveConnections == {c \in Connections : HasTransaction(c)}

Limbo == UNION {{<<e, WaitsFor(retired[i].stamp)>> : e \in retired[i].entries} :
                    i \in DOMAIN retired}

Abstract == INSTANCE GracePeriod WITH active <- ActiveConnections, limbo <- Limbo

(***************************************************************************)
(* The integer stamps implement the promise: an entry is let go exactly    *)
(* when a transaction ends and none of those that were active at its       *)
(* retirement (RetireEntries) is left.                                     *)
(***************************************************************************)
ImplementsGracePeriod == Abstract!Spec
=============================================================================
