---------------------- MODULE TransactionManagerProofs ----------------------
(***************************************************************************)
(* Proofs about the transaction manager: its state is typed, stamps never  *)
(* decrease, and integer stamps implement the grace period of              *)
(* GracePeriod.tla.                                                        *)
(***************************************************************************)
EXTENDS TransactionManager, SequenceTheorems, TLAPS

\* Ids of active transactions have been handed out.
IdsBelowNext == \A c \in Connections : transactions[c] < next_transaction_id

TmInv == TmTypeOK /\ StampsSorted /\ IdsBelowNext

\* Every step the manager takes, whoever calls it.
TmStep ==
    \/ \E c \in Connections :
          StartTransaction(c) \/ GetAndMarkWritten(c) \/ EndTransaction(c)
    \/ \E batch \in SUBSET Entries : RetireEntries(batch)

LEMMA BatchFacts ==
    ASSUME TmTypeOK
    PROVE  /\ DOMAIN retired = 1 .. Len(retired) /\ Len(retired) \in Nat
           /\ \A i \in DOMAIN retired : /\ retired[i].stamp \in Nat
                                       /\ retired[i].entries \in SUBSET Entries
  <1>1. DOMAIN retired = 1 .. Len(retired) /\ Len(retired) \in Nat
    BY DEF TmTypeOK
  <1>2. \A i \in 1 .. Len(retired) : retired[i] \in RetiredBatch
    BY ElementOfSeq DEF TmTypeOK
  <1> QED
    BY <1>1, <1>2 DEF RetiredBatch

\* What the next state of `retired` is made of when a transaction ends.
LEMMA SuffixFacts ==
    ASSUME TmTypeOK, NEW k \in 0 .. Len(retired)
    PROVE  LET rest == SubSeq(retired, k + 1, Len(retired))
           IN  /\ rest \in Seq(RetiredBatch)
               /\ Len(rest) = Len(retired) - k
               /\ DOMAIN rest = 1 .. (Len(retired) - k)
               /\ \A i \in 1 .. (Len(retired) - k) : rest[i] = retired[i + k]
  BY DEF TmTypeOK

LEMMA AppendFacts ==
    ASSUME TmTypeOK, NEW b \in RetiredBatch
    PROVE  /\ Append(retired, b) \in Seq(RetiredBatch)
           /\ Len(Append(retired, b)) = Len(retired) + 1
           /\ DOMAIN Append(retired, b) = 1 .. (Len(retired) + 1)
           /\ \A i \in 1 .. Len(retired) : Append(retired, b)[i] = retired[i]
           /\ Append(retired, b)[Len(retired) + 1] = b
  BY DEF TmTypeOK

-----------------------------------------------------------------------------
LEMMA TmInitInv == TmInit => TmInv
  BY DEF TmInit, TmInv, TmTypeOK, StampsSorted, IdsBelowNext

\* A step that leaves the batches alone and hands out at most the next id.
LEMMA IdStepInv ==
    ASSUME TmInv, NEW c \in Connections, UNCHANGED retired,
           \/ UNCHANGED <<next_transaction_id, transactions>>
           \/ /\ next_transaction_id' = next_transaction_id + 1
              /\ transactions' = [transactions EXCEPT ![c] = next_transaction_id],
           written' \in [Connections -> BOOLEAN]
    PROVE  TmInv'
  <1>1. TmTypeOK'
    BY DEF TmInv, TmTypeOK
  <1>2. StampsSorted'
    <2>1. /\ next_transaction_id \in Nat /\ next_transaction_id' \in Nat
          /\ next_transaction_id <= next_transaction_id'
          /\ \A i \in DOMAIN retired : retired[i].stamp \in Nat
      BY BatchFacts DEF TmInv, TmTypeOK
    <2> QED
      BY <2>1 DEF TmInv, StampsSorted
  <1>3. IdsBelowNext'
    BY SMTT(30) DEF TmInv, TmTypeOK, IdsBelowNext
  <1> QED
    BY <1>1, <1>2, <1>3 DEF TmInv

LEMMA StartTransactionInv ==
    ASSUME TmInv, NEW c \in Connections, StartTransaction(c)
    PROVE  TmInv'
  BY IdStepInv DEF StartTransaction, TmInv, TmTypeOK

LEMMA GetAndMarkWrittenInv ==
    ASSUME TmInv, NEW c \in Connections, GetAndMarkWritten(c)
    PROVE  TmInv'
  <1>1. written' \in [Connections -> BOOLEAN]
    BY DEF TmInv, TmTypeOK, GetAndMarkWritten
  <1> QED
    BY <1>1, IdStepInv DEF GetAndMarkWritten

LEMMA RetireEntriesInv ==
    ASSUME TmInv, NEW batch \in SUBSET Entries, RetireEntries(batch)
    PROVE  TmInv'
  <1>1. CASE batch = {}
    BY <1>1 DEF TmInv, TmTypeOK, StampsSorted, IdsBelowNext, RetireEntries
  <1>2. CASE batch # {}
    <2> DEFINE b == [stamp |-> next_transaction_id, entries |-> batch]
    <2>1. b \in RetiredBatch
      BY DEF TmInv, TmTypeOK, RetiredBatch
    <2>2. /\ retired' = Append(retired, b)
          /\ UNCHANGED <<next_transaction_id, transactions, written>>
      BY <1>2 DEF RetireEntries
    <2>3. TmTypeOK'
      BY <2>1, <2>2, AppendFacts DEF TmInv, TmTypeOK
    <2>4. StampsSorted'
      <3>1. /\ DOMAIN retired' = 1 .. (Len(retired) + 1)
            /\ \A i \in 1 .. Len(retired) : retired'[i] = retired[i]
            /\ retired'[Len(retired) + 1].stamp = next_transaction_id
        BY <2>1, <2>2, AppendFacts DEF TmInv
      <3>2. /\ DOMAIN retired = 1 .. Len(retired) /\ Len(retired) \in Nat
            /\ \A i \in DOMAIN retired : retired[i].stamp \in Nat
            /\ next_transaction_id \in Nat /\ next_transaction_id' = next_transaction_id
          BY <2>2, BatchFacts DEF TmInv, TmTypeOK
      <3> QED
        BY <3>1, <3>2 DEF TmInv, StampsSorted
    <2>5. IdsBelowNext'
      BY <2>2 DEF TmInv, IdsBelowNext
    <2> QED
      BY <2>3, <2>4, <2>5 DEF TmInv
  <1> QED
    BY <1>1, <1>2

LEMMA EndTransactionInv ==
    ASSUME TmInv, NEW c \in Connections, EndTransaction(c)
    PROVE  TmInv'
  <1>1. PICK k \in 0 .. Len(retired) :
           retired' = SubSeq(retired, k + 1, Len(retired))
    BY DEF EndTransaction
  <1>2. /\ retired' \in Seq(RetiredBatch)
        /\ DOMAIN retired' = 1 .. (Len(retired) - k)
        /\ \A i \in 1 .. (Len(retired) - k) : retired'[i] = retired[i + k]
    BY <1>1, SuffixFacts DEF TmInv
  <1>3. /\ DOMAIN retired = 1 .. Len(retired) /\ Len(retired) \in Nat
        /\ next_transaction_id' = next_transaction_id
    BY DEF TmInv, TmTypeOK, EndTransaction
  <1>4. TmTypeOK'
    BY <1>2 DEF TmInv, TmTypeOK, EndTransaction
  <1>5. StampsSorted'
    <2> SUFFICES ASSUME NEW i \in 1 .. (Len(retired) - k), NEW j \in 1 .. (Len(retired) - k)
                 PROVE  /\ retired'[i].stamp <= next_transaction_id
                        /\ i <= j => retired'[i].stamp <= retired'[j].stamp
      BY <1>2, <1>3 DEF StampsSorted
    <2>1. i + k \in DOMAIN retired /\ j + k \in DOMAIN retired /\ (i <= j => i + k <= j + k)
      BY <1>3
    <2> QED
      BY <1>2, <2>1 DEF TmInv, StampsSorted
  <1>6. IdsBelowNext'
    BY DEF TmInv, TmTypeOK, IdsBelowNext, EndTransaction
  <1> QED
    BY <1>4, <1>5, <1>6 DEF TmInv

LEMMA TmStepInv == TmInv /\ [TmStep]_tmVars => TmInv'
  <1> SUFFICES ASSUME TmInv, [TmStep]_tmVars PROVE TmInv'
    OBVIOUS
  <1>1. CASE TmStep
    BY <1>1, StartTransactionInv, GetAndMarkWrittenInv, EndTransactionInv, RetireEntriesInv
    DEF TmStep
  <1>2. CASE UNCHANGED tmVars
    BY <1>2 DEF TmInv, TmTypeOK, StampsSorted, IdsBelowNext, tmVars
  <1> QED
    BY <1>1, <1>2

(***************************************************************************)
(* The manager's state is typed and its stamps are sorted and never ahead  *)
(* of next_transaction_id, for any number of connections and entries.      *)
(***************************************************************************)
THEOREM TmSafety == TmSpec => [](TmTypeOK /\ StampsSorted)
  <1>1. TmNext => TmStep
    BY DEF TmNext, TmStep
  <1>2. TmInv => TmTypeOK /\ StampsSorted
    BY DEF TmInv
  <1> QED
    BY <1>1, <1>2, TmInitInv, TmStepInv, PTL DEF TmSpec

-----------------------------------------------------------------------------
(* The refinement: stamps as sets of transactions waited for.              *)

LEMMA LimboMember ==
    \A p : p \in Limbo <=> \E i \in DOMAIN retired : \E e \in retired[i].entries :
                              p = <<e, WaitsFor(retired[i].stamp)>>
  BY DEF Limbo

\* A new id is not below any stamp, so nobody waits for its transaction.
LEMMA StartRefines ==
    ASSUME TmInv, NEW c \in Connections, ~HasTransaction(c), UNCHANGED retired,
           transactions' = [transactions EXCEPT ![c] = next_transaction_id]
    PROVE  Abstract!Start(c)
  <1>1. \A d \in Connections : transactions'[d] =
            IF d = c THEN next_transaction_id ELSE transactions[d]
    BY DEF TmInv, TmTypeOK
  <1>2. next_transaction_id \in Nat \ {0}
    BY DEF TmInv, TmTypeOK
  <1>3. ActiveConnections' = ActiveConnections \cup {c}
    BY <1>1, <1>2 DEF ActiveConnections, HasTransaction
  <1>4. ASSUME NEW i \in DOMAIN retired
        PROVE  WaitsFor(retired[i].stamp)' = WaitsFor(retired[i].stamp)
    <2>1. retired[i].stamp \in Nat /\ retired[i].stamp <= next_transaction_id
      BY BatchFacts DEF TmInv, StampsSorted
    <2>2. \A d \in Connections :
             (HasTransaction(d) /\ transactions[d] < retired[i].stamp)'
               <=> HasTransaction(d) /\ transactions[d] < retired[i].stamp
      BY <1>1, <1>2, <2>1 DEF HasTransaction
    <2> QED
      BY <2>2 DEF WaitsFor
  <1>5. Limbo' = Limbo
    BY <1>4 DEF Limbo
  <1> QED
    BY <1>3, <1>5 DEF Abstract!Start, ActiveConnections

\* At its retirement a batch waits for every active transaction.
LEMMA RetireRefines ==
    ASSUME TmInv, NEW batch \in SUBSET Entries, RetireEntries(batch)
    PROVE  Abstract!Retire(batch)
  <1>1. /\ ActiveConnections' = ActiveConnections
        /\ \A n : WaitsFor(n)' = WaitsFor(n)
    BY DEF RetireEntries, ActiveConnections, WaitsFor, HasTransaction
  <1>2. CASE batch = {}
    BY <1>1, <1>2 DEF RetireEntries, Abstract!Retire, Limbo
  <1>3. CASE batch # {}
    <2> DEFINE b == [stamp |-> next_transaction_id, entries |-> batch]
    <2>1. b \in RetiredBatch /\ retired' = Append(retired, b)
      BY <1>3 DEF TmInv, TmTypeOK, RetiredBatch, RetireEntries
    <2>2. /\ DOMAIN retired = 1 .. Len(retired) /\ Len(retired) \in Nat
          /\ DOMAIN retired' = 1 .. (Len(retired) + 1)
          /\ \A i \in 1 .. Len(retired) : retired'[i] = retired[i]
          /\ retired'[Len(retired) + 1] = b
      BY <2>1, AppendFacts, BatchFacts DEF TmInv
    <2>3. WaitsFor(next_transaction_id) = ActiveConnections
      BY DEF TmInv, IdsBelowNext, WaitsFor, ActiveConnections
    <2>4. ASSUME NEW p \in Limbo'
          PROVE  p \in Limbo \cup {<<e, ActiveConnections>> : e \in batch}
      <3>1a. PICK i \in DOMAIN retired' : \E e \in retired'[i].entries :
                p = <<e, WaitsFor(retired'[i].stamp)>>
        BY <1>1, <2>4 DEF Limbo
      <3>1. PICK e \in retired'[i].entries : p = <<e, WaitsFor(retired'[i].stamp)>>
        BY <3>1a
      <3>2. CASE i = Len(retired) + 1
        BY <2>2, <2>3, <3>1, <3>2
      <3>3. CASE i # Len(retired) + 1
        <4>1. i \in DOMAIN retired
          BY <2>2, <3>3
        <4> QED
          BY <2>2, <3>1, <4>1, LimboMember
      <3> QED
        BY <3>2, <3>3
    <2>5. ASSUME NEW p \in Limbo
          PROVE  p \in Limbo'
      <3>1a. PICK i \in DOMAIN retired : \E e \in retired[i].entries :
                p = <<e, WaitsFor(retired[i].stamp)>>
        BY <2>5, LimboMember
      <3>1. PICK e \in retired[i].entries : p = <<e, WaitsFor(retired[i].stamp)>>
        BY <3>1a
      <3>2. i \in DOMAIN retired' /\ retired'[i] = retired[i]
        BY <2>2
      <3> QED
        BY <1>1, <3>1, <3>2 DEF Limbo
    <2>6. ASSUME NEW e \in batch
          PROVE  <<e, ActiveConnections>> \in Limbo'
      <3>1. Len(retired) + 1 \in DOMAIN retired' /\ e \in retired'[Len(retired) + 1].entries
        BY <2>2
      <3>2. <<e, WaitsFor(retired'[Len(retired) + 1].stamp)>> \in Limbo'
        BY <1>1, <3>1 DEF Limbo
      <3> QED
        BY <2>2, <2>3, <3>2
    <2> QED
      BY <1>1, <2>4, <2>5, <2>6 DEF Abstract!Retire
  <1> QED
    BY <1>2, <1>3

\* The released prefix is every batch that waits for nobody but c.
LEMMA EndRefines ==
    ASSUME TmInv, NEW c \in Connections, EndTransaction(c)
    PROVE  Abstract!End(c)
  <1>1. PICK k \in 0 .. Len(retired) :
           /\ \A i \in 1 .. k : Releasable(retired[i].stamp, c)
           /\ k < Len(retired) => ~Releasable(retired[k + 1].stamp, c)
           /\ retired' = SubSeq(retired, k + 1, Len(retired))
    BY DEF EndTransaction
  <1>2. /\ DOMAIN retired' = 1 .. (Len(retired) - k)
        /\ \A i \in 1 .. (Len(retired) - k) : retired'[i] = retired[i + k]
        /\ DOMAIN retired = 1 .. Len(retired) /\ Len(retired) \in Nat
        /\ \A i \in DOMAIN retired : retired[i].stamp \in Nat
    BY <1>1, SuffixFacts, BatchFacts DEF TmInv
  <1>3. \A d \in Connections : transactions'[d] = IF d = c THEN 0 ELSE transactions[d]
    BY DEF TmInv, TmTypeOK, EndTransaction
  <1>4. c \in ActiveConnections /\ ActiveConnections' = ActiveConnections \ {c}
    BY <1>3 DEF ActiveConnections, HasTransaction, EndTransaction
  <1>5. \A n : WaitsFor(n)' = WaitsFor(n) \ {c}
    BY <1>3 DEF WaitsFor, HasTransaction
  <1>6. ASSUME NEW i \in DOMAIN retired
        PROVE  (WaitsFor(retired[i].stamp) \ {c} = {}) <=> Releasable(retired[i].stamp, c)
    <2>1. /\ retired[i].stamp \in Nat /\ retired[i].stamp <= next_transaction_id
          /\ \A d \in Connections : transactions[d] \in Nat
      BY <1>2 DEF TmInv, TmTypeOK, StampsSorted
    <2>2. Releasable(retired[i].stamp, c) <=>
             \A d \in Connections \ {c} :
                ~(HasTransaction(d) /\ transactions[d] < retired[i].stamp)
      BY <2>1 DEF Releasable
    <2> QED
      BY <2>2 DEF WaitsFor
  <1>7. ASSUME NEW i \in DOMAIN retired
        PROVE  Releasable(retired[i].stamp, c) <=> i <= k
    <2>1. CASE i <= k
      BY <1>1, <1>2, <2>1
    <2>2. CASE ~(i <= k)
      <3>1. k + 1 \in DOMAIN retired /\ k + 1 <= i /\ k < Len(retired)
        BY <1>2, <2>2
      <3>2. retired[k + 1].stamp <= retired[i].stamp
        BY <3>1 DEF TmInv, StampsSorted
      <3>3. ~Releasable(retired[k + 1].stamp, c)
        BY <1>1, <3>1
      <3>4. /\ \A d \in Connections : transactions[d] \in Nat
            /\ next_transaction_id \in Nat
            /\ retired[i].stamp \in Nat /\ retired[k + 1].stamp \in Nat
        BY <1>2, <3>1 DEF TmInv, TmTypeOK
      <3> QED
        BY <2>2, <3>2, <3>3, <3>4 DEF Releasable
    <2> QED
      BY <2>1, <2>2
  <1> DEFINE shrunk == {<<r[1], r[2] \ {c}>> : r \in Limbo}
  <1>8. ASSUME NEW p \in Limbo'
        PROVE  p \in shrunk /\ p[2] # {}
    <2>1a. PICK i \in DOMAIN retired' : \E e \in retired'[i].entries :
              p = <<e, WaitsFor(retired'[i].stamp) \ {c}>>
      BY <1>5, <1>8 DEF Limbo
    <2>1. PICK e \in retired'[i].entries : p = <<e, WaitsFor(retired'[i].stamp) \ {c}>>
      BY <2>1a
    <2>2. i + k \in DOMAIN retired /\ ~(i + k <= k) /\ retired'[i] = retired[i + k]
      BY <1>2, <2>1
    <2>3. <<e, WaitsFor(retired[i + k].stamp)>> \in Limbo
      BY <2>1, <2>2, LimboMember
    <2>4. p[2] # {}
      BY <1>6, <1>7, <2>1, <2>2
    <2> QED
      BY <2>1, <2>2, <2>3, <2>4
  <1>9. ASSUME NEW p \in shrunk, p[2] # {}
        PROVE  p \in Limbo'
    <2>1. PICK r \in Limbo : p = <<r[1], r[2] \ {c}>>
      BY <1>9
    <2>2a. PICK i \in DOMAIN retired : \E e \in retired[i].entries :
              r = <<e, WaitsFor(retired[i].stamp)>>
      BY <2>1, LimboMember
    <2>2. PICK e \in retired[i].entries : r = <<e, WaitsFor(retired[i].stamp)>>
      BY <2>2a
    <2>3. p = <<e, WaitsFor(retired[i].stamp) \ {c}>>
      BY <2>1, <2>2
    <2>4. ~(i <= k)
      BY <1>6, <1>7, <1>9, <2>3
    <2>5. i - k \in DOMAIN retired' /\ retired'[i - k] = retired[i]
      BY <1>2, <2>4
    <2> QED
      BY <1>5, <2>2, <2>3, <2>5 DEF Limbo
  <1>10. Limbo' = {b \in shrunk : b[2] # {}}
    BY <1>8, <1>9
  <1> QED
    BY <1>4, <1>10 DEF Abstract!End

LEMMA TmStepRefines ==
    ASSUME TmInv, [TmStep]_tmVars
    PROVE  [Abstract!Next]_(Abstract!vars)
  <1>1. ASSUME NEW c \in Connections, StartTransaction(c)
        PROVE  Abstract!Start(c)
    BY <1>1, StartRefines DEF StartTransaction
  <1>2. ASSUME NEW c \in Connections, GetAndMarkWritten(c)
        PROVE  Abstract!Start(c) \/ UNCHANGED Abstract!vars
    <2>1. CASE HasTransaction(c)
      <3>1. UNCHANGED <<transactions, retired>>
        BY <1>2, <2>1 DEF GetAndMarkWritten
      <3> QED
        BY <3>1 DEF Abstract!vars, ActiveConnections, Limbo, WaitsFor, HasTransaction
    <2>2. CASE ~HasTransaction(c)
      BY <1>2, <2>2, StartRefines DEF GetAndMarkWritten
    <2> QED
      BY <2>1, <2>2
  <1>3. ASSUME UNCHANGED tmVars
        PROVE  UNCHANGED Abstract!vars
    BY <1>3 DEF tmVars, Abstract!vars, ActiveConnections, Limbo, WaitsFor, HasTransaction
  <1> QED
    BY <1>1, <1>2, <1>3, RetireRefines, EndRefines DEF TmStep, Abstract!Next

(***************************************************************************)
(* The manager implements GracePeriod: with one integer per batch, an      *)
(* entry is released exactly when a transaction ends and none of those     *)
(* active at its retirement is left (RetireEntries(), EndTransaction()).   *)
(***************************************************************************)
THEOREM TmRefinement == TmSpec => ImplementsGracePeriod
  <1>1. TmInit => Abstract!Init
    BY DEF TmInit, Abstract!Init, ActiveConnections, HasTransaction, Limbo
  <1>2. TmNext => TmStep
    BY DEF TmNext, TmStep
  <1>3. TmInv /\ [TmNext]_tmVars => [Abstract!Next]_(Abstract!vars)
    BY <1>2, TmStepRefines
  <1> QED
    BY <1>1, <1>2, <1>3, TmInitInv, TmStepInv, PTL
    DEF TmSpec, ImplementsGracePeriod, Abstract!Spec
=============================================================================
