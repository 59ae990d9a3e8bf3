------------------------- MODULE CatalogCacheProofs -------------------------
(***************************************************************************)
(* Proofs about the catalog cache: no entry is freed under a transaction   *)
(* that looked it up, a set that counts as loaded is complete, a plan owns *)
(* what it points to while the cache has it, a lookup sees what the last   *)
(* clear saw or more, and ROLLBACK remembers every statement that reached  *)
(* the server.                                                             *)
(***************************************************************************)
EXTENDS CatalogCache, TransactionManagerProofs

-----------------------------------------------------------------------------
(* The inductive invariant, by subject.                                    *)

\* load_lock protects a load from its query to its last CreateEntry(): the set
\* is empty before the first entry is created, and whenever it is not loaded
\* and nobody loads it.
LoadInv ==
    /\ \A c \in Connections : pc[c] \in {"query", "create"} => load_lock = c
    /\ \A c \in Connections : pc[c] = "query" => entries = {}
    /\ load_lock = None /\ ~is_loaded => entries = {}

\* What is in the cache, or about to be created in it, was read at or after the
\* last removal.  An object that is not allocated has no tables.
FreshInv ==
    /\ floor <= server
    /\ \A c \in Connections : since[c] <= floor
    /\ \A c \in Connections : pc[c] = "create" => floor <= answer[c].version
    /\ \A e \in entries : /\ schema[e] # NoSchema
                          /\ floor <= schema[e].version
                          /\ tables[e].version # 0 => floor <= tables[e].version
    /\ \A e \in Entries : schema[e] = NoSchema => tables[e].version = 0

\* Where a statement has an entry in hand, it is as new as its lookup asks, and
\* a table set is only reset by the connection that is loading it.
Working == {"tables", "engines", "columns", "bound"}

StatementInv ==
    \A c \in Connections :
        /\ pc[c] \in Working =>
              /\ current[c] \in Entries
              /\ schema[current[c]] # NoSchema
              /\ since[c] <= schema[current[c]].version
              /\ tables[current[c]].version # 0 => since[c] <= tables[current[c]].version
        /\ pc[c] \in {"engines", "columns"} => tables[current[c]].lock = c
        /\ pc[c] \in {"columns", "bound"} => tables[current[c]].version # 0
        /\ pc[c] = "bound" => tables[current[c]].lock = None

\* A pointer is protected by the cache, by a ClearEntries() in progress, or by a
\* batch whose stamp is above the id of the transaction that holds it.
PointerInv ==
    \A c \in Connections : \A e \in held[c] :
        /\ HasTransaction(c)
        /\ \/ e \in entries
           \/ \E d \in Connections : e \in cleared[d]
           \/ \E i \in DOMAIN retired : /\ e \in retired[i].entries
                                        /\ transactions[c] < retired[i].stamp

\* A lookup runs inside a transaction; so does a statement that may look up again.
Looking == {"load", "query", "create", "find"} \cup Working

TransactionInv ==
    \A c \in Connections :
        /\ pc[c] \in Looking => HasTransaction(c)
        /\ target[c] # None => HasTransaction(c) /\ pc[c] # "idle"

\* ClearEntries() keeps entries in its own vector only until they are retired.
ClearedInv == \A c \in Connections : pc[c] # "retire" => cleared[c] = {}

\* A statement that is running on the server is marked.
WriteInv ==
    \A c \in Connections : pc[c] = "execute" => HasTransaction(c) /\ written[c]

Inv == TmInv /\ CacheTypeOK /\ LoadInv /\ FreshInv /\ StatementInv /\ PointerInv
         /\ ClearedInv /\ TransactionInv /\ WriteInv

\* One entry per name, although a load creates them one by one in sight of every
\* search: the names the load has left have no entry, the others have one, and
\* the set counts as loaded only when none is left.
NameInv ==
    /\ \A e, f \in entries : schema[e].name = schema[f].name => e = f
    /\ \A c \in Connections : pc[c] \in {"query", "create"} => ~is_loaded
    /\ \A c \in Connections : pc[c] = "create" =>
          \A n \in Databases : n \in answer[c].names <=> Cached(n) = {}
    /\ LoadedIsComplete

\* The entry a plan points to was allocated once: no later load creates it again.
PlanInv ==
    /\ \A c \in Connections :
          plan[c].table_entry # None => schema[plan[c].table_entry] # NoSchema
    /\ PlanOwnsItsEntry

-----------------------------------------------------------------------------
\* The empty records have the types of the variables that hold them.
LEMMA NoneTypes ==
    /\ NoSchema \in [name : Databases \cup {None}, version : Nat]
    /\ NoTables \in [lock : Connections \cup {None}, version : Nat]
    /\ NoAnswer \in [names : SUBSET Databases, version : Nat]
    /\ NoPlan \in [table_entry : Entries \cup {None}, lifetime : Entries \cup {None}]
  BY DEF NoSchema, NoTables, NoAnswer, NoPlan

LEMMA InitInv == Init => Inv
  <1> SUFFICES ASSUME Init PROVE Inv
    OBVIOUS
  <1>1. TmInv
    BY TmInitInv DEF Init
  <1>2. CacheTypeOK
    <2>1. /\ schema \in [Entries -> [name : Databases \cup {None}, version : Nat]]
          /\ tables \in [Entries -> [lock : Connections \cup {None}, version : Nat]]
          /\ answer \in [Connections -> [names : SUBSET Databases, version : Nat]]
          /\ plan \in [Connections -> [table_entry : Entries \cup {None},
                                       lifetime : Entries \cup {None}]]
      BY NoneTypes DEF Init
    <2>2. /\ load_lock \in Connections \cup {None} /\ entries \in SUBSET Entries
          /\ server \in Nat \ {0} /\ clears \in Nat /\ floor \in Nat
      BY DEF Init
    <2>5. is_loaded \in BOOLEAN
      BY DEF Init
    <2>3. /\ pc \in [Connections -> Locations]
          /\ target \in [Connections -> Databases \cup {None}]
          /\ current \in [Connections -> Entries \cup {None}]
          /\ keep_alive \in [Connections -> Entries \cup {None}]
      BY DEF Init, Locations
    <2>4. /\ cleared \in [Connections -> SUBSET Entries]
          /\ held \in [Connections -> SUBSET Entries]
          /\ since \in [Connections -> Nat]
      BY DEF Init
    <2> QED
      BY <2>1, <2>2, <2>3, <2>4, <2>5 DEF CacheTypeOK
  <1>3. /\ LoadInv /\ PointerInv /\ WriteInv /\ StatementInv
        /\ TransactionInv /\ ClearedInv
    BY DEF Init, LoadInv, PointerInv, WriteInv, StatementInv, TransactionInv, ClearedInv,
       Looking, Working
  <1>4. FreshInv
    BY DEF Init, FreshInv, NoTables
  <1> QED
    BY <1>1, <1>2, <1>3, <1>4 DEF Inv

\* Every step of the system is a step of the transaction manager, or none.
LEMMA StepIsTmStep ==
    ASSUME CacheTypeOK, [Next]_vars
    PROVE  [TmStep]_tmVars
  <1>1. ASSUME NEW c \in Connections, GetTransaction(c)
        PROVE  [TmStep]_tmVars
    BY <1>1 DEF GetTransaction, TmStep
  <1>2. ASSUME NEW c \in Connections, UserStep(c)
        PROVE  [TmStep]_tmVars
    BY <1>1, <1>2 DEF UserStep, BeginLookup, StartWrite, BeginClear, End, DropPlan, TmStep, tmVars
  <1>3. ASSUME NEW c \in Connections, LockStep(c)
        PROVE  UNCHANGED tmVars
    BY <1>3 DEF LockStep, TryLoadEntries, TryLoadTables, ClearEntries
  <1>4. ASSUME NEW c \in Connections, FreeStep(c)
        PROVE  [TmStep]_tmVars
    <2>1. CASE RetireCleared(c)
      <3>1. cleared[c] \in SUBSET Entries
        BY DEF CacheTypeOK
      <3> QED
        BY <2>1, <3>1 DEF RetireCleared, TmStep
    <2>2. CASE ~RetireCleared(c)
      BY <1>4, <2>2 DEF FreeStep, LoadQuery, LoadFailure, CreateEntry, FinishLoad,
         FindSchema, MissSchema, ScanSchemas, LoadEngines, LoadColumns, LoadTablesFailure,
         FinishStatement, BindPlan, ExecuteStatement
    <2> QED
      BY <2>1, <2>2
  <1>5. CASE UNCHANGED vars
    BY <1>5 DEF vars, tmVars
  <1> QED
    BY <1>2, <1>3, <1>4, <1>5 DEF Next

-----------------------------------------------------------------------------
(* Types.                                                                  *)

LEMMA EndStatementType ==
    ASSUME CacheTypeOK, NEW c \in Connections, NEW from, EndStatement(c, from)
    PROVE  /\ pc' \in [Connections -> Locations]
           /\ target' \in [Connections -> Databases \cup {None}]
           /\ answer' \in [Connections -> [names : SUBSET Databases, version : Nat]]
           /\ current' \in [Connections -> Entries \cup {None}]
           /\ keep_alive' \in [Connections -> Entries \cup {None}]
           /\ since' \in [Connections -> Nat]
  BY NoneTypes DEF EndStatement, Goto, CacheTypeOK, Locations

LEMMA OwnerType ==
    ASSUME CacheTypeOK, NEW n
    PROVE  GetEntryOwner(n) \in Entries \cup {None}
  BY DEF GetEntryOwner, Cached, CacheTypeOK

LEMMA LockStepType ==
    ASSUME CacheTypeOK, NEW c \in Connections, LockStep(c)
    PROVE  CacheTypeOK'
  <1>1. CASE TryLoadEntries(c)
    BY <1>1 DEF TryLoadEntries, Goto, historyVars, CacheTypeOK, Locations
  <1>2. CASE TryLoadTables(c)
    <2>0. \/ UNCHANGED tables /\ Goto(c, "tables", "bound")
          \/ /\ tables' = [tables EXCEPT ![current[c]].lock = c]
             /\ Goto(c, "tables", "engines")
      BY <1>2 DEF TryLoadTables
    <2>1. tables' \in [Entries -> [lock : Connections \cup {None}, version : Nat]]
      <3>1. CASE tables' = [tables EXCEPT ![current[c]].lock = c]
        BY <3>1 DEF CacheTypeOK
      <3> QED
        BY <2>0, <3>1 DEF CacheTypeOK
    <2>2. pc' \in [Connections -> Locations]
      BY <2>0 DEF Goto, CacheTypeOK, Locations
    <2> QED
      BY <1>2, <2>1, <2>2 DEF TryLoadTables, historyVars, CacheTypeOK
  <1>3. CASE ClearEntries(c)
    BY <1>3 DEF ClearEntries, Goto, CacheTypeOK, Locations
  <1> QED
    BY <1>1, <1>2, <1>3 DEF LockStep

LEMMA UserStepType ==
    ASSUME CacheTypeOK, NEW c \in Connections, UserStep(c)
    PROVE  CacheTypeOK'
  <1>1. CASE BeginLookup(c)
    BY <1>1 DEF BeginLookup, cacheVars, Goto, CacheTypeOK, Locations
  <1>2. CASE StartWrite(c)
    <2>1. pc' \in [Connections -> Locations]
      BY <1>2 DEF StartWrite, Goto, CacheTypeOK, Locations
    <2>2. GetEntryOwner(schema[current[c]].name) \in Entries \cup {None}
      BY OwnerType
    <2>3. keep_alive' \in [Connections -> Entries \cup {None}]
      BY <1>2, <2>2 DEF StartWrite, CacheTypeOK
    <2> QED
      BY <1>2, <2>1, <2>3 DEF StartWrite, cacheVars, historyVars, CacheTypeOK
  <1>3. CASE BeginClear(c)
    BY <1>3 DEF BeginClear, cacheVars, historyVars, Goto, CacheTypeOK, Locations
  <1>4. CASE End(c)
    BY <1>4 DEF End, cacheVars, statementVars, CacheTypeOK
  <1>5. CASE DropPlan(c)
    BY <1>5, NoneTypes DEF DropPlan, cacheVars, statementVars, historyVars, CacheTypeOK
  <1> QED
    BY <1>1, <1>2, <1>3, <1>4, <1>5 DEF UserStep

LEMMA FreeStepType ==
    ASSUME CacheTypeOK, NEW c \in Connections, FreeStep(c)
    PROVE  CacheTypeOK'
  <1>1. CASE LoadQuery(c)
    BY <1>1 DEF LoadQuery, Goto, cacheVars, historyVars, CacheTypeOK, Locations
  <1>2. CASE LoadFailure(c)
    BY <1>2, EndStatementType DEF LoadFailure, CacheTypeOK
  <1>3. CASE CreateEntry(c)
    BY <1>3 DEF CreateEntry, Unused, historyVars, CacheTypeOK
  <1>4. CASE FinishLoad(c)
    BY <1>4, NoneTypes DEF FinishLoad, Goto, historyVars, CacheTypeOK, Locations
  <1>5. CASE FindSchema(c)
    BY <1>5 DEF FindSchema, Goto, Cached, cacheVars, historyVars, CacheTypeOK, Locations
  <1>6. CASE MissSchema(c)
    BY <1>6 DEF MissSchema, Goto, cacheVars, historyVars, CacheTypeOK, Locations
  <1>7. CASE ScanSchemas(c)
    BY <1>7 DEF ScanSchemas, Goto, cacheVars, historyVars, CacheTypeOK, Locations
  <1>8. CASE LoadEngines(c)
    BY <1>8 DEF LoadEngines, Goto, historyVars, CacheTypeOK, Locations
  <1>9. CASE LoadColumns(c)
    BY <1>9 DEF LoadColumns, Goto, historyVars, CacheTypeOK, Locations
  <1>10. CASE LoadTablesFailure(c)
    BY <1>10, EndStatementType, NoneTypes DEF LoadTablesFailure, CacheTypeOK
  <1>11. CASE FinishStatement(c)
    BY <1>11, EndStatementType DEF FinishStatement, cacheVars, CacheTypeOK
  <1>12. CASE BindPlan(c)
    BY <1>12, EndStatementType, OwnerType DEF BindPlan, cacheVars, CacheTypeOK
  <1>13. CASE ExecuteStatement(c)
    BY <1>13 DEF ExecuteStatement, Goto, cacheVars, CacheTypeOK, Locations
  <1>14. CASE RetireCleared(c)
    <2>1. CASE EndStatement(c, "retire")
      BY <1>14, <2>1, EndStatementType DEF RetireCleared, cacheVars, CacheTypeOK
    <2>2. CASE Goto(c, "retire", "load") /\ since' = [since EXCEPT ![c] = floor]
               /\ UNCHANGED <<target, answer, current, keep_alive>>
      BY <1>14, <2>2 DEF RetireCleared, Goto, cacheVars, CacheTypeOK, Locations
    <2> QED
      BY <1>14, <2>1, <2>2 DEF RetireCleared
  <1> QED
    BY <1>1, <1>2, <1>3, <1>4, <1>5, <1>6, <1>7, <1>8, <1>9, <1>10, <1>11, <1>12, <1>13, <1>14
    DEF FreeStep

LEMMA StepType == CacheTypeOK /\ [Next]_vars => CacheTypeOK'
  <1> SUFFICES ASSUME CacheTypeOK, [Next]_vars PROVE CacheTypeOK'
    OBVIOUS
  <1>1. CASE UNCHANGED vars
    BY <1>1 DEF vars, cacheVars, statementVars, historyVars, CacheTypeOK
  <1> QED
    BY <1>1, LockStepType, FreeStepType, UserStepType DEF Next

-----------------------------------------------------------------------------
(* The lock on the schema set.                                             *)

\* A step moves one connection.
LEMMA GotoFacts ==
    ASSUME CacheTypeOK, NEW c \in Connections, NEW from, NEW to, Goto(c, from, to)
    PROVE  pc[c] = from /\ \A d \in Connections : pc'[d] = IF d = c THEN to ELSE pc[d]
  BY DEF CacheTypeOK, Goto

LEMMA EndStatementFacts ==
    ASSUME CacheTypeOK, NEW c \in Connections, NEW from, EndStatement(c, from)
    PROVE  /\ pc[c] = from
           /\ \A d \in Connections :
                 /\ pc'[d] = IF d = c THEN "idle" ELSE pc[d]
                 /\ target'[d] = IF d = c THEN None ELSE target[d]
                 /\ current'[d] = IF d = c THEN None ELSE current[d]
                 /\ answer'[d] = IF d = c THEN NoAnswer ELSE answer[d]
                 /\ since'[d] = IF d = c THEN 0 ELSE since[d]
  BY DEF CacheTypeOK, EndStatement, Goto

\* Steps that leave the schema set alone and do not start or end a load.
LEMMA LoadInvFrame ==
    ASSUME LoadInv, UNCHANGED <<load_lock, is_loaded, entries>>,
           \A d \in Connections : pc'[d] = pc[d] \/ pc'[d] \notin {"query", "create"}
    PROVE  LoadInv'
  BY DEF LoadInv

LEMMA LockStepLoad ==
    ASSUME CacheTypeOK, LoadInv, NEW c \in Connections, LockStep(c)
    PROVE  LoadInv'
  <1>1. CASE TryLoadEntries(c)
    BY <1>1, NoneAssumption DEF TryLoadEntries, Goto, CacheTypeOK, LoadInv
  <1>2. CASE TryLoadTables(c)
    BY <1>2, LoadInvFrame DEF TryLoadTables, Goto, CacheTypeOK
  <1>3. CASE ClearEntries(c)
    BY <1>3, NoneAssumption DEF ClearEntries, Goto, CacheTypeOK, LoadInv
  <1> QED
    BY <1>1, <1>2, <1>3 DEF LockStep

LEMMA UserStepLoad ==
    ASSUME CacheTypeOK, LoadInv, NEW c \in Connections, UserStep(c)
    PROVE  LoadInv'
  <1>1. UNCHANGED <<load_lock, is_loaded, entries>>
    BY DEF UserStep, BeginLookup, StartWrite, BeginClear, End, DropPlan, cacheVars
  <1>2. \A d \in Connections : pc'[d] = pc[d] \/ pc'[d] \notin {"query", "create"}
    BY GotoFacts DEF UserStep, BeginLookup, StartWrite, BeginClear, End, DropPlan, statementVars
  <1> QED
    BY <1>1, <1>2, LoadInvFrame

LEMMA FreeStepLoad ==
    ASSUME CacheTypeOK, LoadInv, NEW c \in Connections, FreeStep(c)
    PROVE  LoadInv'
  <1>1. CASE LoadQuery(c)
    BY <1>1 DEF LoadQuery, Goto, CacheTypeOK, cacheVars, LoadInv
  <1>2. CASE LoadFailure(c)
    BY <1>2, EndStatementFacts, NoneAssumption DEF LoadFailure, LoadInv
  <1>3. CASE CreateEntry(c)
    BY <1>3, NoneAssumption DEF CreateEntry, LoadInv
  <1>4. CASE FinishLoad(c)
    BY <1>4, GotoFacts, NoneAssumption DEF FinishLoad, LoadInv
  <1>5. CASE \/ FindSchema(c) \/ MissSchema(c) \/ ScanSchemas(c) \/ LoadEngines(c)
             \/ LoadColumns(c) \/ ExecuteStatement(c)
    BY <1>5, GotoFacts, LoadInvFrame DEF FindSchema, MissSchema, ScanSchemas, LoadEngines,
       LoadColumns, ExecuteStatement, cacheVars
  <1>6. CASE LoadTablesFailure(c) \/ FinishStatement(c) \/ BindPlan(c)
    BY <1>6, EndStatementFacts, LoadInvFrame DEF LoadTablesFailure, FinishStatement, BindPlan,
       cacheVars
  <1>7. CASE RetireCleared(c)
    BY <1>7, EndStatementFacts, GotoFacts, LoadInvFrame DEF RetireCleared, cacheVars
  <1> QED
    BY <1>1, <1>2, <1>3, <1>4, <1>5, <1>6, <1>7 DEF FreeStep

-----------------------------------------------------------------------------
(* Transactions, marks and pointers.                                       *)

\* What a step of connection c does to the transactions: it may start its own.
LEMMA GetTransactionFacts ==
    ASSUME TmInv, NEW c \in Connections, GetTransaction(c) \/ GetAndMarkWritten(c)
    PROVE  /\ HasTransaction(c)'
           /\ UNCHANGED retired
           /\ \A d \in Connections : HasTransaction(d) => transactions'[d] = transactions[d]
           /\ \A d \in Connections \ {c} : written'[d] = written[d]
  BY DEF TmInv, TmTypeOK, GetTransaction, GetAndMarkWritten, StartTransaction, HasTransaction, tmVars

LEMMA EndTransactionFacts ==
    ASSUME TmInv, NEW c \in Connections, EndTransaction(c)
    PROVE  /\ ~HasTransaction(c)'
           /\ \A d \in Connections \ {c} : /\ transactions'[d] = transactions[d]
                                           /\ written'[d] = written[d]
  BY DEF TmInv, TmTypeOK, EndTransaction, HasTransaction

LEMMA LockStepTransaction ==
    ASSUME CacheTypeOK, TransactionInv, WriteInv, NEW c \in Connections, LockStep(c)
    PROVE  TransactionInv' /\ WriteInv'
  <1>1. UNCHANGED <<transactions, written, target>>
    BY DEF LockStep, TryLoadEntries, TryLoadTables, ClearEntries, tmVars
  <1>2. \A d \in Connections : /\ pc'[d] # "execute"  \/ pc'[d] = pc[d]
                               /\ pc'[d] \in Looking => pc[d] \in Looking
                               /\ pc'[d] = "idle" => pc[d] = "idle"
    BY GotoFacts DEF LockStep, TryLoadEntries, TryLoadTables, ClearEntries, Looking, Working
  <1> QED
    BY <1>1, <1>2 DEF TransactionInv, WriteInv, HasTransaction

LEMMA FreeStepTransaction ==
    ASSUME CacheTypeOK, TransactionInv, WriteInv, NEW c \in Connections, FreeStep(c)
    PROVE  TransactionInv' /\ WriteInv'
  <1>1. UNCHANGED <<transactions, written>>
    BY DEF FreeStep, LoadQuery, LoadFailure, CreateEntry, FinishLoad, FindSchema, MissSchema,
       ScanSchemas, LoadEngines, LoadColumns, LoadTablesFailure, FinishStatement, BindPlan,
       ExecuteStatement, RetireCleared, RetireEntries, tmVars
  <1>2. \A d \in Connections : /\ pc'[d] # "execute" \/ pc'[d] = pc[d]
                               /\ pc'[d] \in Looking => pc[d] \in Looking \/ target[d] # None
                               /\ pc'[d] = "idle" => pc[d] = "idle" \/ target'[d] = None
                               /\ target'[d] \in {target[d], None}
    <2>1. CASE \E from : EndStatement(c, from)
      BY <2>1, EndStatementFacts DEF Looking, Working
    <2>2. CASE CreateEntry(c)
      BY <2>2 DEF CreateEntry
    <2>3. CASE RetireCleared(c) /\ ~\E from : EndStatement(c, from)
      BY <2>3, GotoFacts DEF RetireCleared
    <2>4. CASE \/ LoadQuery(c) \/ FinishLoad(c) \/ FindSchema(c) \/ MissSchema(c)
               \/ ScanSchemas(c) \/ LoadEngines(c) \/ LoadColumns(c) \/ ExecuteStatement(c)
      BY <2>4, GotoFacts DEF LoadQuery, FinishLoad, FindSchema, MissSchema, ScanSchemas,
         LoadEngines, LoadColumns, ExecuteStatement, Looking, Working
    <2> QED
      BY <2>1, <2>2, <2>3, <2>4
      DEF FreeStep, LoadFailure, LoadTablesFailure, FinishStatement, BindPlan
  <1> QED
    BY <1>1, <1>2 DEF TransactionInv, WriteInv, HasTransaction

LEMMA UserStepTransaction ==
    ASSUME TmInv, CacheTypeOK, TransactionInv, WriteInv, NEW c \in Connections, UserStep(c)
    PROVE  TransactionInv' /\ WriteInv'
  <1>1. CASE BeginLookup(c)
    <2>1. /\ HasTransaction(c)' /\ UNCHANGED written
          /\ \A d \in Connections : HasTransaction(d) => HasTransaction(d)'
      BY <1>1, GetTransactionFacts
      DEF BeginLookup, GetTransaction, StartTransaction, HasTransaction, tmVars
    <2>2. \A d \in Connections : pc'[d] = IF d = c THEN "load" ELSE pc[d]
      BY <1>1, GotoFacts DEF BeginLookup
    <2>3. \A d \in Connections \ {c} : target'[d] = target[d]
      BY <1>1 DEF BeginLookup, CacheTypeOK
    <2> QED
      BY <2>1, <2>2, <2>3 DEF TransactionInv, WriteInv
  <1>2. CASE StartWrite(c)
    <2>1. /\ written'[c] = TRUE /\ HasTransaction(c)'
          /\ \A d \in Connections : HasTransaction(d) => HasTransaction(d)'
          /\ \A d \in Connections \ {c} : written'[d] = written[d]
      BY <1>2, GetTransactionFacts
      DEF StartWrite, GetAndMarkWritten, HasTransaction, TmInv, TmTypeOK
    <2>2. /\ \A d \in Connections : pc'[d] = IF d = c THEN "execute" ELSE pc[d]
          /\ UNCHANGED target
      BY <1>2, GotoFacts DEF StartWrite
    <2> QED
      BY <2>1, <2>2 DEF TransactionInv, WriteInv
  <1>3. CASE BeginClear(c)
    BY <1>3, GotoFacts DEF BeginClear, TransactionInv, WriteInv, HasTransaction, tmVars, Looking, Working
  <1>4. CASE End(c)
    <2>1. pc[c] = "idle" /\ UNCHANGED <<pc, target>>
      BY <1>4 DEF End, statementVars
    <2>2. \A d \in Connections \ {c} : HasTransaction(d)' = HasTransaction(d) /\ written'[d] = written[d]
      BY <1>4, EndTransactionFacts DEF End, HasTransaction
    <2>3. "idle" \notin Looking
      BY DEF Looking, Working
    <2> QED
      BY <2>1, <2>2, <2>3 DEF TransactionInv, WriteInv
  <1>5. CASE DropPlan(c)
    BY <1>5 DEF DropPlan, statementVars, tmVars, TransactionInv, WriteInv, HasTransaction
  <1> QED
    BY <1>1, <1>2, <1>3, <1>4, <1>5 DEF UserStep

\* Steps that remove nothing from the owners of an entry.
LEMMA PointerFrame ==
    ASSUME PointerInv, entries \subseteq entries', UNCHANGED <<cleared, retired>>,
           \A d \in Connections : HasTransaction(d) => transactions'[d] = transactions[d],
           \A d \in Connections : \A e \in held'[d] :
               HasTransaction(d) /\ (e \in held[d] \/ e \in entries)
    PROVE  PointerInv'
  <1> SUFFICES ASSUME NEW c \in Connections, NEW e \in held'[c]
               PROVE  /\ HasTransaction(c)'
                      /\ \/ e \in entries'
                         \/ \E d \in Connections : e \in cleared'[d]
                         \/ \E i \in DOMAIN retired' : /\ e \in retired'[i].entries
                                                       /\ transactions'[c] < retired'[i].stamp
    BY DEF PointerInv
  <1>1. HasTransaction(c) /\ HasTransaction(c)' /\ transactions'[c] = transactions[c]
    BY DEF HasTransaction
  <1>2. CASE e \in held[c]
    BY <1>1, <1>2 DEF PointerInv
  <1> QED
    BY <1>1, <1>2

LEMMA PointerKeep ==
    ASSUME PointerInv, entries \subseteq entries', UNCHANGED <<cleared, retired, held>>,
           \A d \in Connections : HasTransaction(d) => transactions'[d] = transactions[d]
    PROVE  PointerInv'
  BY PointerFrame DEF PointerInv

\* Under both locks, the entries pass from the cache to the clearing statement.
LEMMA ClearEntriesPointer ==
    ASSUME CacheTypeOK, PointerInv, NEW c \in Connections, cleared[c] = {}, ClearEntries(c)
    PROVE  PointerInv'
  <1>1. /\ UNCHANGED <<held, transactions, retired>>
        /\ \A d \in Connections : cleared'[d] = IF d = c THEN entries ELSE cleared[d]
    BY DEF ClearEntries, tmVars, CacheTypeOK
  <1> SUFFICES ASSUME NEW d \in Connections, NEW e \in held[d]
               PROVE  /\ HasTransaction(d)
                      /\ \/ \E x \in Connections : e \in cleared'[x]
                         \/ \E i \in DOMAIN retired : /\ e \in retired[i].entries
                                                      /\ transactions[d] < retired[i].stamp
    BY <1>1 DEF PointerInv, HasTransaction
  <1> QED
    BY <1>1 DEF PointerInv

\* Their batch is stamped above every id handed out so far.
LEMMA RetireClearedPointer ==
    ASSUME TmInv, CacheTypeOK, PointerInv, NEW c \in Connections, RetireCleared(c)
    PROVE  PointerInv'
  <1>1. /\ UNCHANGED <<held, entries, transactions, next_transaction_id>>
        /\ \A d \in Connections : cleared'[d] = IF d = c THEN {} ELSE cleared[d]
        /\ RetireEntries(cleared[c])
    BY DEF RetireCleared, RetireEntries, cacheVars, CacheTypeOK
  <1>2. CASE cleared[c] = {}
    BY <1>1, <1>2, PointerKeep DEF RetireEntries, CacheTypeOK, RetireCleared
  <1>3. CASE cleared[c] # {}
    <2> DEFINE b == [stamp |-> next_transaction_id, entries |-> cleared[c]]
    <2>1. b \in RetiredBatch /\ retired' = Append(retired, b)
      BY <1>1, <1>3 DEF TmInv, TmTypeOK, CacheTypeOK, RetiredBatch, RetireEntries
    <2>2. /\ DOMAIN retired = 1 .. Len(retired) /\ Len(retired) \in Nat
          /\ DOMAIN retired' = 1 .. (Len(retired) + 1)
          /\ \A i \in DOMAIN retired : i \in DOMAIN retired' /\ retired'[i] = retired[i]
          /\ Len(retired) + 1 \in DOMAIN retired' /\ retired'[Len(retired) + 1] = b
      BY <2>1, AppendFacts, BatchFacts DEF TmInv
    <2> SUFFICES ASSUME NEW d \in Connections, NEW e \in held[d]
                 PROVE  /\ HasTransaction(d)
                        /\ \/ e \in entries
                           \/ \E x \in Connections : e \in cleared'[x]
                           \/ \E i \in DOMAIN retired' : /\ e \in retired'[i].entries
                                                         /\ transactions[d] < retired'[i].stamp
      BY <1>1 DEF PointerInv, HasTransaction
    <2>3. HasTransaction(d) /\ transactions[d] < next_transaction_id
      BY DEF PointerInv, TmInv, IdsBelowNext
    <2>4. CASE e \in cleared[c]
      BY <2>2, <2>3, <2>4
    <2>5. CASE \E i \in DOMAIN retired : e \in retired[i].entries /\ transactions[d] < retired[i].stamp
      BY <2>2, <2>3, <2>5
    <2> QED
      BY <1>1, <2>3, <2>4, <2>5 DEF PointerInv
  <1> QED
    BY <1>2, <1>3

\* A batch is released only when every other active transaction's id is at or
\* above its stamp.
LEMMA EndPointer ==
    ASSUME TmInv, CacheTypeOK, PointerInv, NEW c \in Connections, End(c)
    PROVE  PointerInv'
  <1>1. PICK k \in 0 .. Len(retired) :
           /\ \A i \in 1 .. k : Releasable(retired[i].stamp, c)
           /\ retired' = SubSeq(retired, k + 1, Len(retired))
    BY DEF End, EndTransaction
  <1>2. /\ DOMAIN retired' = 1 .. (Len(retired) - k)
        /\ \A i \in 1 .. (Len(retired) - k) : retired'[i] = retired[i + k]
        /\ DOMAIN retired = 1 .. Len(retired) /\ Len(retired) \in Nat
        /\ \A i \in DOMAIN retired : retired[i].stamp \in Nat
    BY <1>1, SuffixFacts, BatchFacts DEF TmInv
  <1>3. /\ UNCHANGED <<entries, cleared>>
        /\ \A d \in Connections : held'[d] = IF d = c THEN {} ELSE held[d]
        /\ \A d \in Connections \ {c} : transactions'[d] = transactions[d]
    BY EndTransactionFacts DEF End, cacheVars, statementVars, CacheTypeOK
  <1> SUFFICES ASSUME NEW d \in Connections \ {c}, NEW e \in held[d]
               PROVE  /\ HasTransaction(d)
                      /\ \/ e \in entries
                         \/ \E x \in Connections : e \in cleared[x]
                         \/ \E i \in DOMAIN retired' : /\ e \in retired'[i].entries
                                                       /\ transactions[d] < retired'[i].stamp
    BY <1>3 DEF PointerInv, HasTransaction
  <1>4. HasTransaction(d) /\ transactions[d] \in Nat
    BY DEF PointerInv, TmInv, TmTypeOK
  <1>5. CASE \E i \in DOMAIN retired : e \in retired[i].entries /\ transactions[d] < retired[i].stamp
    <2>1. PICK i \in DOMAIN retired : e \in retired[i].entries /\ transactions[d] < retired[i].stamp
      BY <1>5
    <2>2. i \notin 1 .. k
      BY <1>1, <1>2, <1>4, <2>1 DEF Releasable
    <2>3. i - k \in 1 .. (Len(retired) - k) /\ (i - k) + k = i
      BY <1>2, <2>2
    <2>4. i - k \in DOMAIN retired' /\ retired'[i - k] = retired[i]
      BY <1>2, <2>3
    <2> QED
      BY <1>4, <2>1, <2>4
  <1> QED
    BY <1>4, <1>5 DEF PointerInv

LEMMA StepPointer ==
    ASSUME Inv, [Next]_vars
    PROVE  PointerInv'
  <1> USE DEF Inv
  <1>1. ASSUME NEW c \in Connections, LockStep(c) PROVE PointerInv'
    <2>1. CASE ClearEntries(c)
      <3>1. cleared[c] = {}
        BY <2>1 DEF ClearEntries, Goto, ClearedInv
      <3> QED
        BY <2>1, <3>1, ClearEntriesPointer
    <2>2. CASE TryLoadEntries(c) \/ TryLoadTables(c)
      BY <2>2, PointerKeep DEF TryLoadEntries, TryLoadTables, tmVars
    <2> QED
      BY <1>1, <2>1, <2>2 DEF LockStep
  <1>2. ASSUME NEW c \in Connections, FreeStep(c) PROVE PointerInv'
    <2>1. CASE RetireCleared(c)
      BY <2>1, RetireClearedPointer
    <2>2. CASE LoadFailure(c)
      <3>1. entries = {}
        BY <2>2, EndStatementFacts DEF LoadFailure, LoadInv
      <3> QED
        BY <2>2, <3>1, PointerKeep DEF LoadFailure, tmVars
    <2>3. CASE FindSchema(c) \/ ScanSchemas(c)
      <3>1. HasTransaction(c)
        BY <2>3, GotoFacts DEF FindSchema, ScanSchemas, TransactionInv, Looking
      <3>2. \A d \in Connections : \A e \in held'[d] :
                e \in held[d] \/ (d = c /\ e \in entries)
        BY <2>3 DEF FindSchema, ScanSchemas, Cached, CacheTypeOK
      <3>3. UNCHANGED <<entries, cleared, retired, transactions>>
        BY <2>3 DEF FindSchema, ScanSchemas, cacheVars, tmVars
      <3>4. \A d \in Connections : held[d] # {} => HasTransaction(d)
        BY DEF PointerInv
      <3> QED
        BY <3>1, <3>2, <3>3, <3>4, PointerFrame
    <2>4. CASE CreateEntry(c)
      BY <2>4, PointerKeep DEF CreateEntry, tmVars
    <2>5. CASE \/ LoadQuery(c) \/ FinishLoad(c) \/ MissSchema(c) \/ LoadEngines(c)
               \/ LoadColumns(c) \/ LoadTablesFailure(c) \/ FinishStatement(c)
               \/ BindPlan(c) \/ ExecuteStatement(c)
      BY <2>5, PointerKeep DEF LoadQuery, FinishLoad, MissSchema, LoadEngines, LoadColumns,
         LoadTablesFailure, FinishStatement, BindPlan, ExecuteStatement, cacheVars, tmVars
    <2> QED
      BY <1>2, <2>1, <2>2, <2>3, <2>4, <2>5 DEF FreeStep
  <1>3. ASSUME NEW c \in Connections, UserStep(c) PROVE PointerInv'
    <2>1. CASE BeginLookup(c) \/ StartWrite(c)
      <3>1. /\ GetTransaction(c) \/ GetAndMarkWritten(c)
            /\ UNCHANGED <<entries, cleared, held>>
        BY <2>1 DEF BeginLookup, StartWrite, cacheVars
      <3> QED
        BY <3>1, GetTransactionFacts, PointerKeep
    <2>2. CASE BeginClear(c) \/ DropPlan(c)
      BY <2>2, PointerKeep DEF BeginClear, DropPlan, cacheVars, statementVars, tmVars
    <2> QED
      BY <1>3, <2>1, <2>2, EndPointer DEF UserStep
  <1>4. CASE UNCHANGED vars
    BY <1>4, PointerKeep DEF vars, cacheVars, statementVars, tmVars
  <1> QED
    BY <1>1, <1>2, <1>3, <1>4 DEF Next

LEMMA StepCleared ==
    ASSUME CacheTypeOK, ClearedInv, [Next]_vars
    PROVE  ClearedInv'
  <1>1. ASSUME NEW c \in Connections, LockStep(c) PROVE ClearedInv'
    BY <1>1, GotoFacts DEF LockStep, TryLoadEntries, TryLoadTables, ClearEntries, ClearedInv,
       CacheTypeOK
  <1>2. ASSUME NEW c \in Connections, UserStep(c) PROVE ClearedInv'
    BY <1>2, GotoFacts DEF UserStep, BeginLookup, StartWrite, BeginClear, End, DropPlan,
       statementVars, ClearedInv
  <1>3. ASSUME NEW c \in Connections, FreeStep(c) PROVE ClearedInv'
    <2>1. CASE RetireCleared(c)
      BY <2>1 DEF RetireCleared, EndStatement, Goto, CacheTypeOK, ClearedInv
    <2>2. CASE CreateEntry(c)
      BY <2>2 DEF CreateEntry, ClearedInv
    <2>3. CASE \/ LoadQuery(c) \/ FinishLoad(c) \/ FindSchema(c) \/ MissSchema(c)
               \/ ScanSchemas(c) \/ LoadEngines(c) \/ LoadColumns(c) \/ ExecuteStatement(c)
      BY <2>3, GotoFacts DEF LoadQuery, FinishLoad, FindSchema, MissSchema, ScanSchemas,
         LoadEngines, LoadColumns, ExecuteStatement, ClearedInv
    <2>4. CASE LoadFailure(c) \/ LoadTablesFailure(c) \/ FinishStatement(c) \/ BindPlan(c)
      BY <2>4, EndStatementFacts
      DEF LoadFailure, LoadTablesFailure, FinishStatement, BindPlan, ClearedInv
    <2> QED
      BY <1>3, <2>1, <2>2, <2>3, <2>4 DEF FreeStep
  <1>4. CASE UNCHANGED vars
    BY <1>4 DEF vars, statementVars, ClearedInv
  <1> QED
    BY <1>1, <1>2, <1>3, <1>4 DEF Next

-----------------------------------------------------------------------------
(* Freshness.                                                              *)

\* Numbers that the comparisons need.
LEMMA VersionTypes ==
    ASSUME CacheTypeOK
    PROVE  /\ floor \in Nat /\ server \in Nat
           /\ \A c \in Connections : since[c] \in Nat /\ answer[c].version \in Nat
           /\ \A e \in Entries : schema[e].version \in Nat /\ tables[e].version \in Nat
  BY DEF CacheTypeOK

\* Steps that change neither the cache nor what a load has read.
LEMMA FreshFrame ==
    ASSUME CacheTypeOK, FreshInv, UNCHANGED <<entries, schema, tables, floor>>,
           server' \in Nat, server <= server',
           \A d \in Connections :
               /\ since'[d] \in {since[d], floor, 0}
               /\ pc'[d] = "create" => pc[d] = "create" /\ answer'[d] = answer[d]
    PROVE  FreshInv'
  BY VersionTypes DEF FreshInv

LEMMA StatementFrame ==
    ASSUME CacheTypeOK, StatementInv, UNCHANGED <<schema, tables>>,
           \A d \in Connections :
               pc'[d] \in Working => /\ pc'[d] = pc[d] /\ current'[d] = current[d]
                                     /\ since'[d] = since[d]
    PROVE  StatementInv'
  BY DEF StatementInv, Working

LEMMA UserStepFresh ==
    ASSUME Inv, NEW c \in Connections, UserStep(c)
    PROVE  FreshInv' /\ StatementInv'
  <1> USE DEF Inv
  <1>1. UNCHANGED <<entries, schema, tables, floor, server, answer, current>>
    BY DEF UserStep, BeginLookup, StartWrite, BeginClear, End, DropPlan, cacheVars,
       statementVars, historyVars
  <1>2. \A d \in Connections : since'[d] = since[d] \/ (d = c /\ since'[d] = floor)
    BY DEF UserStep, BeginLookup, StartWrite, BeginClear, End, DropPlan, historyVars, CacheTypeOK
  <1>3. \A d \in Connections : \/ pc'[d] = pc[d] /\ since'[d] = since[d]
                               \/ pc'[d] \in {"load", "execute", "clear"}
    BY GotoFacts DEF UserStep, BeginLookup, StartWrite, BeginClear, End, DropPlan, statementVars,
       historyVars, CacheTypeOK
  <1>4. FreshInv'
    BY <1>1, <1>2, <1>3, FreshFrame, VersionTypes
  <1>5. StatementInv'
    BY <1>1, <1>3, StatementFrame DEF Working
  <1> QED
    BY <1>4, <1>5

LEMMA LockStepFresh ==
    ASSUME Inv, NEW c \in Connections, LockStep(c)
    PROVE  FreshInv' /\ StatementInv'
  <1> USE DEF Inv
  <1>1. CASE TryLoadEntries(c)
    <2>1. /\ UNCHANGED <<entries, schema, tables, floor, server, answer, current, since>>
          /\ \A d \in Connections : pc'[d] = pc[d] \/ pc'[d] \in {"find", "query"}
      BY <1>1, GotoFacts DEF TryLoadEntries, historyVars
    <2> QED
      BY <2>1, FreshFrame, StatementFrame, VersionTypes DEF Working
  <1>2. CASE ClearEntries(c)
    <2>1. /\ UNCHANGED <<schema, tables, server, answer, current, since>>
          /\ entries' = {} /\ floor' = server /\ load_lock = None
          /\ \A d \in Connections : pc'[d] = pc[d] \/ pc'[d] = "retire"
      BY <1>2, GotoFacts DEF ClearEntries
    <2>2. \A d \in Connections : pc'[d] # "create"
      BY <2>1, NoneAssumption DEF LoadInv
    <2>3. FreshInv'
      BY <2>1, <2>2, VersionTypes DEF FreshInv
    <2> QED
      BY <2>1, <2>3, StatementFrame DEF Working
  <1>3. CASE TryLoadTables(c)
    <2>1. /\ UNCHANGED <<entries, schema, floor, server, answer, current, since>>
          /\ pc[c] = "tables" /\ current[c] \in Entries /\ tables[current[c]].lock = None
          /\ \A d \in Connections : d # c => pc'[d] = pc[d]
      BY <1>3, GotoFacts DEF TryLoadTables, historyVars, StatementInv, Working
    <2>2. CASE tables[current[c]].version # 0
      <3>1. UNCHANGED tables /\ pc'[c] = "bound"
        BY <1>3, <2>2, GotoFacts DEF TryLoadTables
      <3>2. FreshInv'
        BY <2>1, <3>1, FreshFrame, VersionTypes
      <3> QED
        BY <2>1, <2>2, <3>1, <3>2 DEF StatementInv, Working
    <2>3. CASE tables[current[c]].version = 0
      <3>1. /\ pc'[c] = "engines"
            /\ \A e \in Entries : /\ tables'[e].version = tables[e].version
                                  /\ e # current[c] => tables'[e] = tables[e]
            /\ tables'[current[c]].lock = c
        BY <1>3, <2>1, <2>3, GotoFacts DEF TryLoadTables, CacheTypeOK
      <3>2. FreshInv'
        BY <2>1, <3>1 DEF FreshInv, CacheTypeOK
      <3>3. ASSUME NEW d \in Connections, d # c,
                   pc[d] \in {"engines", "columns", "bound"}
            PROVE  current[d] # current[c]
        BY <2>1, <2>3, <3>3, NoneAssumption DEF StatementInv
      <3>4. StatementInv'
        BY <2>1, <2>3, <3>1, <3>3 DEF StatementInv, Working
      <3> QED
        BY <3>2, <3>4
    <2> QED
      BY <2>2, <2>3
  <1> QED
    BY <1>1, <1>2, <1>3 DEF LockStep

\* A new entry is as new as the answer of the load that creates it.
LEMMA CreateEntryFresh ==
    ASSUME Inv, NEW c \in Connections, CreateEntry(c)
    PROVE  FreshInv' /\ StatementInv'
  <1> USE DEF Inv
  <1> DEFINE new == CHOOSE e \in Unused : TRUE
  <1>1. new \in Entries /\ schema[new] = NoSchema
    BY DEF CreateEntry, Unused
  <1>2. PICK n \in answer[c].names :
           schema' = [schema EXCEPT ![new] = [name |-> n, version |-> answer[c].version]]
    BY DEF CreateEntry
  <1>3. /\ UNCHANGED <<tables, floor, server, pc, current, since>>
        /\ pc[c] = "create" /\ entries' = entries \cup {new}
        /\ \A d \in Connections : answer'[d].version = answer[d].version
    BY DEF CreateEntry, historyVars, CacheTypeOK
  <1>4. n \in Databases /\ n # None
    BY NoneAssumption DEF CacheTypeOK
  <1>5. /\ schema'[new] # NoSchema /\ schema'[new].version = answer[c].version
        /\ \A e \in Entries : e # new => schema'[e] = schema[e]
    BY <1>1, <1>2, <1>4 DEF CacheTypeOK, NoSchema
  <1>6. FreshInv'
    BY <1>1, <1>3, <1>5, VersionTypes DEF FreshInv, CacheTypeOK
  <1>7. StatementInv'
    BY <1>1, <1>3, <1>5 DEF StatementInv, Working
  <1> QED
    BY <1>6, <1>7

\* The entry a search finds is as new as the last clear, which is what the
\* search asks for at least.
LEMMA FindFresh ==
    ASSUME Inv, NEW c \in Connections, FindSchema(c) \/ ScanSchemas(c)
    PROVE  FreshInv' /\ StatementInv'
  <1> USE DEF Inv
  <1>1. /\ UNCHANGED <<entries, schema, tables, floor, server, answer, since>>
        /\ \A d \in Connections : d # c => pc'[d] = pc[d] /\ current'[d] = current[d]
        /\ \/ pc'[c] = "missing"
           \/ pc'[c] = "tables" /\ current'[c] \in entries
    BY GotoFacts DEF FindSchema, ScanSchemas, Cached, cacheVars, historyVars, CacheTypeOK
  <1>2. FreshInv'
    BY <1>1, FreshFrame, VersionTypes
  <1>3. ASSUME pc'[c] = "tables", current'[c] \in entries
        PROVE  /\ current'[c] \in Entries /\ schema[current'[c]] # NoSchema
               /\ since[c] <= schema[current'[c]].version
               /\ tables[current'[c]].version # 0 => since[c] <= tables[current'[c]].version
    BY <1>3, VersionTypes DEF FreshInv, CacheTypeOK
  <1>4. StatementInv'
    BY <1>1, <1>3 DEF StatementInv, Working
  <1> QED
    BY <1>2, <1>4

\* The steps of the connection that loads a table set: it holds the set's lock,
\* so nobody else is past the load of the same set.
LEMMA TablesFresh ==
    ASSUME Inv, NEW c \in Connections,
           LoadEngines(c) \/ LoadColumns(c) \/ LoadTablesFailure(c)
    PROVE  FreshInv' /\ StatementInv'
  <1> USE DEF Inv
  <1>1. /\ pc[c] \in {"engines", "columns"}
        /\ UNCHANGED <<entries, schema, floor, server>>
        /\ \A d \in Connections : d # c => /\ pc'[d] = pc[d] /\ current'[d] = current[d]
                                           /\ since'[d] = since[d] /\ answer'[d] = answer[d]
    BY GotoFacts, EndStatementFacts DEF LoadEngines, LoadColumns, LoadTablesFailure, historyVars
  <1>2. /\ current[c] \in Entries /\ tables[current[c]].lock = c
        /\ schema[current[c]] # NoSchema
    BY <1>1 DEF StatementInv, Working
  <1>3. \A e \in Entries : e # current[c] => tables'[e] = tables[e]
    BY DEF LoadEngines, LoadColumns, LoadTablesFailure, CacheTypeOK
  <1>4. ASSUME NEW d \in Connections, d # c, pc[d] \in {"engines", "columns", "bound"}
        PROVE  current[d] # current[c]
    BY <1>2, <1>4, NoneAssumption DEF StatementInv
  <1>5. CASE LoadEngines(c)
    <2>1. /\ pc'[c] = "columns" /\ UNCHANGED <<current, since>>
          /\ tables'[current[c]].version = server /\ tables'[current[c]].lock = c
      BY <1>2, <1>5, GotoFacts DEF LoadEngines, historyVars, CacheTypeOK
    <2>2. FreshInv'
      BY <1>1, <1>2, <1>3, <2>1, VersionTypes DEF FreshInv, CacheTypeOK
    <2>3. server # 0 /\ \A d \in Connections : since[d] <= server
      BY VersionTypes DEF FreshInv, CacheTypeOK
    <2>4. StatementInv'
      BY <1>1, <1>2, <1>3, <1>4, <2>1, <2>3 DEF StatementInv, Working
    <2> QED
      BY <2>2, <2>4
  <1>6. CASE LoadColumns(c)
    <2>1. /\ pc[c] = "columns" /\ pc'[c] = "bound" /\ UNCHANGED <<current, since>>
          /\ tables'[current[c]].version = tables[current[c]].version
          /\ tables'[current[c]].lock = None
      BY <1>2, <1>6, GotoFacts DEF LoadColumns, historyVars, CacheTypeOK
    <2>2. FreshInv'
      BY <1>1, <1>2, <1>3, <2>1, VersionTypes, ZenonT(60) DEF FreshInv, CacheTypeOK
    <2>4. StatementInv'
      BY <1>1, <1>2, <1>3, <1>4, <2>1 DEF StatementInv, Working
    <2> QED
      BY <2>2, <2>4
  <1>7. CASE LoadTablesFailure(c)
    <2>1. pc'[c] = "idle" /\ since'[c] = 0 /\ tables'[current[c]].version = 0
      BY <1>2, <1>7, EndStatementFacts DEF LoadTablesFailure, CacheTypeOK, NoTables
    <2>2. \A d \in Connections : /\ since'[d] \in {since[d], 0}
                                 /\ pc'[d] = "create" => pc[d] = "create" /\ answer'[d] = answer[d]
      BY <1>1, <2>1
    <2>3. \A e \in Entries : tables'[e].version \in {tables[e].version, 0}
      BY <1>3, <2>1
    <2>4. entries \subseteq Entries
      BY DEF CacheTypeOK
    <2>5. FreshInv'
      BY <1>1, <2>2, <2>3, <2>4, VersionTypes DEF FreshInv
    <2>6. StatementInv'
      BY <1>1, <1>2, <1>3, <1>4, <2>1 DEF StatementInv, Working
    <2> QED
      BY <2>5, <2>6
  <1> QED
    BY <1>5, <1>6, <1>7

LEMMA FreeStepFresh ==
    ASSUME Inv, NEW c \in Connections, FreeStep(c)
    PROVE  FreshInv' /\ StatementInv'
  <1> USE DEF Inv
  <1>1. CASE LoadQuery(c)
    <2>1. /\ UNCHANGED <<entries, schema, tables, floor, server, current, since>>
          /\ \A d \in Connections : d # c => pc'[d] = pc[d] /\ answer'[d] = answer[d]
          /\ pc'[c] = "create" /\ answer'[c].version = server
      BY <1>1, GotoFacts DEF LoadQuery, cacheVars, historyVars, CacheTypeOK
    <2>2. FreshInv'
      BY <2>1, VersionTypes DEF FreshInv
    <2> QED
      BY <2>1, <2>2, StatementFrame DEF Working
  <1>2. CASE LoadFailure(c)
    <2>1. /\ UNCHANGED <<schema, tables, floor, server>> /\ entries' = {} /\ entries = {}
          /\ \A d \in Connections :
                IF d = c THEN pc'[d] = "idle" /\ since'[d] = 0
                         ELSE /\ pc'[d] = pc[d] /\ answer'[d] = answer[d]
                              /\ since'[d] = since[d] /\ current'[d] = current[d]
      BY <1>2, EndStatementFacts DEF LoadFailure, LoadInv
    <2> QED
      BY <2>1, FreshFrame, StatementFrame, VersionTypes DEF Working
  <1>3. CASE FinishLoad(c)
    <2>1. /\ UNCHANGED <<entries, schema, tables, floor, server, current, since>>
          /\ \A d \in Connections : d # c => pc'[d] = pc[d] /\ answer'[d] = answer[d]
          /\ pc'[c] = "find"
      BY <1>3, GotoFacts DEF FinishLoad, historyVars, CacheTypeOK
    <2> QED
      BY <2>1, FreshFrame, StatementFrame, VersionTypes DEF Working
  <1>4. CASE MissSchema(c) \/ ExecuteStatement(c)
    <2>1. /\ UNCHANGED <<entries, schema, tables, floor, current, since, answer>>
          /\ server' \in {server, server + 1}
          /\ \A d \in Connections : pc'[d] = pc[d] \/ pc'[d] \in {"missing", "clear"}
      BY <1>4, GotoFacts DEF MissSchema, ExecuteStatement, cacheVars, historyVars
    <2> QED
      BY <2>1, FreshFrame, StatementFrame, VersionTypes DEF Working
  <1>5. CASE FinishStatement(c) \/ BindPlan(c)
    <2>1. /\ UNCHANGED <<entries, schema, tables, floor, server>>
          /\ \A d \in Connections :
                IF d = c THEN pc'[d] = "idle" /\ since'[d] = 0
                         ELSE /\ pc'[d] = pc[d] /\ answer'[d] = answer[d]
                              /\ since'[d] = since[d] /\ current'[d] = current[d]
      BY <1>5, EndStatementFacts DEF FinishStatement, BindPlan, cacheVars
    <2> QED
      BY <2>1, FreshFrame, StatementFrame, VersionTypes DEF Working
  <1>6. CASE RetireCleared(c)
    <2>1. /\ UNCHANGED <<entries, schema, tables, floor, server>>
          /\ \A d \in Connections :
                IF d = c THEN pc'[d] \in {"idle", "load"} /\ since'[d] \in {0, floor}
                         ELSE /\ pc'[d] = pc[d] /\ answer'[d] = answer[d]
                              /\ since'[d] = since[d] /\ current'[d] = current[d]
      BY <1>6, EndStatementFacts, GotoFacts DEF RetireCleared, cacheVars, CacheTypeOK
    <2> QED
      BY <2>1, FreshFrame, StatementFrame, VersionTypes DEF Working
  <1> QED
    BY <1>1, <1>2, <1>3, <1>4, <1>5, <1>6, CreateEntryFresh, FindFresh, TablesFresh DEF FreeStep

-----------------------------------------------------------------------------
LEMMA StepInv == Inv /\ [Next]_vars => Inv'
  <1> SUFFICES ASSUME Inv, [Next]_vars PROVE Inv'
    OBVIOUS
  <1>1. TmInv' /\ CacheTypeOK' /\ PointerInv' /\ ClearedInv'
    BY StepIsTmStep, TmStepInv, StepType, StepPointer, StepCleared DEF Inv
  <1>2. CASE UNCHANGED vars
    BY <1>1, <1>2 DEF vars, tmVars, cacheVars, statementVars, historyVars, Inv, LoadInv,
       FreshInv, StatementInv, TransactionInv, WriteInv, HasTransaction
  <1>3. ASSUME NEW c \in Connections, LockStep(c) \/ FreeStep(c) \/ UserStep(c)
        PROVE  LoadInv' /\ FreshInv' /\ StatementInv' /\ TransactionInv' /\ WriteInv'
    BY <1>3, LockStepLoad, FreeStepLoad, UserStepLoad, LockStepFresh, FreeStepFresh,
       UserStepFresh, LockStepTransaction, FreeStepTransaction, UserStepTransaction DEF Inv
  <1> QED
    BY <1>1, <1>2, <1>3 DEF Next, Inv

-----------------------------------------------------------------------------
(* Names: the cache has at most one entry for each, and all when loaded.   *)

\* Steps that leave the cached entries alone and neither start nor advance a load.
LEMMA NameFrame ==
    ASSUME NameInv, UNCHANGED <<entries, schema, is_loaded>>,
           \A d \in Connections : \/ pc'[d] = pc[d] /\ answer'[d] = answer[d]
                                  \/ pc'[d] \notin {"query", "create"}
    PROVE  NameInv'
  BY DEF NameInv, LoadedIsComplete, Cached

\* The name of a new entry had none, so it has one now, and only one.
LEMMA CreateEntryName ==
    ASSUME Inv, NameInv, NEW c \in Connections, CreateEntry(c)
    PROVE  NameInv'
  <1> USE DEF Inv
  <1> DEFINE new == CHOOSE e \in Unused : TRUE
  <1>1. new \in Entries /\ new \notin entries
    BY DEF CreateEntry, Unused, FreshInv
  <1>2. PICK n \in answer[c].names :
           /\ schema' = [schema EXCEPT ![new] = [name |-> n, version |-> answer[c].version]]
           /\ answer' = [answer EXCEPT ![c].names = @ \ {n}]
    BY DEF CreateEntry
  <1>3. /\ UNCHANGED <<pc, is_loaded>> /\ pc[c] = "create" /\ n \in Databases
        /\ entries' = entries \cup {new} /\ entries \subseteq Entries
    BY DEF CreateEntry, CacheTypeOK
  <1>4. schema'[new].name = n /\ \A e \in entries : schema'[e] = schema[e]
    BY <1>1, <1>2, <1>3 DEF CacheTypeOK
  <1>5. answer'[c].names = answer[c].names \ {n}
    BY <1>2 DEF CacheTypeOK
  <1>6. \A d \in Connections : pc'[d] \in {"query", "create"} => d = c
    BY <1>3 DEF LoadInv
  <1>7. ~is_loaded
    BY <1>3 DEF NameInv
  <1>8. Cached(n) = {}
    BY <1>2, <1>3 DEF NameInv
  <1>9. \A m : Cached(m)' = IF m = n THEN {new} ELSE Cached(m)
    BY <1>1, <1>3, <1>4, <1>8 DEF Cached
  <1>10. \A e, f \in entries' : schema'[e].name = schema'[f].name => e = f
    <2>1. \A e \in entries : schema[e].name # n
      BY <1>8 DEF Cached
    <2>2. \A e, f \in entries : schema[e].name = schema[f].name => e = f
      BY DEF NameInv
    <2> HIDE DEF new
    <2> QED
      BY <1>3, <1>4, <2>1, <2>2
  <1>11. \A m \in Databases : m \in answer'[c].names <=> Cached(m)' = {}
    BY <1>2, <1>3, <1>5, <1>9 DEF NameInv
  <1> QED
    BY <1>3, <1>6, <1>7, <1>10, <1>11 DEF NameInv, LoadedIsComplete

LEMMA StepName ==
    ASSUME Inv, NameInv, [Next]_vars
    PROVE  NameInv'
  <1> USE DEF Inv
  <1>1. CASE UNCHANGED vars
    BY <1>1, NameFrame DEF vars, cacheVars, statementVars
  <1>2. ASSUME NEW c \in Connections, LockStep(c)
        PROVE  NameInv'
    <2>1. CASE TryLoadEntries(c)
      <3>1. UNCHANGED <<entries, schema, is_loaded, answer>>
        BY <2>1 DEF TryLoadEntries
      <3>2. CASE is_loaded
        <4>1. \A d \in Connections : pc'[d] = pc[d] \/ pc'[d] = "find"
          BY <2>1, <3>2, GotoFacts DEF TryLoadEntries
        <4> QED
          BY <3>1, <4>1, NameFrame
      <3>3. CASE ~is_loaded
        <4>1. \A d \in Connections : pc'[d] = IF d = c THEN "query" ELSE pc[d]
          BY <2>1, <3>3, GotoFacts DEF TryLoadEntries
        <4> QED
          BY <3>1, <3>3, <4>1 DEF NameInv, LoadedIsComplete, Cached
      <3> QED
        BY <3>2, <3>3
    <2>2. CASE TryLoadTables(c)
      BY <2>2, GotoFacts, NameFrame DEF TryLoadTables
    <2>3. CASE ClearEntries(c)
      <3>1. load_lock = None /\ entries' = {} /\ is_loaded' = FALSE
        BY <2>3 DEF ClearEntries
      <3>2. \A d \in Connections : pc'[d] \notin {"query", "create"}
        BY <2>3, <3>1, GotoFacts, NoneAssumption DEF ClearEntries, LoadInv
      <3> QED
        BY <3>1, <3>2 DEF NameInv, LoadedIsComplete
    <2> QED
      BY <1>2, <2>1, <2>2, <2>3 DEF LockStep
  <1>3. ASSUME NEW c \in Connections, UserStep(c)
        PROVE  NameInv'
    <2>1. UNCHANGED <<entries, schema, is_loaded, answer>>
      BY <1>3 DEF UserStep, BeginLookup, StartWrite, BeginClear, End, DropPlan, cacheVars,
         statementVars
    <2>2. \A d \in Connections : pc'[d] = pc[d] \/ pc'[d] \notin {"query", "create"}
      BY <1>3, GotoFacts DEF UserStep, BeginLookup, StartWrite, BeginClear, End, DropPlan,
         statementVars
    <2> QED
      BY <2>1, <2>2, NameFrame
  <1>4. ASSUME NEW c \in Connections, FreeStep(c)
        PROVE  NameInv'
    <2>1. CASE LoadQuery(c)
      <3>1. /\ UNCHANGED <<entries, schema, is_loaded>> /\ pc[c] = "query"
            /\ \A d \in Connections : pc'[d] = IF d = c THEN "create" ELSE pc[d]
            /\ answer'[c].names = Databases
        BY <2>1, GotoFacts DEF LoadQuery, cacheVars, CacheTypeOK
      <3>2. entries = {} /\ \A d \in Connections : pc[d] \in {"query", "create"} => d = c
        BY <3>1 DEF LoadInv
      <3> QED
        BY <3>1, <3>2 DEF NameInv, LoadedIsComplete, Cached
    <2>2. CASE LoadFailure(c)
      <3>1. /\ entries' = {} /\ UNCHANGED is_loaded /\ pc[c] = "query"
            /\ \A d \in Connections : pc'[d] = IF d = c THEN "idle" ELSE pc[d]
        BY <2>2, EndStatementFacts DEF LoadFailure
      <3>2. ~is_loaded /\ \A d \in Connections : pc[d] \in {"query", "create"} => d = c
        BY <3>1 DEF LoadInv, NameInv
      <3> QED
        BY <3>1, <3>2 DEF NameInv, LoadedIsComplete
    <2>3. CASE FinishLoad(c)
      <3>1. /\ UNCHANGED <<entries, schema>> /\ pc[c] = "create" /\ answer[c].names = {}
            /\ \A d \in Connections : pc'[d] = IF d = c THEN "find" ELSE pc[d]
        BY <2>3, GotoFacts DEF FinishLoad
      <3>2. \A d \in Connections : pc[d] \in {"query", "create"} => d = c
        BY <3>1 DEF LoadInv
      <3>3. \A n \in Databases : Cached(n) # {}
        BY <3>1 DEF NameInv
      <3> QED
        BY <3>1, <3>2, <3>3 DEF NameInv, LoadedIsComplete, Cached
    <2>4. CASE \/ FindSchema(c) \/ MissSchema(c) \/ ScanSchemas(c) \/ LoadEngines(c)
               \/ LoadColumns(c) \/ ExecuteStatement(c)
      BY <2>4, GotoFacts, NameFrame DEF FindSchema, MissSchema, ScanSchemas, LoadEngines,
         LoadColumns, ExecuteStatement, cacheVars
    <2>5. CASE LoadTablesFailure(c) \/ FinishStatement(c) \/ BindPlan(c)
      BY <2>5, EndStatementFacts, NameFrame DEF LoadTablesFailure, FinishStatement, BindPlan,
         cacheVars
    <2>6. CASE RetireCleared(c)
      <3>1. UNCHANGED <<entries, schema, is_loaded>>
        BY <2>6 DEF RetireCleared, cacheVars
      <3>2. \A d \in Connections : \/ pc'[d] = pc[d] /\ answer'[d] = answer[d]
                                   \/ pc'[d] \in {"idle", "load"}
        BY <2>6, EndStatementFacts, GotoFacts DEF RetireCleared
      <3> QED
        BY <3>1, <3>2, NameFrame
    <2> QED
      BY <1>4, <2>1, <2>2, <2>3, <2>4, <2>5, <2>6, CreateEntryName DEF FreeStep
  <1> QED
    BY <1>1, <1>2, <1>3, <1>4 DEF Next

\* The owner a plan gets is the entry itself as long as the entry is cached, and
\* an entry that has left the cache never returns to it.
LEMMA StepPlan ==
    ASSUME Inv, NameInv, PlanInv, [Next]_vars
    PROVE  PlanInv'
  <1> USE DEF Inv
  <1>1. /\ \A e \in Entries : schema[e] # NoSchema => schema'[e] # NoSchema
        /\ \A e \in Entries : e \in entries' => e \in entries \/ schema[e] = NoSchema
    <2>1. ASSUME NEW c \in Connections, CreateEntry(c)
          PROVE  <1>1!:
      <3> DEFINE new == CHOOSE e \in Unused : TRUE
      <3>1. PICK n \in answer[c].names :
               /\ schema' = [schema EXCEPT ![new] = [name |-> n, version |-> answer[c].version]]
               /\ entries' = entries \cup {new}
        BY <2>1 DEF CreateEntry
      <3>2. schema[new] = NoSchema
        BY <2>1 DEF CreateEntry, Unused
      <3> QED
        BY <3>1, <3>2 DEF CacheTypeOK
    <2>2. CASE UNCHANGED schema /\ entries' \in {entries, {}}
      BY <2>2
    <2>3. ASSUME NEW c \in Connections, LockStep(c) \/ UserStep(c) \/ FreeStep(c), ~CreateEntry(c)
          PROVE  UNCHANGED schema /\ entries' \in {entries, {}}
      BY <2>3 DEF LockStep, UserStep, FreeStep, TryLoadEntries, TryLoadTables, ClearEntries,
         BeginLookup, StartWrite, BeginClear, End, DropPlan, LoadQuery, LoadFailure, FinishLoad,
         FindSchema, MissSchema, ScanSchemas, LoadEngines, LoadColumns, LoadTablesFailure,
         FinishStatement, BindPlan, ExecuteStatement, RetireCleared, cacheVars
    <2>4. CASE UNCHANGED vars
      BY <2>2, <2>4 DEF vars, cacheVars
    <2> QED
      BY <2>1, <2>2, <2>3, <2>4 DEF Next
  <1>2. \/ UNCHANGED plan
        \/ \E c \in Connections : BindPlan(c) \/ DropPlan(c)
    <2>1. ASSUME NEW c \in Connections, LockStep(c) \/ UserStep(c) \/ FreeStep(c),
                 ~BindPlan(c), ~DropPlan(c)
          PROVE  UNCHANGED plan
      BY <2>1 DEF LockStep, UserStep, FreeStep, TryLoadEntries, TryLoadTables, ClearEntries,
         BeginLookup, StartWrite, BeginClear, End, LoadQuery, LoadFailure, CreateEntry,
         FinishLoad, FindSchema, MissSchema, ScanSchemas, LoadEngines, LoadColumns,
         LoadTablesFailure, FinishStatement, ExecuteStatement, RetireCleared
    <2> QED
      BY <2>1 DEF Next, vars
  <1>3. \A c \in Connections : /\ plan[c].table_entry \in Entries \cup {None}
                               /\ plan[c] # NoPlan \/ plan[c].table_entry = None
    BY DEF CacheTypeOK, NoPlan
  <1>4. entries \subseteq Entries /\ entries' \subseteq Entries /\ None \notin Entries
    BY StepType, NoneAssumption DEF CacheTypeOK
  <1>5. ASSUME NEW c \in Connections, plan'[c] = plan[c]
        PROVE  /\ plan'[c].table_entry # None => schema'[plan'[c].table_entry] # NoSchema
               /\ plan'[c].table_entry \in entries' => plan'[c].lifetime = plan'[c].table_entry
    BY <1>1, <1>3, <1>4, <1>5 DEF PlanInv, PlanOwnsItsEntry
  <1>6. ASSUME NEW c \in Connections, BindPlan(c)
        PROVE  PlanInv'
    <2>1. /\ UNCHANGED <<entries, schema>> /\ pc[c] = "bound"
          /\ \A d \in Connections : d # c => plan'[d] = plan[d]
          /\ plan'[c].table_entry = current[c]
          /\ plan'[c].lifetime = GetEntryOwner(schema[current[c]].name)
      BY <1>6, EndStatementFacts DEF BindPlan, cacheVars, CacheTypeOK
    <2>2. current[c] \in Entries /\ schema[current[c]] # NoSchema
      BY <2>1 DEF StatementInv, Working
    <2>3. ASSUME current[c] \in entries
          PROVE  GetEntryOwner(schema[current[c]].name) = current[c]
      <3>1. Cached(schema[current[c]].name) = {current[c]}
        BY <2>3 DEF Cached, NameInv
      <3> QED
        BY <3>1 DEF GetEntryOwner
    <2> QED
      BY <1>5, <2>1, <2>2, <2>3 DEF PlanInv, PlanOwnsItsEntry
  <1>7. ASSUME NEW c \in Connections, DropPlan(c)
        PROVE  PlanInv'
    <2>1. plan'[c] = NoPlan /\ \A d \in Connections : d # c => plan'[d] = plan[d]
      BY <1>7 DEF DropPlan, CacheTypeOK
    <2> QED
      BY <1>4, <1>5, <2>1 DEF PlanInv, PlanOwnsItsEntry, NoPlan
  <1>8. CASE UNCHANGED plan
    BY <1>5, <1>8 DEF PlanInv, PlanOwnsItsEntry
  <1> QED
    BY <1>2, <1>6, <1>7, <1>8

LEMMA NamePlanInv == Spec => [](Inv /\ NameInv /\ PlanInv)
  <1>1. Init => NameInv /\ PlanInv
    BY NoneAssumption DEF Init, NameInv, PlanInv, LoadedIsComplete, PlanOwnsItsEntry, NoPlan
  <1>2. Inv /\ NameInv /\ PlanInv /\ [Next]_vars => (Inv /\ NameInv /\ PlanInv)'
    BY StepInv, StepName, StepPlan
  <1> QED
    BY <1>1, <1>2, InitInv, PTL DEF Spec

(***************************************************************************)
(* The cache, the statements that use it and the transaction manager stay  *)
(* within their types, for any number of connections, databases, entries   *)
(* and transactions.                                                       *)
(***************************************************************************)
THEOREM TypeCorrect == Spec => []TypeOK
  <1>1. Inv => TypeOK
    BY DEF Inv, TmInv, TypeOK
  <1> QED
    BY <1>1, InitInv, StepInv, PTL DEF Spec

(***************************************************************************)
(* Retire-don't-free is memory safe: whichever statements clear the cache, *)
(* whichever transactions end, an entry stays owned while the transaction  *)
(* that looked it up is active (ClearEntries(), RetireEntries(),           *)
(* EndTransaction()).                                                      *)
(***************************************************************************)
THEOREM MemorySafety == Spec => []NoDanglingPointer
  <1>1. Inv => NoDanglingPointer
    BY DEF Inv, PointerInv, NoDanglingPointer, Alive, Retired
  <1> QED
    BY <1>1, InitInv, StepInv, PTL DEF Spec

(***************************************************************************)
(* A lookup never sees the cache as it was before a clear that preceded    *)
(* it, although the load, the search and the load of the tables are        *)
(* separate critical sections (TryLoadEntries(), GetEntry()).              *)
(***************************************************************************)
THEOREM Freshness == Spec => []FreshAfterClear
  <1>1. Inv => FreshAfterClear
    BY VersionTypes DEF Inv, StatementInv, Working, FreshAfterClear
  <1> QED
    BY <1>1, InitInv, StepInv, PTL DEF Spec

(***************************************************************************)
(* Every statement that ran on the server is remembered until its          *)
(* transaction ends (StartWrite(), RollbackTransaction()).                 *)
(***************************************************************************)
THEOREM WritesRemembered == Spec => RollbackWarns
  <1>1. Inv /\ [Next]_vars =>
            [\A c \in Connections :
                /\ pc[c] = "execute" /\ pc'[c] # "execute" => HasTransaction(c) /\ written[c]
                /\ written[c] /\ ~written'[c] => ~HasTransaction(c)']_vars
    <2> SUFFICES ASSUME Inv, [Next]_vars, NEW c \in Connections
                 PROVE  /\ pc[c] = "execute" /\ pc'[c] # "execute" =>
                              HasTransaction(c) /\ written[c]
                        /\ written[c] /\ ~written'[c] => ~HasTransaction(c)'
      OBVIOUS
    <2>1. pc[c] = "execute" => HasTransaction(c) /\ written[c]
      BY DEF Inv, WriteInv
    <2>2. [TmStep]_tmVars
      BY StepIsTmStep DEF Inv
    <2>3. written[c] /\ ~written'[c] => ~HasTransaction(c)'
      <3>1. ASSUME NEW d \in Connections, EndTransaction(d)
            PROVE  (d = c /\ ~HasTransaction(c)') \/ written'[c] = written[c]
        BY <3>1, EndTransactionFacts DEF Inv
      <3>2. ASSUME NEW d \in Connections, GetAndMarkWritten(d)
            PROVE  written'[c] = TRUE \/ written'[c] = written[c]
        BY <3>2 DEF GetAndMarkWritten, Inv, TmInv, TmTypeOK
      <3> QED
        BY <2>2, <3>1, <3>2 DEF TmStep, StartTransaction, RetireEntries, tmVars
    <2> QED
      BY <2>1, <2>3
  <1> QED
    BY <1>1, InitInv, StepInv, PTL DEF Spec, RollbackWarns

(***************************************************************************)
(* A load that other connections watch entry by entry, that fails or that  *)
(* a clear follows never leaves a part of the databases behind as if it    *)
(* were all of them (TryLoadEntries(), ClearEntries()).                    *)
(***************************************************************************)
THEOREM LoadsComplete == Spec => []LoadedIsComplete
  BY NamePlanInv, PTL DEF NameInv

(***************************************************************************)
(* The owner GetScanFunction() looks up by name, apart from the pointer it *)
(* already has, is the owner of what that pointer points to whenever the   *)
(* cache still has it (GetEntryOwner(), ClickhouseScanBindData::lifetime). *)
(***************************************************************************)
THEOREM PlansOwnTheirEntries == Spec => []PlanOwnsItsEntry
  BY NamePlanInv, PTL DEF PlanInv
=============================================================================
