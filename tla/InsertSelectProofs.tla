------------------------- MODULE InsertSelectProofs -------------------------
(***************************************************************************)
(* Proofs about INSERT ... SELECT and CREATE TABLE ... AS: rows go under   *)
(* the names of their query, IF NOT EXISTS sees every table that was there *)
(* when it began, and one statement needs two connections at most.         *)
(***************************************************************************)
EXTENDS InsertSelect, FiniteSetTheorems, TLAPS

-----------------------------------------------------------------------------
(* The inductive invariant.                                                *)

Locations == {"idle", "schemas", "connect", "query", "find", "tables", "tables connect",
              "tables query", "ready", "running", "clear", "create", "execute", "start", "insert"}
Lookups == {"plan", "check", "verify", "fail"}
TableSets == [lock : Sessions \cup {None}, loaded : BOOLEAN, columns : Layouts \cup {None}]

SharedType ==
    /\ table \in {None} \cup [id : Nat, columns : Layouts]
    /\ created \in Nat
    /\ generation \in Nat \ {0}
    /\ table_set \in [1 .. generation -> TableSets]

SessionType ==
    /\ pc \in [Sessions -> Locations]
    /\ kind \in [Sessions -> Kinds]
    /\ lookup \in [Sessions -> Lookups]
    /\ entry \in [Sessions -> Nat]
    /\ held \in [Sessions -> SUBSET Uses]
    /\ target \in [Sessions -> Layouts \cup {None}]
    /\ into \in [Sessions -> Nat]
    /\ since \in [Sessions -> Nat]
    /\ missed \in [Sessions -> BOOLEAN]

\* Where a lookup waits for the schema set, and for a table set.
AtSchemas == {"schemas", "connect", "query", "find"}
AtTables == {"tables", "tables connect", "tables query"}

\* The planner's lookup comes before the scan takes its connection, the others
\* while it has it; the other uses are let go of before the next wait.
Kept(s) == IF lookup[s] = "plan" /\ pc[s] \in {"idle", "ready"} \cup AtSchemas \cup AtTables
             THEN {} ELSE {"scan"}
HeldInv(s) ==
    /\ pc[s] \in {"idle", "ready"} => lookup[s] = "plan"
    /\ pc[s] = "clear" => lookup[s] # "plan"
    /\ held[s] \subseteq Kept(s) \cup
          CASE pc[s] \in {"query", "tables query"} -> {"load"}
            [] pc[s] \in {"execute", "insert"} -> {"write"}
            [] OTHER -> {}

\* CREATE TABLE ... AS has no target until PrepareTarget() has compared it.
TargetInv(s) == pc[s] \in {"start", "insert"} /\ kind[s] # "insert" => target[s] = Query

\* The table is not one of the first n created; a table set that shows none
\* was loaded when that was so.
Newer(n) == table = None \/ table.id > n
Shown(g, n) == table_set[g].loaded /\ table_set[g].columns = None => Newer(n)

\* IF NOT EXISTS, once PrepareTarget() has cleared the cache.
CheckInv(s) ==
    /\ since[s] <= created
    /\ pc[s] \in AtTables => entry[s] \in 1 .. generation
    /\ kind[s] = "ignore" /\ ~missed[s] =>
          /\ lookup[s] = "check" /\ pc[s] \in AtSchemas => Shown(generation, since[s])
          /\ lookup[s] = "check" /\ pc[s] \in AtTables => Shown(entry[s], since[s])
          /\ lookup[s] = "verify" \/ pc[s] \in {"create", "execute", "start", "insert"} =>
                Newer(since[s])
          /\ pc[s] = "insert" => into[s] > since[s]

SessionInv(s) == HeldInv(s) /\ TargetInv(s) /\ CheckInv(s)

\* No lookup has an entry of a generation to come.
EntryInv == \A s \in Sessions : entry[s] <= generation

Inv ==
    /\ SharedType /\ SessionType /\ EntryInv
    /\ \A s \in Sessions : SessionInv(s)
    /\ RowsUnderTheirNames /\ IfNotExistsChecksTheServer

-----------------------------------------------------------------------------
(* What a step may do to the shared state and to the other statements.     *)

\* A table only gets newer, and a table set that a lookup may still read shows
\* no table only if there was none when it was loaded.
SharedOK ==
    /\ SharedType' /\ created' >= created /\ generation' >= generation
    /\ \A n \in Nat : n <= created /\ Newer(n) => Newer(n)'
    /\ generation' # generation => ~table_set'[generation'].loaded
    /\ \A n \in Nat, g \in 1 .. generation :
          /\ n <= created /\ Shown(g, n)
          /\ generation' = generation \/ \E t \in Sessions : entry[t] = g
          => Shown(g, n)'

SameStatement(t) ==
    /\ pc'[t] = pc[t] /\ kind'[t] = kind[t] /\ lookup'[t] = lookup[t]
    /\ entry'[t] = entry[t] /\ held'[t] = held[t] /\ target'[t] = target[t]
    /\ into'[t] = into[t] /\ since'[t] = since[t] /\ missed'[t] = missed[t]

StepOK(s) ==
    /\ SharedOK /\ SessionType' /\ SessionInv(s)'
    /\ \A t \in Sessions \ {s} : SameStatement(t)
    /\ RowsUnderTheirNames' /\ IfNotExistsChecksTheServer'

LEMMA StatementFrame ==
    ASSUME SharedType, SessionType, SharedOK, NEW t \in Sessions, SessionInv(t), SameStatement(t)
    PROVE  SessionInv(t)'
  <1>1. HeldInv(t)' /\ TargetInv(t)'
    BY DEF SessionInv, HeldInv, TargetInv, Kept, SameStatement
  <1>2. since[t] \in Nat /\ since[t] <= created /\ since'[t] = since[t] /\ created' \in Nat
        /\ generation \in Nat \ {0} /\ generation' \in Nat \ {0} /\ generation' >= generation
        /\ created \in Nat /\ created' >= created
    BY DEF SessionType, SessionInv, CheckInv, SameStatement, SharedType, SharedOK
  <1>3. Newer(since[t]) => Newer(since[t])'
    BY <1>2 DEF SharedOK, Newer
  <1>4. Shown(generation, since[t]) => Shown(generation, since[t])'
    <2>1. CASE generation' = generation
      <3>1. Shown(generation, since[t]) /\ table_set'[generation].loaded
              /\ table_set'[generation].columns = None => Newer(since[t])'
        BY <1>2, <2>1 DEF SharedOK, Shown, Newer
      <3> QED
        BY <1>2, <2>1, <3>1 DEF Shown
    <2>2. CASE generation' # generation
      BY <2>2 DEF SharedOK, Shown
    <2> QED
      BY <2>1, <2>2
  <1>5. entry[t] \in 1 .. generation /\ Shown(entry[t], since[t]) => Shown(entry[t], since[t])'
    BY <1>2 DEF SharedOK, Shown, Newer, SameStatement
  <1>6. CheckInv(t)'
    <2>1. since'[t] <= created' /\ (pc'[t] \in AtTables => entry'[t] \in 1 .. generation')
      BY <1>2 DEF SessionInv, CheckInv, SameStatement
    <2> QED
      BY <1>2, <1>3, <1>4, <1>5, <2>1 DEF SessionInv, CheckInv, SameStatement
  <1> QED
    BY <1>1, <1>6 DEF SessionInv

LEMMA StepOKSuffices ==
    ASSUME Inv, NEW s \in Sessions, StepOK(s), EntryInv'
    PROVE  Inv'
  <1>1. \A t \in Sessions \ {s} : SessionInv(t)'
    BY StatementFrame DEF Inv, StepOK
  <1> QED
    BY <1>1 DEF Inv, StepOK, SharedOK

\* A step that leaves the table alone, and shows it missing only if it is.
LEMMA CacheFrame ==
    ASSUME SharedType, UNCHANGED <<table, created, generation>>,
           table_set' \in [1 .. generation -> TableSets],
           \A g \in 1 .. generation :
              table_set'[g].loaded /\ table_set'[g].columns = None =>
                 \/ table_set[g].loaded /\ table_set[g].columns = None
                 \/ table = None
    PROVE  SharedOK
  <1>1. SharedType' /\ created' >= created /\ generation' >= generation
    BY DEF SharedType
  <1>2. \A n : Newer(n)' <=> Newer(n)
    BY DEF Newer
  <1>3. \A n, g : g \in 1 .. generation /\ Shown(g, n) => Shown(g, n)'
    BY <1>2 DEF Shown, Newer
  <1> QED
    BY <1>1, <1>2, <1>3 DEF SharedOK

\* A step that creates or drops the table.
LEMMA TableFrame ==
    ASSUME SharedType, UNCHANGED cacheVars, NEW l \in Layouts,
           Created(l) \/ (table' = None /\ UNCHANGED created)
    PROVE  SharedOK
  <1>1. SharedType' /\ created' >= created /\ created \in Nat
    <2>1. CASE table' = None /\ UNCHANGED created
      BY <2>1 DEF SharedType, cacheVars
    <2>2. CASE Created(l)
      BY <2>2 DEF SharedType, cacheVars, Created
    <2> QED
      BY <2>1, <2>2
  <1>2. \A n \in Nat : n <= created => Newer(n)'
    <2>1. CASE table' = None
      BY <2>1 DEF Newer
    <2>2. CASE Created(l)
      BY <1>1, <2>2 DEF Created, Newer
    <2> QED
      BY <2>1, <2>2
  <1>3. generation' = generation /\ generation \in Nat
    BY DEF cacheVars, SharedType
  <1>4. \A n \in Nat, g \in 1 .. generation : n <= created => Shown(g, n)'
    BY <1>2 DEF Shown
  <1> QED
    BY <1>1, <1>2, <1>3, <1>4 DEF SharedOK

LEMMA EndFacts ==
    ASSUME SessionType, NEW s \in Sessions, EndStatement(s), created' \in Nat
    PROVE  /\ SessionType' /\ SessionInv(s)'
           /\ \A t \in Sessions \ {s} : SameStatement(t)
  <1>1. /\ pc' \in [Sessions -> Locations] /\ kind' \in [Sessions -> Kinds]
        /\ lookup' \in [Sessions -> Lookups] /\ entry' \in [Sessions -> Nat]
        /\ held' \in [Sessions -> SUBSET Uses] /\ target' \in [Sessions -> Layouts \cup {None}]
        /\ into' \in [Sessions -> Nat] /\ since' \in [Sessions -> Nat]
    BY DEF EndStatement, SessionType, Locations, Kinds, Lookups
  <1>2. missed' \in [Sessions -> BOOLEAN]
    BY DEF EndStatement, SessionType
  <1>3. /\ pc'[s] = "idle" /\ kind'[s] = "insert" /\ lookup'[s] = "plan"
        /\ held'[s] = {} /\ since'[s] = 0
    BY DEF EndStatement, SessionType
  <1>4. \A t \in Sessions \ {s} : SameStatement(t)
    BY DEF EndStatement, SessionType, SameStatement
  <1>5. HeldInv(s)' /\ TargetInv(s)' /\ CheckInv(s)'
    BY <1>3 DEF HeldInv, TargetInv, CheckInv, AtTables
  <1> QED
    BY <1>1, <1>2, <1>4, <1>5 DEF SessionType, SessionInv

-----------------------------------------------------------------------------
(* The steps, one lemma for each kind.                                     *)

LEMMA StoredFrame ==
    ASSUME Inv, UNCHANGED stored
    PROVE  RowsUnderTheirNames' /\ IfNotExistsChecksTheServer'
  BY DEF Inv, RowsUnderTheirNames, IfNotExistsChecksTheServer

LEMMA SharedFrame ==
    ASSUME SharedType, UNCHANGED <<serverVars, cacheVars>>
    PROVE  SharedOK
  <1>1. /\ UNCHANGED <<table, created, generation>>
        /\ table_set' = table_set /\ table_set' \in [1 .. generation -> TableSets]
    BY DEF SharedType, serverVars, cacheVars
  <1> QED
    BY <1>1, CacheFrame

LEMMA GotoFacts ==
    ASSUME SessionType, NEW s \in Sessions, NEW from, NEW to \in Locations, Goto(s, from, to)
    PROVE  /\ pc[s] = from /\ pc'[s] = to /\ pc' \in [Sessions -> Locations]
           /\ \A t \in Sessions \ {s} : pc'[t] = pc[t]
  BY DEF Goto, SessionType

LEMMA HeldFacts ==
    ASSUME SessionType, NEW s \in Sessions
    PROVE  /\ Acquire(s) => /\ held' \in [Sessions -> SUBSET Uses]
                            /\ held'[s] = held[s] \cup Needs(s)
                            /\ \A t \in Sessions \ {s} : held'[t] = held[t]
           /\ \A use : Release(s, use) => /\ held' \in [Sessions -> SUBSET Uses]
                                          /\ held'[s] = held[s] \ {use}
                                          /\ \A t \in Sessions \ {s} : held'[t] = held[t]
  <1>1. Needs(s) \subseteq Uses
    BY DEF Needs, Uses
  <1> QED
    BY <1>1 DEF Acquire, Release, SessionType

\* An exception, or the end of a statement that has stored nothing.
LEMMA EndStep ==
    ASSUME Inv, NEW s \in Sessions, EndStatement(s), SharedOK, UNCHANGED stored
    PROVE  StepOK(s)
  <1>1. created' \in Nat
    BY DEF SharedOK, SharedType
  <1> QED
    BY <1>1, EndFacts, StoredFrame DEF Inv, StepOK

\* Steps that change where s is and what it holds, and nothing shared that the
\* invariant is about.
LEMMA MoveStep ==
    ASSUME Inv, NEW s \in Sessions, NEW from \in Locations, NEW to \in Locations, Goto(s, from, to),
           UNCHANGED <<serverVars, generation, table_set>>,
           UNCHANGED <<kind, lookup, entry, target, into, since, missed>>,
           held' \in [Sessions -> SUBSET Uses],
           \A t \in Sessions \ {s} : held'[t] = held[t],
           HeldInv(s)',
           \/ from \in AtSchemas /\ to \in AtSchemas
           \/ from \in AtTables /\ to \in AtTables
           \/ to \in {"running"}
           \/ from = "create" /\ to = "execute"
    PROVE  StepOK(s)
  <1> USE DEF Inv
  <1>1. /\ pc[s] = from /\ pc'[s] = to /\ pc' \in [Sessions -> Locations]
        /\ \A t \in Sessions \ {s} : pc'[t] = pc[t]
    BY GotoFacts
  <1>2. SessionType'
    BY <1>1 DEF SessionType
  <1>3. \A t \in Sessions \ {s} : SameStatement(t)
    BY <1>1 DEF SameStatement
  <1>4. SharedOK
    <2>1. UNCHANGED <<table, created, generation>> /\ table_set' = table_set
          /\ table_set' \in [1 .. generation -> TableSets]
      BY DEF SharedType, serverVars
    <2> QED
      BY <2>1, CacheFrame
  <1>5. TargetInv(s)'
    BY <1>1 DEF TargetInv, AtSchemas, AtTables
  <1>6. /\ \A n : Newer(n)' <=> Newer(n)
        /\ \A n, g : Shown(g, n)' <=> Shown(g, n)
    BY DEF Newer, Shown, serverVars
  <1>7. CheckInv(s)'
    BY <1>1, <1>6 DEF SessionInv, CheckInv, AtSchemas, AtTables, serverVars
  <1> QED
    BY <1>2, <1>3, <1>4, <1>5, <1>7, StoredFrame DEF StepOK, SessionInv, serverVars

LEMMA BeginStatementStep ==
    ASSUME Inv, NEW s \in Sessions, BeginStatement(s)
    PROVE  StepOK(s)
  <1> USE DEF Inv
  <1>1. PICK k \in Kinds : kind' = [kind EXCEPT ![s] = k]
    BY DEF BeginStatement
  <1>2. /\ Goto(s, "idle", "schemas") /\ since' = [since EXCEPT ![s] = created]
        /\ UNCHANGED <<serverVars, cacheVars, lookup, entry, held, target, into, missed>>
    BY DEF BeginStatement
  <1>3. /\ pc[s] = "idle" /\ pc'[s] = "schemas" /\ pc' \in [Sessions -> Locations]
        /\ \A t \in Sessions \ {s} : pc'[t] = pc[t]
    BY <1>2, GotoFacts DEF Locations
  <1>4. created \in Nat /\ SharedOK /\ UNCHANGED stored
    BY <1>2, SharedFrame DEF SharedType, serverVars
  <1>5. /\ SessionType' /\ since'[s] = created
        /\ \A t \in Sessions \ {s} : SameStatement(t)
    BY <1>1, <1>2, <1>3, <1>4 DEF SessionType, SameStatement
  <1>6. lookup'[s] = "plan" /\ held'[s] \subseteq {}
    BY <1>2, <1>3 DEF SessionInv, HeldInv, Kept
  <1>7. HeldInv(s)' /\ TargetInv(s)'
    BY <1>3, <1>6 DEF HeldInv, Kept, AtSchemas, TargetInv
  <1>8. CheckInv(s)'
    BY <1>2, <1>3, <1>4, <1>5, <1>6 DEF CheckInv, AtSchemas, AtTables, serverVars
  <1> QED
    BY <1>4, <1>5, <1>7, <1>8, StoredFrame DEF StepOK, SessionInv

LEMMA TryLoadEntriesStep ==
    ASSUME Inv, NEW s \in Sessions, TryLoadEntries(s)
    PROVE  StepOK(s)
  <1> USE DEF Inv
  <1>1. PICK to \in {"find", "connect"} : Goto(s, "schemas", to)
    BY DEF TryLoadEntries
  <1>2. /\ UNCHANGED <<serverVars, generation, table_set>>
        /\ UNCHANGED <<kind, lookup, entry, held, target, into, since, missed>>
    BY DEF TryLoadEntries
  <1>3. pc[s] = "schemas" /\ pc'[s] = to
    BY <1>1 DEF Goto, SessionType
  <1>4. HeldInv(s)'
    BY <1>2, <1>3 DEF SessionInv, HeldInv, Kept, AtSchemas, AtTables
  <1> QED
    BY <1>1, <1>2, <1>4, MoveStep DEF SessionType, Locations, AtSchemas

LEMMA LoadConnectionStep ==
    ASSUME Inv, NEW s \in Sessions, LoadConnection(s)
    PROVE  StepOK(s)
  <1> USE DEF Inv
  <1>1. /\ Goto(s, "connect", "query") \/ Goto(s, "tables connect", "tables query")
        /\ UNCHANGED <<serverVars, generation, table_set>>
        /\ UNCHANGED <<kind, lookup, entry, target, into, since, missed>> /\ Acquire(s)
    BY DEF LoadConnection, cacheVars
  <1>2. \/ pc[s] = "connect" /\ pc'[s] = "query"
        \/ pc[s] = "tables connect" /\ pc'[s] = "tables query"
    BY <1>1, GotoFacts DEF Locations
  <1>3. /\ held' \in [Sessions -> SUBSET Uses] /\ \A t \in Sessions \ {s} : held'[t] = held[t]
        /\ held'[s] = held[s] \cup {"load"}
    BY <1>1, <1>2, HeldFacts DEF Needs
  <1>4. HeldInv(s)'
    BY <1>1, <1>2, <1>3 DEF SessionInv, HeldInv, Kept, AtSchemas, AtTables
  <1> QED
    BY <1>1, <1>3, <1>4, MoveStep DEF Locations, AtSchemas, AtTables

LEMMA LoadSchemasStep ==
    ASSUME Inv, NEW s \in Sessions, LoadSchemas(s)
    PROVE  StepOK(s)
  <1> USE DEF Inv
  <1>1. /\ Goto(s, "query", "find") /\ Release(s, "load")
        /\ UNCHANGED <<serverVars, generation, table_set>>
        /\ UNCHANGED <<kind, lookup, entry, target, into, since, missed>>
    BY DEF LoadSchemas
  <1>2. pc[s] = "query" /\ pc'[s] = "find"
    BY <1>1, GotoFacts DEF Locations
  <1>3. /\ held' \in [Sessions -> SUBSET Uses] /\ \A t \in Sessions \ {s} : held'[t] = held[t]
        /\ held'[s] = held[s] \ {"load"}
    BY <1>1, HeldFacts
  <1>4. HeldInv(s)'
    BY <1>1, <1>2, <1>3 DEF SessionInv, HeldInv, Kept, AtSchemas, AtTables
  <1> QED
    BY <1>1, <1>3, <1>4, MoveStep DEF Locations, AtSchemas

LEMMA LoadFailureStep ==
    ASSUME Inv, NEW s \in Sessions, LoadFailure(s)
    PROVE  StepOK(s)
  <1> USE DEF Inv
  <1>1. /\ EndStatement(s) /\ UNCHANGED <<serverVars, generation>>
        /\ table_set' = table_set \/ table_set' = [table_set EXCEPT ![entry[s]] = NotLoaded]
    BY DEF LoadFailure
  <1>2. NotLoaded \in TableSets /\ ~NotLoaded.loaded
    BY DEF NotLoaded, TableSets
  <1>3. /\ table_set' \in [1 .. generation -> TableSets]
        /\ \A g \in 1 .. generation : table_set'[g] = table_set[g] \/ ~table_set'[g].loaded
    <2>1. table_set \in [1 .. generation -> TableSets]
      BY DEF SharedType
    <2>2. CASE table_set' = table_set
      BY <2>1, <2>2
    <2>3. CASE table_set' = [table_set EXCEPT ![entry[s]] = NotLoaded]
      <3> DEFINE none == NotLoaded
      <3> HIDE DEF none
      <3>1. table_set' = [table_set EXCEPT ![entry[s]] = none] /\ none \in TableSets /\ ~none.loaded
        BY <1>2, <2>3 DEF none
      <3> QED
        BY <2>1, <3>1
    <2> QED
      BY <1>1, <2>2, <2>3
  <1>4. SharedOK
    BY <1>1, <1>3, CacheFrame DEF serverVars
  <1> QED
    BY <1>1, <1>4, EndStep DEF serverVars

LEMMA FindSchemaStep ==
    ASSUME Inv, NEW s \in Sessions, FindSchema(s)
    PROVE  StepOK(s)
  <1> USE DEF Inv
  <1>1. /\ Goto(s, "find", "tables") /\ entry' = [entry EXCEPT ![s] = generation]
        /\ UNCHANGED <<serverVars, cacheVars, kind, lookup, held, target, into, since, missed>>
    BY DEF FindSchema
  <1>2. /\ pc[s] = "find" /\ pc'[s] = "tables" /\ pc' \in [Sessions -> Locations]
        /\ \A t \in Sessions \ {s} : pc'[t] = pc[t]
    BY <1>1, GotoFacts DEF Locations
  <1>3. SharedOK /\ UNCHANGED stored /\ generation \in Nat \ {0}
    BY <1>1, SharedFrame DEF SharedType, serverVars
  <1>4. /\ SessionType' /\ entry'[s] = generation
        /\ \A t \in Sessions \ {s} : SameStatement(t)
    BY <1>1, <1>2, <1>3 DEF SessionType, SameStatement
  <1>5. HeldInv(s)' /\ TargetInv(s)'
    BY <1>1, <1>2 DEF SessionInv, HeldInv, Kept, AtSchemas, AtTables, TargetInv
  <1>6. Shown(generation, since[s]) => Shown(entry[s], since[s])'
    BY <1>1, <1>4 DEF Newer, Shown, serverVars, cacheVars
  <1>7. generation' = generation /\ created' = created /\ (Newer(since[s]) => Newer(since[s])')
    BY <1>1 DEF cacheVars, serverVars, Newer
  <1>8. CheckInv(s)'
    <2>1. entry'[s] \in 1 .. generation'
      BY <1>3, <1>4, <1>7
    <2>2. /\ kind'[s] = kind[s] /\ missed'[s] = missed[s] /\ lookup'[s] = lookup[s]
          /\ since'[s] = since[s] /\ CheckInv(s)
      BY <1>1 DEF SessionInv
    <2> QED
      BY <1>2, <1>6, <1>7, <2>1, <2>2 DEF CheckInv, AtSchemas, AtTables
  <1> QED
    BY <1>3, <1>4, <1>5, <1>8, StoredFrame DEF StepOK, SessionInv

LEMMA TryLoadTablesStep ==
    ASSUME Inv, NEW s \in Sessions, TryLoadTables(s)
    PROVE  StepOK(s)
  <1> USE DEF Inv
  <1>1. /\ Goto(s, "tables", "tables connect") /\ ~table_set[entry[s]].loaded
        /\ table_set' = [table_set EXCEPT ![entry[s]].lock = s]
        /\ UNCHANGED <<serverVars, generation, kind, lookup, entry, held, target, into, since, missed>>
    BY DEF TryLoadTables
  <1>2. /\ pc[s] = "tables" /\ pc'[s] = "tables connect" /\ pc' \in [Sessions -> Locations]
        /\ \A t \in Sessions \ {s} : pc'[t] = pc[t]
    BY <1>1, GotoFacts DEF Locations
  <1>3. /\ table_set' \in [1 .. generation -> TableSets] /\ entry[s] \in 1 .. generation
        /\ \A g \in 1 .. generation : table_set'[g].loaded = table_set[g].loaded
                                      /\ table_set'[g].columns = table_set[g].columns
    <2>1. table_set \in [1 .. generation -> TableSets] /\ entry[s] \in 1 .. generation
      BY <1>2 DEF SharedType, SessionInv, CheckInv, AtTables
    <2>2. \A g \in 1 .. generation :
             table_set'[g] = IF g = entry[s] THEN [table_set[g] EXCEPT !.lock = s] ELSE table_set[g]
      BY <1>1, <2>1
    <2>3. \A x \in TableSets : /\ [x EXCEPT !.lock = s] \in TableSets
                               /\ [x EXCEPT !.lock = s].loaded = x.loaded
                               /\ [x EXCEPT !.lock = s].columns = x.columns
      <3> TAKE x \in TableSets
      <3>1. [x EXCEPT !.lock = s] = [lock |-> s, loaded |-> x.loaded, columns |-> x.columns]
        BY DEF TableSets
      <3>2. x.loaded \in BOOLEAN /\ x.columns \in Layouts \cup {None}
        BY DEF TableSets
      <3> QED
        BY <3>1, <3>2 DEF TableSets
    <2>4. DOMAIN table_set' = 1 .. generation /\ table_set' = [g \in DOMAIN table_set' |-> table_set'[g]]
      BY <1>1, <2>1
    <2> QED
      BY <2>1, <2>2, <2>3, <2>4
  <1>4. SharedOK
    BY <1>1, <1>3, CacheFrame DEF serverVars
  <1>5. SessionType' /\ \A t \in Sessions \ {s} : SameStatement(t)
    BY <1>1, <1>2 DEF SessionType, SameStatement
  <1>6. HeldInv(s)' /\ TargetInv(s)'
    BY <1>1, <1>2 DEF SessionInv, HeldInv, Kept, AtSchemas, AtTables, TargetInv
  <1>7. \A n : Shown(entry[s], n) => Shown(entry[s], n)'
    BY <1>1, <1>3 DEF Shown, Newer, serverVars
  <1>8. CheckInv(s)'
    BY <1>1, <1>2, <1>3, <1>7 DEF SessionInv, CheckInv, AtSchemas, AtTables, serverVars, Newer
  <1> QED
    BY <1>1, <1>4, <1>5, <1>6, <1>8, StoredFrame DEF StepOK, SessionInv, serverVars

\* The table set shows the table as it is on the server now.
LEMMA LoadTablesStep ==
    ASSUME Inv, NEW s \in Sessions, LoadTables(s)
    PROVE  StepOK(s)
  <1> USE DEF Inv
  <1> DEFINE shown == IF table = None THEN None ELSE table.columns
             new == [lock |-> None, loaded |-> TRUE, columns |-> shown]
  <1>1. /\ Goto(s, "tables query", "tables") /\ Release(s, "load")
        /\ table_set' = [table_set EXCEPT ![entry[s]] = new]
        /\ UNCHANGED <<serverVars, generation, kind, lookup, entry, target, into, since, missed>>
    BY DEF LoadTables
  <1>2. /\ pc[s] = "tables query" /\ pc'[s] = "tables" /\ pc' \in [Sessions -> Locations]
        /\ \A t \in Sessions \ {s} : pc'[t] = pc[t]
    BY <1>1, GotoFacts DEF Locations
  <1>3. /\ held' \in [Sessions -> SUBSET Uses] /\ \A t \in Sessions \ {s} : held'[t] = held[t]
        /\ held'[s] = held[s] \ {"load"}
    BY <1>1, HeldFacts
  <1>4. new \in TableSets /\ (new.columns = None => table = None)
    BY QueryAssumption DEF SharedType, TableSets
  <1>5. /\ table_set' \in [1 .. generation -> TableSets] /\ entry[s] \in 1 .. generation
        /\ table_set'[entry[s]] = new
        /\ \A g \in 1 .. generation : g # entry[s] => table_set'[g] = table_set[g]
    <2>1. table_set \in [1 .. generation -> TableSets] /\ entry[s] \in 1 .. generation
      BY <1>2 DEF SharedType, SessionInv, CheckInv, AtTables
    <2> HIDE DEF new
    <2> QED
      BY <1>1, <1>4, <2>1
  <1> HIDE DEF new
  <1>6. SharedOK
    BY <1>1, <1>4, <1>5, CacheFrame DEF serverVars
  <1>7. SessionType' /\ \A t \in Sessions \ {s} : SameStatement(t)
    BY <1>1, <1>2, <1>3 DEF SessionType, SameStatement
  <1>8. HeldInv(s)' /\ TargetInv(s)'
    BY <1>1, <1>2, <1>3 DEF SessionInv, HeldInv, Kept, AtSchemas, AtTables, TargetInv
  <1>9. \A n : Shown(entry[s], n)'
    BY <1>1, <1>4, <1>5 DEF Shown, Newer, serverVars
  <1>10. CheckInv(s)'
    BY <1>1, <1>2, <1>5, <1>9 DEF SessionInv, CheckInv, AtSchemas, AtTables, serverVars, Newer
  <1> QED
    BY <1>1, <1>6, <1>7, <1>8, <1>10, StoredFrame DEF StepOK, SessionInv, serverVars

-----------------------------------------------------------------------------
(* What a statement does with the answer of its lookup.                    *)

\* The planner's answer: the statement ends, or goes on to its execution.
LEMMA PlannedStep ==
    ASSUME Inv, NEW s \in Sessions, pc[s] = "tables", UNCHANGED <<serverVars, cacheVars>>,
           Planned(s, table_set[entry[s]].columns)
    PROVE  StepOK(s)
  <1> USE DEF Inv
  <1>1. SharedOK /\ UNCHANGED stored
    BY SharedFrame DEF serverVars
  <1>2. CASE EndStatement(s)
    BY <1>1, <1>2, EndStep
  <1>3. CASE ~EndStatement(s)
    <2>1. /\ lookup[s] = "plan" /\ Goto(s, "tables", "ready")
          /\ target' = [target EXCEPT ![s] = IF kind[s] = "insert"
                                               THEN table_set[entry[s]].columns ELSE None]
          /\ entry' = [entry EXCEPT ![s] = 0]
          /\ UNCHANGED <<kind, lookup, held, into, since, missed>>
      BY <1>3 DEF Planned
    <2>2. /\ pc'[s] = "ready" /\ pc' \in [Sessions -> Locations]
          /\ \A t \in Sessions \ {s} : pc'[t] = pc[t]
      BY <2>1, GotoFacts DEF Locations
    <2>3. table_set[entry[s]].columns \in Layouts \cup {None}
      BY DEF SessionInv, CheckInv, AtTables, SharedType, TableSets
    <2>4. SessionType' /\ \A t \in Sessions \ {s} : SameStatement(t)
      BY <2>1, <2>2, <2>3 DEF SessionType, SameStatement
    <2>5. HeldInv(s)' /\ TargetInv(s)'
      BY <2>1, <2>2 DEF SessionInv, HeldInv, Kept, AtTables, TargetInv
    <2>6. CheckInv(s)'
      BY <2>1, <2>2 DEF SessionInv, CheckInv, AtSchemas, AtTables, serverVars
    <2> QED
      BY <1>1, <2>4, <2>5, <2>6, StoredFrame DEF StepOK, SessionInv
  <1> QED
    BY <1>2, <1>3

\* IF NOT EXISTS goes on only if the table set of the entry shows no table.
LEMMA CheckedStep ==
    ASSUME Inv, NEW s \in Sessions, pc[s] = "tables", table_set[entry[s]].loaded,
           UNCHANGED <<serverVars, cacheVars>>, Checked(s, table_set[entry[s]].columns)
    PROVE  StepOK(s)
  <1> USE DEF Inv
  <1>1. SharedOK /\ UNCHANGED stored
    BY SharedFrame DEF serverVars
  <1>2. CASE EndStatement(s)
    BY <1>1, <1>2, EndStep
  <1>3. CASE ~EndStatement(s)
    <2>1. /\ lookup[s] = "check" /\ table_set[entry[s]].columns = None
          /\ Goto(s, "tables", "create") /\ entry' = [entry EXCEPT ![s] = 0]
          /\ UNCHANGED <<kind, lookup, held, target, into, since, missed>>
      BY <1>3 DEF Checked
    <2>2. /\ pc'[s] = "create" /\ pc' \in [Sessions -> Locations]
          /\ \A t \in Sessions \ {s} : pc'[t] = pc[t]
      BY <2>1, GotoFacts DEF Locations
    <2>3. SessionType' /\ \A t \in Sessions \ {s} : SameStatement(t)
      BY <2>1, <2>2 DEF SessionType, SameStatement
    <2>4. HeldInv(s)' /\ TargetInv(s)'
      BY <2>1, <2>2 DEF SessionInv, HeldInv, Kept, AtTables, TargetInv
    <2>5. kind[s] = "ignore" /\ ~missed[s] => Newer(since[s])
      BY <2>1 DEF SessionInv, CheckInv, AtTables, Shown
    <2>6. Newer(since[s]) => Newer(since[s])'
      BY <2>1 DEF Newer, serverVars
    <2>7. CheckInv(s)'
      BY <2>1, <2>2, <2>5, <2>6 DEF SessionInv, CheckInv, AtSchemas, AtTables, serverVars
    <2> QED
      BY <1>1, <2>3, <2>4, <2>7, StoredFrame DEF StepOK, SessionInv
  <1> QED
    BY <1>2, <1>3

\* After CreateTable(): only the columns of the query become the target.
LEMMA VerifiedStep ==
    ASSUME Inv, NEW s \in Sessions, pc[s] = "tables", UNCHANGED <<serverVars, cacheVars>>,
           Verified(s, table_set[entry[s]].columns)
    PROVE  StepOK(s)
  <1> USE DEF Inv
  <1>1. SharedOK /\ UNCHANGED stored
    BY SharedFrame DEF serverVars
  <1>2. CASE EndStatement(s)
    BY <1>1, <1>2, EndStep
  <1>3. CASE ~EndStatement(s)
    <2>1. /\ lookup[s] = "verify" /\ Goto(s, "tables", "start")
          /\ target' = [target EXCEPT ![s] = Query] /\ entry' = [entry EXCEPT ![s] = 0]
          /\ UNCHANGED <<kind, lookup, held, into, since, missed>>
      BY <1>3 DEF Verified, Mismatch
    <2>2. /\ pc'[s] = "start" /\ pc' \in [Sessions -> Locations]
          /\ \A t \in Sessions \ {s} : pc'[t] = pc[t]
      BY <2>1, GotoFacts DEF Locations
    <2>3. SessionType' /\ target'[s] = Query /\ \A t \in Sessions \ {s} : SameStatement(t)
      BY <2>1, <2>2, QueryAssumption DEF SessionType, SameStatement
    <2>4. HeldInv(s)' /\ TargetInv(s)'
      BY <2>1, <2>2, <2>3 DEF SessionInv, HeldInv, Kept, AtTables, TargetInv
    <2>5. Newer(since[s]) => Newer(since[s])'
      BY <2>1 DEF Newer, serverVars
    <2>6. CheckInv(s)'
      BY <2>1, <2>2, <2>5 DEF SessionInv, CheckInv, AtSchemas, AtTables, serverVars
    <2> QED
      BY <1>1, <2>3, <2>4, <2>6, StoredFrame DEF StepOK, SessionInv
  <1> QED
    BY <1>2, <1>3

LEMMA FindTableStep ==
    ASSUME Inv, NEW s \in Sessions, FindTable(s)
    PROVE  StepOK(s)
  BY PlannedStep, CheckedStep, VerifiedStep DEF FindTable

LEMMA MissSchemaStep ==
    ASSUME Inv, NEW s \in Sessions, MissSchema(s)
    PROVE  StepOK(s)
  <1> USE DEF Inv
  <1>1. SharedOK /\ UNCHANGED <<stored, created>>
    BY SharedFrame DEF MissSchema, serverVars
  <1>2. CASE EndStatement(s)
    BY <1>1, <1>2, EndStep
  <1>3. CASE ~EndStatement(s)
    <2>1. /\ lookup[s] = "check" /\ Goto(s, "find", "create")
          /\ missed' = [missed EXCEPT ![s] = TRUE]
          /\ UNCHANGED <<kind, lookup, entry, held, target, into, since>>
      BY <1>3 DEF MissSchema
    <2>2. /\ pc[s] = "find" /\ pc'[s] = "create" /\ pc' \in [Sessions -> Locations]
          /\ \A t \in Sessions \ {s} : pc'[t] = pc[t]
      BY <2>1, GotoFacts DEF Locations
    <2>3. missed' \in [Sessions -> BOOLEAN] /\ missed'[s]
      BY <2>1 DEF SessionType
    <2>4. SessionType' /\ \A t \in Sessions \ {s} : SameStatement(t)
      BY <2>1, <2>2, <2>3 DEF SessionType, SameStatement
    <2>5. HeldInv(s)' /\ TargetInv(s)'
      BY <2>1, <2>2 DEF SessionInv, HeldInv, Kept, AtSchemas, TargetInv
    <2>6. CheckInv(s)'
      BY <1>1, <2>1, <2>2, <2>3 DEF SessionInv, CheckInv, AtTables
    <2> QED
      BY <1>1, <2>4, <2>5, <2>6, StoredFrame DEF StepOK, SessionInv
  <1> QED
    BY <1>2, <1>3

-----------------------------------------------------------------------------
(* Execution.                                                              *)

LEMMA StartSourceStep ==
    ASSUME Inv, NEW s \in Sessions, StartSource(s)
    PROVE  StepOK(s)
  <1> USE DEF Inv
  <1>1. /\ Goto(s, "ready", "running") /\ Acquire(s)
        /\ UNCHANGED <<serverVars, generation, table_set>>
        /\ UNCHANGED <<kind, lookup, entry, target, into, since, missed>>
    BY DEF StartSource, cacheVars
  <1>2. pc[s] = "ready" /\ pc'[s] = "running"
    BY <1>1, GotoFacts DEF Locations
  <1>3. /\ held' \in [Sessions -> SUBSET Uses] /\ \A t \in Sessions \ {s} : held'[t] = held[t]
        /\ held'[s] = held[s] \cup {"scan"}
    BY <1>1, <1>2, HeldFacts DEF Needs
  <1>4. HeldInv(s)'
    BY <1>1, <1>2, <1>3 DEF SessionInv, HeldInv, Kept, AtSchemas, AtTables
  <1> QED
    BY <1>1, <1>3, <1>4, MoveStep DEF Locations

LEMMA StartWriteStep ==
    ASSUME Inv, NEW s \in Sessions, StartWrite(s)
    PROVE  StepOK(s)
  <1> USE DEF Inv
  <1>1. /\ Goto(s, "create", "execute") /\ Acquire(s)
        /\ UNCHANGED <<serverVars, generation, table_set>>
        /\ UNCHANGED <<kind, lookup, entry, target, into, since, missed>>
    BY DEF StartWrite, cacheVars
  <1>2. pc[s] = "create" /\ pc'[s] = "execute"
    BY <1>1, GotoFacts DEF Locations
  <1>3. /\ held' \in [Sessions -> SUBSET Uses] /\ \A t \in Sessions \ {s} : held'[t] = held[t]
        /\ held'[s] = held[s] \cup {"write"}
    BY <1>1, <1>2, HeldFacts DEF Needs
  <1>4. HeldInv(s)'
    BY <1>1, <1>2, <1>3 DEF SessionInv, HeldInv, Kept, AtSchemas, AtTables
  <1> QED
    BY <1>1, <1>3, <1>4, MoveStep DEF Locations

\* Steps that decide what the statement does next.
LEMMA DecideStep ==
    ASSUME Inv, NEW s \in Sessions, pc' \in [Sessions -> Locations],
           lookup' \in [Sessions -> Lookups], held' \in [Sessions -> SUBSET Uses],
           \A t \in Sessions \ {s} :
              pc'[t] = pc[t] /\ lookup'[t] = lookup[t] /\ held'[t] = held[t],
           SharedOK, UNCHANGED <<stored, kind, entry, target, into, since, missed>>,
           HeldInv(s)', pc'[s] \in {"clear", "create", "start"},
           pc'[s] = "start" => kind[s] = "insert",
           pc'[s] = "create" => kind[s] # "ignore",
           lookup'[s] = "verify" /\ kind[s] = "ignore" /\ ~missed[s] => Newer(since[s])
    PROVE  StepOK(s)
  <1> USE DEF Inv
  <1>1. SessionType' /\ \A t \in Sessions \ {s} : SameStatement(t)
    BY DEF SessionType, SameStatement
  <1>2. TargetInv(s)'
    BY DEF TargetInv
  <1>3. since[s] \in Nat /\ since[s] <= created /\ created \in Nat /\ created' \in Nat
        /\ created' >= created /\ since'[s] = since[s]
    BY DEF SessionInv, CheckInv, SharedOK, SharedType, SessionType
  <1>4. Newer(since[s]) => Newer(since[s])'
    BY <1>3 DEF SharedOK, Newer
  <1>5. since'[s] <= created'
    BY <1>3
  <1>6. CheckInv(s)'
    BY <1>4, <1>5 DEF CheckInv, AtSchemas, AtTables
  <1> QED
    BY <1>1, <1>2, <1>6, StoredFrame DEF StepOK, SessionInv

LEMMA FirstInputStep ==
    ASSUME Inv, NEW s \in Sessions, FirstInput(s)
    PROVE  StepOK(s)
  <1> USE DEF Inv
  <1>1. /\ pc[s] = "running" /\ UNCHANGED <<stored, kind, entry, target, into, since, missed>>
        /\ SharedOK
    BY SharedFrame DEF FirstInput, serverVars
  <1>2. CASE kind[s] = "insert"
    <2>1. Goto(s, "running", "start") /\ UNCHANGED <<lookup, held>>
      BY <1>2 DEF FirstInput
    <2>2. /\ pc'[s] = "start" /\ pc' \in [Sessions -> Locations]
          /\ \A t \in Sessions \ {s} : pc'[t] = pc[t]
      BY <2>1, GotoFacts DEF Locations
    <2>3. HeldInv(s)'
      BY <1>1, <2>1, <2>2 DEF SessionInv, HeldInv, Kept, AtSchemas, AtTables
    <2> QED
      BY <1>1, <1>2, <2>1, <2>2, <2>3, DecideStep DEF SessionType
  <1>3. CASE kind[s] # "insert"
    <2>1. /\ pc' = [pc EXCEPT ![s] = IF kind[s] = "ignore" THEN "clear" ELSE "create"]
          /\ lookup' = [lookup EXCEPT ![s] = "check"]
          /\ Release(s, "scan") \/ UNCHANGED held
      BY <1>3 DEF FirstInput, Prepare
    <2>2. /\ pc'[s] = IF kind[s] = "ignore" THEN "clear" ELSE "create"
          /\ pc' \in [Sessions -> Locations] /\ \A t \in Sessions \ {s} : pc'[t] = pc[t]
      BY <2>1 DEF SessionType, Locations
    <2>3. /\ lookup'[s] = "check" /\ lookup' \in [Sessions -> Lookups]
          /\ \A t \in Sessions \ {s} : lookup'[t] = lookup[t]
      BY <2>1 DEF SessionType, Lookups
    <2>4. /\ held' \in [Sessions -> SUBSET Uses] /\ \A t \in Sessions \ {s} : held'[t] = held[t]
          /\ held'[s] \subseteq held[s]
      BY <2>1, HeldFacts DEF SessionType
    <2>5. HeldInv(s)'
      BY <1>1, <2>2, <2>3, <2>4 DEF SessionInv, HeldInv, Kept, AtSchemas, AtTables
    <2> QED
      BY <1>1, <1>3, <2>2, <2>3, <2>4, <2>5, DecideStep
  <1> QED
    BY <1>2, <1>3

LEMMA StartWriteFailsStep ==
    ASSUME Inv, NEW s \in Sessions, StartWriteFails(s)
    PROVE  StepOK(s)
  <1> USE DEF Inv
  <1>1. /\ Goto(s, "create", "clear") /\ lookup' = [lookup EXCEPT ![s] = "fail"]
        /\ UNCHANGED <<stored, kind, entry, held, target, into, since, missed>> /\ SharedOK
    BY SharedFrame DEF StartWriteFails, serverVars
  <1>2. /\ pc[s] = "create" /\ pc'[s] = "clear" /\ pc' \in [Sessions -> Locations]
        /\ \A t \in Sessions \ {s} : pc'[t] = pc[t]
    BY <1>1, GotoFacts DEF Locations
  <1>3. /\ lookup'[s] = "fail" /\ lookup' \in [Sessions -> Lookups]
        /\ \A t \in Sessions \ {s} : lookup'[t] = lookup[t]
    BY <1>1 DEF SessionType, Lookups
  <1>4. HeldInv(s)'
    BY <1>1, <1>2, <1>3 DEF SessionInv, HeldInv, Kept, AtSchemas, AtTables
  <1> QED
    BY <1>1, <1>2, <1>3, <1>4, DecideStep DEF SessionType

LEMMA ExecuteStep ==
    ASSUME Inv, NEW s \in Sessions, Execute(s)
    PROVE  StepOK(s)
  <1> USE DEF Inv
  <1>1. /\ Goto(s, "execute", "clear") /\ Release(s, "write")
        /\ UNCHANGED <<stored, cacheVars, kind, entry, target, into, since, missed>>
    BY DEF Execute
  <1>2. PICK l \in {"verify", "fail"} : lookup' = [lookup EXCEPT ![s] = l]
    BY DEF Execute
  <1>3. SharedOK
    <2>1. CASE Created(Query)
      BY <1>1, <2>1, TableFrame, QueryAssumption
    <2>2. CASE UNCHANGED <<table, created>>
      <3>1. /\ UNCHANGED <<table, created, generation>> /\ table_set' = table_set
            /\ table_set' \in [1 .. generation -> TableSets]
        BY <1>1, <2>2 DEF SharedType, cacheVars
      <3> QED
        BY <3>1, CacheFrame
    <2> QED
      BY <2>1, <2>2 DEF Execute
  <1>4. /\ pc[s] = "execute" /\ pc'[s] = "clear" /\ pc' \in [Sessions -> Locations]
        /\ \A t \in Sessions \ {s} : pc'[t] = pc[t]
    BY <1>1, GotoFacts DEF Locations
  <1>5. /\ lookup'[s] = l /\ lookup' \in [Sessions -> Lookups]
        /\ \A t \in Sessions \ {s} : lookup'[t] = lookup[t]
    BY <1>2 DEF SessionType, Lookups
  <1>6. /\ held' \in [Sessions -> SUBSET Uses] /\ \A t \in Sessions \ {s} : held'[t] = held[t]
        /\ held'[s] = held[s] \ {"write"}
    BY <1>1, HeldFacts
  <1>7. HeldInv(s)'
    BY <1>4, <1>5, <1>6 DEF SessionInv, HeldInv, Kept, AtSchemas, AtTables
  <1>8. kind[s] = "ignore" /\ ~missed[s] => Newer(since[s])
    BY <1>4 DEF SessionInv, CheckInv
  <1> QED
    BY <1>1, <1>3, <1>4, <1>5, <1>6, <1>7, <1>8, DecideStep

\* The new generation has shown nothing yet.
LEMMA ClearCacheShared ==
    ASSUME Inv, NEW s \in Sessions, ClearCache(s)
    PROVE  SharedOK /\ generation' = generation + 1 /\ ~table_set'[generation'].loaded
  <1> USE DEF Inv
  <1>1. /\ UNCHANGED <<table, created>> /\ generation' = generation + 1
        /\ table_set' = [g \in 1 .. generation + 1 |->
                           IF \E t \in Sessions : entry[t] = g THEN table_set[g] ELSE NotLoaded]
    BY DEF ClearCache, serverVars
  <1>2. NotLoaded \in TableSets /\ NotLoaded.loaded = FALSE
    BY DEF NotLoaded, TableSets
  <1>3. generation \in Nat \ {0} /\ created \in Nat
        /\ table_set \in [1 .. generation -> TableSets]
    BY DEF SharedType
  <1>4. \A t \in Sessions : entry[t] <= generation /\ entry[t] \in Nat
    BY DEF SessionType, EntryInv
  <1> HIDE DEF NotLoaded
  <1>5. /\ table_set' \in [1 .. generation' -> TableSets]
        /\ table_set'[generation'] = NotLoaded
        /\ \A g \in 1 .. generation :
              (\E t \in Sessions : entry[t] = g) => table_set'[g] = table_set[g]
    BY <1>1, <1>2, <1>3, <1>4
  <1>6. SharedType' /\ created' >= created /\ generation' >= generation /\ generation' # generation
    BY <1>1, <1>3, <1>5 DEF SharedType
  <1>7. \A n : Newer(n)' <=> Newer(n)
    BY <1>1 DEF Newer
  <1>8. \A n \in Nat, g \in 1 .. generation :
           Shown(g, n) /\ (\E t \in Sessions : entry[t] = g) => Shown(g, n)'
    BY <1>1, <1>5 DEF Shown, Newer
  <1> QED
    BY <1>1, <1>2, <1>5, <1>6, <1>7, <1>8 DEF SharedOK

LEMMA ClearCacheStep ==
    ASSUME Inv, NEW s \in Sessions, ClearCache(s)
    PROVE  StepOK(s)
  <1> USE DEF Inv
  <1>1. SharedOK /\ generation' = generation + 1 /\ ~table_set'[generation'].loaded
    BY ClearCacheShared
  <1>2. UNCHANGED stored /\ pc[s] = "clear"
    BY DEF ClearCache, serverVars
  <1>3. CASE EndStatement(s)
    BY <1>1, <1>2, <1>3, EndStep
  <1>4. CASE ~EndStatement(s)
    <2>1. /\ Goto(s, "clear", "schemas") /\ UNCHANGED <<table, created>>
          /\ UNCHANGED <<kind, lookup, entry, held, target, into, since, missed>>
      BY <1>4 DEF ClearCache, serverVars
    <2>2. /\ pc'[s] = "schemas" /\ pc' \in [Sessions -> Locations]
          /\ \A t \in Sessions \ {s} : pc'[t] = pc[t]
      BY <2>1, GotoFacts DEF Locations
    <2>3. SessionType' /\ \A t \in Sessions \ {s} : SameStatement(t)
      BY <2>1, <2>2 DEF SessionType, SameStatement
    <2>4. HeldInv(s)' /\ TargetInv(s)'
      BY <1>2, <2>1, <2>2 DEF SessionInv, HeldInv, Kept, AtSchemas, TargetInv
    <2>5. Shown(generation, since[s])' /\ (Newer(since[s]) => Newer(since[s])')
      BY <1>1, <2>1 DEF Shown, Newer
    <2>6. CheckInv(s)'
      BY <1>2, <2>1, <2>2, <2>5 DEF SessionInv, CheckInv, AtSchemas, AtTables
    <2> QED
      BY <1>1, <1>2, <2>3, <2>4, <2>6, StoredFrame DEF StepOK, SessionInv
  <1> QED
    BY <1>3, <1>4

LEMMA StartInsertStep ==
    ASSUME Inv, NEW s \in Sessions, StartInsert(s)
    PROVE  StepOK(s)
  <1> USE DEF Inv
  <1>1. /\ Goto(s, "start", "insert") /\ Acquire(s) /\ table # None
        /\ into' = [into EXCEPT ![s] = table.id]
        /\ UNCHANGED <<serverVars, cacheVars, kind, lookup, entry, target, since, missed>>
    BY DEF StartInsert
  <1>2. /\ pc[s] = "start" /\ pc'[s] = "insert" /\ pc' \in [Sessions -> Locations]
        /\ \A t \in Sessions \ {s} : pc'[t] = pc[t]
    BY <1>1, GotoFacts DEF Locations
  <1>3. /\ held' \in [Sessions -> SUBSET Uses] /\ \A t \in Sessions \ {s} : held'[t] = held[t]
        /\ held'[s] = held[s] \cup {"write"}
    BY <1>1, <1>2, HeldFacts DEF Needs
  <1>4. /\ into' \in [Sessions -> Nat] /\ into'[s] = table.id
        /\ \A t \in Sessions \ {s} : into'[t] = into[t]
    <2>1. table.id \in Nat
      BY <1>1 DEF SharedType
    <2> QED
      BY <1>1, <2>1 DEF SessionType
  <1>5. SessionType' /\ \A t \in Sessions \ {s} : SameStatement(t)
    BY <1>1, <1>2, <1>3, <1>4 DEF SessionType, SameStatement
  <1>6. SharedOK /\ UNCHANGED stored
    BY <1>1, SharedFrame DEF serverVars
  <1>7. HeldInv(s)' /\ TargetInv(s)'
    BY <1>1, <1>2, <1>3 DEF SessionInv, HeldInv, Kept, AtSchemas, AtTables, TargetInv
  <1>8. CheckInv(s)'
    <2>1. kind[s] = "ignore" /\ ~missed[s] => Newer(since[s]) /\ into'[s] > since[s]
      BY <1>1, <1>2, <1>4 DEF SessionInv, CheckInv, Newer
    <2>2. Newer(since[s]) => Newer(since[s])'
      BY <1>1 DEF Newer, serverVars
    <2> QED
      BY <1>1, <1>2, <2>1, <2>2 DEF SessionInv, CheckInv, AtSchemas, AtTables, serverVars
  <1> QED
    BY <1>5, <1>6, <1>7, <1>8, StoredFrame DEF StepOK, SessionInv

LEMMA EndInsertStep ==
    ASSUME Inv, NEW s \in Sessions, EndInsert(s)
    PROVE  StepOK(s)
  <1> USE DEF Inv
  <1> DEFINE r == [table |-> into[s], kind |-> kind[s], since |-> since[s],
                   missed |-> missed[s], columns |-> target[s]]
  <1>1. /\ pc[s] = "insert" /\ EndStatement(s) /\ stored' \subseteq stored \cup {r}
        /\ UNCHANGED <<table, created, generation, table_set>>
    BY DEF EndInsert, cacheVars
  <1>2. SharedOK
    <2>1. table_set' = table_set /\ table_set' \in [1 .. generation -> TableSets]
      BY <1>1 DEF SharedType
    <2> QED
      BY <1>1, <2>1, CacheFrame
  <1>3. created' \in Nat
    BY <1>2 DEF SharedOK, SharedType
  <1>4. kind[s] # "insert" => target[s] = Query
    BY <1>1 DEF SessionInv, TargetInv
  <1>5. kind[s] = "ignore" /\ ~missed[s] => into[s] > since[s]
    BY <1>1 DEF SessionInv, CheckInv
  <1>6. /\ r.kind # "insert" => r.columns = Query
        /\ r.kind = "ignore" /\ ~r.missed => r.table > r.since
    BY <1>4, <1>5
  <1> HIDE DEF r
  <1>7. RowsUnderTheirNames' /\ IfNotExistsChecksTheServer'
    BY <1>1, <1>6 DEF RowsUnderTheirNames, IfNotExistsChecksTheServer
  <1> QED
    BY <1>1, <1>2, <1>3, <1>7, EndFacts DEF StepOK

LEMMA FailureStep ==
    ASSUME Inv, NEW s \in Sessions, NoInput(s) \/ Failure(s)
    PROVE  StepOK(s)
  <1>1. EndStatement(s) /\ UNCHANGED <<serverVars, cacheVars>>
    BY DEF NoInput, Failure
  <1>2. SharedOK /\ UNCHANGED stored
    BY <1>1, SharedFrame DEF Inv, serverVars
  <1> QED
    BY <1>1, <1>2, EndStep

LEMMA OtherClientStep ==
    ASSUME Inv, OtherClient
    PROVE  Inv'
  <1> USE DEF Inv
  <1>1. SharedOK
    BY TableFrame, QueryAssumption DEF OtherClient
  <1>2. UNCHANGED <<stored, generation>> /\ UNCHANGED statementVars
    BY DEF OtherClient, cacheVars
  <1>3. SessionType' /\ EntryInv' /\ \A t \in Sessions : SameStatement(t)
    BY <1>2 DEF SessionType, EntryInv, SameStatement, statementVars
  <1> QED
    BY <1>1, <1>2, <1>3, StatementFrame, StoredFrame DEF SharedOK

-----------------------------------------------------------------------------
(* The invariant is inductive.                                             *)

LEMMA InitInv == Init => Inv
  <1> SUFFICES ASSUME Init
               PROVE  Inv
    OBVIOUS
  <1>1. SharedType
    <2>1. table \in {None} \cup [id : Nat, columns : Layouts] /\ created \in Nat
      BY DEF Init
    <2>2. generation = 1 /\ NotLoaded \in TableSets
      BY DEF Init, NotLoaded, TableSets
    <2>3. table_set \in [1 .. generation -> TableSets]
      BY <2>2 DEF Init
    <2> QED
      BY <2>1, <2>2, <2>3 DEF SharedType
  <1>2. SessionType
    <2>1. missed \in [Sessions -> BOOLEAN]
      BY DEF Init
    <2> QED
      BY <2>1 DEF Init, SessionType, Locations, Kinds, Lookups
  <1>3. EntryInv /\ RowsUnderTheirNames /\ IfNotExistsChecksTheServer
    BY DEF Init, EntryInv, RowsUnderTheirNames, IfNotExistsChecksTheServer
  <1>4. ASSUME NEW s \in Sessions
        PROVE  SessionInv(s)
    <2>1. /\ pc[s] = "idle" /\ kind[s] = "insert" /\ lookup[s] = "plan" /\ held[s] = {}
          /\ since[s] = 0 /\ created = 1
      BY DEF Init
    <2> QED
      BY <2>1 DEF SessionInv, HeldInv, TargetInv, CheckInv, AtTables
  <1> QED
    BY <1>1, <1>2, <1>3, <1>4 DEF Inv

\* An entry is of the current generation when it is found.
LEMMA EntryStep ==
    ASSUME SharedType, SessionType, EntryInv, NEW s \in Sessions,
           BeginStatement(s) \/ LockStep(s) \/ FreeStep(s)
    PROVE  EntryInv'
  <1>1. generation' = generation \/ generation' = generation + 1
    BY DEF BeginStatement, LockStep, FreeStep, TryLoadEntries, TryLoadTables, ClearCache,
           LoadConnection, LoadSchemas, LoadFailure, LoadTables, FindSchema, FindTable, MissSchema,
           StartSource, FirstInput, NoInput, StartWrite, StartWriteFails, Execute, StartInsert,
           EndInsert, Failure, cacheVars
  <1>2. \/ entry' = entry
        \/ entry' = [entry EXCEPT ![s] = 0]
        \/ entry' = [entry EXCEPT ![s] = generation]
    BY DEF BeginStatement, LockStep, FreeStep, TryLoadEntries, TryLoadTables, ClearCache,
           LoadConnection, LoadSchemas, LoadFailure, LoadTables, FindSchema, FindTable, MissSchema,
           StartSource, FirstInput, NoInput, StartWrite, StartWriteFails, Execute, StartInsert,
           EndInsert, Failure, EndStatement, Planned, Checked, Verified
  <1>3. generation \in Nat /\ entry \in [Sessions -> Nat]
    BY DEF SharedType, SessionType
  <1> QED
    BY <1>1, <1>2, <1>3 DEF EntryInv

LEMMA StepInv == Inv /\ [Next]_vars => Inv'
  <1> SUFFICES ASSUME Inv, [Next]_vars
               PROVE  Inv'
    OBVIOUS
  <1>1. ASSUME NEW s \in Sessions, BeginStatement(s) \/ LockStep(s) \/ FreeStep(s)
        PROVE  Inv'
    <2>1. EntryInv'
      BY <1>1, EntryStep DEF Inv
    <2>2. CASE BeginStatement(s)
      BY <2>1, <2>2, BeginStatementStep, StepOKSuffices
    <2>3. CASE LockStep(s)
      BY <2>1, <2>3, TryLoadEntriesStep, TryLoadTablesStep, ClearCacheStep, StepOKSuffices
         DEF LockStep
    <2>4. CASE LoadConnection(s) \/ LoadSchemas(s) \/ LoadFailure(s) \/ LoadTables(s)
      BY <2>1, <2>4, LoadConnectionStep, LoadSchemasStep, LoadFailureStep, LoadTablesStep,
         StepOKSuffices
    <2>5. CASE FindSchema(s) \/ FindTable(s) \/ MissSchema(s)
      BY <2>1, <2>5, FindSchemaStep, FindTableStep, MissSchemaStep, StepOKSuffices
    <2>6. CASE StartSource(s) \/ FirstInput(s) \/ NoInput(s) \/ Failure(s)
      BY <2>1, <2>6, StartSourceStep, FirstInputStep, FailureStep, StepOKSuffices
    <2>7. CASE StartWrite(s) \/ StartWriteFails(s) \/ Execute(s)
      BY <2>1, <2>7, StartWriteStep, StartWriteFailsStep, ExecuteStep, StepOKSuffices
    <2>8. CASE StartInsert(s) \/ EndInsert(s)
      BY <2>1, <2>8, StartInsertStep, EndInsertStep, StepOKSuffices
    <2> QED
      BY <1>1, <2>2, <2>3, <2>4, <2>5, <2>6, <2>7, <2>8 DEF FreeStep
  <1>2. CASE OtherClient
    BY <1>2, OtherClientStep
  <1>3. CASE UNCHANGED vars
    <2>1. SharedOK /\ UNCHANGED <<stored, generation>> /\ UNCHANGED statementVars
      BY <1>3, SharedFrame DEF Inv, vars, serverVars, cacheVars
    <2>2. SessionType' /\ EntryInv' /\ \A t \in Sessions : SameStatement(t)
      BY <2>1 DEF Inv, SessionType, EntryInv, SameStatement, statementVars
    <2> QED
      BY <2>1, <2>2, StatementFrame, StoredFrame DEF Inv, SharedOK
  <1> QED
    BY <1>1, <1>2, <1>3 DEF Next

LEMMA StatementsInv == Spec => []Inv
  BY InitInv, StepInv, PTL DEF Spec

(***************************************************************************)
(* PrepareTarget() throws on a table whose columns are not those of the    *)
(* query: whatever other clients create in the meantime, the rows of a     *)
(* CREATE TABLE ... AS are stored under the names of its query, in order.  *)
(***************************************************************************)
THEOREM RowsStayUnderTheirNames == Spec => []RowsUnderTheirNames
  <1>1. Inv => RowsUnderTheirNames
    BY DEF Inv
  <1> QED
    BY <1>1, StatementsInv, PTL

(***************************************************************************)
(* PrepareTarget() clears the cache before the check of IF NOT EXISTS, so  *)
(* the check sees a table that was there when the statement began, but for *)
(* a lookup that another clear hits between the load and the search.       *)
(***************************************************************************)
THEOREM IfNotExistsSeesTheServer == Spec => []IfNotExistsChecksTheServer
  <1>1. Inv => IfNotExistsChecksTheServer
    BY DEF Inv
  <1> QED
    BY <1>1, StatementsInv, PTL

\* A statement that needs a connection holds its scan's at most.
LEMMA OneConnectionHeld ==
    ASSUME Inv, NEW s \in Sessions, Needs(s) # {}
    PROVE  held[s] \subseteq {"scan"}
  <1>1. pc[s] \in {"connect", "tables connect", "create", "start", "ready"}
    BY DEF Needs
  <1> QED
    BY <1>1 DEF Inv, SessionInv, HeldInv, Kept

(***************************************************************************)
(* A pool of two connections is enough for any one statement: its load,    *)
(* its CREATE TABLE and its INSERT find one (GetConnection()) while the    *)
(* scan keeps its own, if no other statement holds any.                    *)
(***************************************************************************)
THEOREM AloneIsNeverRefused == Spec => []AloneNeverWaits
  <1>1. Inv => AloneNeverWaits
    <2> SUFFICES ASSUME Inv, NEW s \in Sessions, Needs(s) # {}, Limit >= 2,
                        \A t \in Sessions \ {s} : held[t] = {}
                 PROVE  InUse < Limit
      BY DEF AloneNeverWaits, Available
    <2> DEFINE all == {h \in Sessions \X Uses : h[2] \in held[h[1]]}
    <2>1. held[s] \subseteq {"scan"}
      BY OneConnectionHeld
    <2>2. all \subseteq {<<s, "scan">>}
      <3> SUFFICES ASSUME NEW h \in Sessions \X Uses, h[2] \in held[h[1]]
                   PROVE  h = <<s, "scan">>
        OBVIOUS
      <3>1. h[1] = s /\ h[2] = "scan"
        BY <2>1
      <3> QED
        BY <3>1
    <2>3. IsFiniteSet({<<s, "scan">>}) /\ Cardinality({<<s, "scan">>}) = 1
      BY FS_Singleton
    <2>4. Cardinality(all) <= 1 /\ Cardinality(all) \in Nat
      BY <2>2, <2>3, FS_Subset, FS_CardinalityType
    <2> QED
      BY <2>4, LimitAssumption DEF InUse
  <1> QED
    BY <1>1, StatementsInv, PTL
=============================================================================
