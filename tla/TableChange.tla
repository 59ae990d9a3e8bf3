----------------------------- MODULE TableChange -----------------------------
(***************************************************************************)
(* ALTER TABLE, UPDATE and DELETE of one column of a ClickHouse table, as  *)
(* DuckDB sessions run them: a few queries that check, then a statement    *)
(* that the server turns into a change of the column's metadata, into a    *)
(* mutation (a rewrite of the stored parts, in the background), or into    *)
(* both.  Other clients insert in between.  The server is external: a part *)
(* holds one row, `Here` is the replica the sessions talk to, and the      *)
(* other replicas follow with the changes in order, but a change of        *)
(* metadata does not wait for the mutations sent before it.                *)
(***************************************************************************)
EXTENDS ColumnTypes, FiniteSets

CONSTANTS
    Sessions,
    Replicas, Here,
    Tables,         \* the table at first, and bounds: [engine, column, left]
    Values,         \* what rows and defaults hold beside NULL
    Types,          \* targets of type changes
    Syncs           \* values of ch_mutations_sync

Null == "null"
Missing == "missing"    \* the part does not store the column

\* An EPHEMERAL column is none of DuckDB's.
DefaultKinds == {"", "DEFAULT", "MATERIALIZED", "ALIAS"}
Column == [exists : BOOLEAN, type : ColumnType, nullable : BOOLEAN,
           default_kind : DefaultKinds, default : Values \cup {Null}, in_key : BOOLEAN]
NoColumn == [exists |-> FALSE, type |-> Scalar("none"), nullable |-> TRUE,
             default_kind |-> "", default |-> Null, in_key |-> FALSE]

ASSUME HereAssumption == Here \in Replicas
ASSUME ValuesAssumption == Null \notin Values /\ Missing \notin Values
ASSUME TypesAssumption == Types \subseteq ColumnType
ASSUME TablesAssumption ==
    \A table \in Tables :
        /\ table.column \in Column
        /\ table.column.default_kind # "" => table.column.default # Null
        /\ ~table.column.exists => table.column = NoColumn

VARIABLES
    engine,
    alters,     \* the column's metadata, one entry per change
    applied,    \* per replica, how many of them it has applied
    mutations,
    done,       \* per replica, how many mutations it has finished
    rows,       \* per replica and part
    sessions,
    left        \* how many statements and inserts may still come

server == <<engine, alters, applied, mutations, done, rows>>
vars == <<server, sessions, left>>

MergeTree == engine \in {"MergeTree", "ReplicatedMergeTree"}
Replicated == engine = "ReplicatedMergeTree"
Copies == IF Replicated THEN Replicas ELSE {Here}

ColumnAt(r) == alters[applied[r]].column
Current == alters[Len(alters)].column
Parts == DOMAIN rows[Here]

\* The values are the extreme ones of the type the column began with.
Origin == alters[IF alters[1].column.exists THEN 1 ELSE 2].column.type
Converted(value, column) ==
    IF value = Null \/ Fits(Origin, column.type) THEN value ELSE "changed"

\* What part p of replica r reads as.  A default stands in for what is missing.
ReadAt(r, p) ==
    LET column == ColumnAt(r) IN
    IF ~column.exists THEN "none"
    ELSE IF rows[r][p].stored # Missing THEN Converted(rows[r][p].stored, column)
    ELSE IF column.default_kind # "" THEN Converted(column.default, column)
    ELSE IF column.nullable THEN Null ELSE "zero"

NullIf(value, other) == IF value = other THEN Null ELSE value

-----------------------------------------------------------------------------
(* Sessions.                                                               *)

Idle == [pc |-> "idle"]

\* What others may have changed since a session's statement began.
Version == <<Len(rows[Here]), Len(mutations), Len(alters)>>
Settled == \A r \in Copies : done[r] = Len(mutations) /\ applied[r] = Len(alters)
\* The column as the statement loaded it.
LoadedColumn(session) == alters[session.seen[3]].column
Raced(s) == ~sessions[s].settled \/ sessions[s].seen # Version

\* A statement that is refused, or has nothing to send, goes to "idle".
Begin(s, op, arg, sync, pc) ==
    /\ sessions[s].pc = "idle" /\ pc # "idle"
    /\ left.statements > 0
    /\ left' = [left EXCEPT !.statements = @ - 1]
    /\ sessions' = [sessions EXCEPT ![s] =
         [pc |-> pc, op |-> op, arg |-> arg, sync |-> sync,
          seen |-> Version, settled |-> Settled, count |-> 0, mutation |-> 0]]
    /\ UNCHANGED server

At(s, pc) == sessions[s].pc = pc
Goto(s, pc) == sessions' = [sessions EXCEPT ![s] = IF pc = "idle" THEN Idle ELSE [@ EXCEPT !.pc = pc]]

\* Any query or statement may fail, also once the server has acted on it.
Fail(s) ==
    /\ ~At(s, "idle")
    /\ Goto(s, "idle")
    /\ UNCHANGED <<server, left>>

-----------------------------------------------------------------------------
(* ALTER TABLE.  The table entry at hand is current (CatalogCache).  The   *)
(* forms of ALTER COLUMN first load the column from the server.            *)

AddColumnUncounted(s, default) ==
    /\ ~Current.exists
    /\ Begin(s, "add", default, Null, "modify")

AddColumn(s, default) ==
    /\ ~Current.exists
    /\ Begin(s, "add", default, Null, IF default # Null /\ ~MergeTree THEN "rows" ELSE "modify")

\* Only the MergeTree family computes the default for the rows it holds.
CountRows(s) ==
    /\ At(s, "rows")
    /\ Goto(s, IF \E p \in Parts : ~rows[Here][p].masked THEN "idle" ELSE "modify")
    /\ UNCHANGED <<server, left>>

Rewritable(column) == ~column.in_key /\ column.default_kind # "ALIAS"

\* Whether a column of this default_kind lets SET (DROP) DEFAULT send anything.
DefaultChanges(op) ==
    Current.default_kind \in (IF op = "set default" THEN {"", "DEFAULT"} ELSE {"DEFAULT"})

SetDefault(s, op, default, sync) ==
    /\ Current.exists /\ DefaultChanges(op)
    /\ MergeTree \/ engine = "Memory"
    /\ Begin(s, op, default, sync, IF MergeTree THEN "parts" ELSE "modify")

SetNotNull(s) ==
    /\ Current.exists /\ Current.nullable /\ Rewritable(Current)
    /\ Begin(s, "set not null", Null, Null, "nulls")

DropNotNull(s) ==
    /\ Current.exists /\ ~Current.nullable /\ Rewritable(Current)
    /\ CanBeNullable(Current.type)
    /\ Begin(s, "drop not null", Null, Null, "modify")

ChangeType(s, target) ==
    LET source == DuckDBType(Current.type) IN
    /\ Current.exists
    /\ source # target /\ ~IsNested(source) /\ ~IsNested(target)
    /\ KeepsEveryValue(source, target)
    /\ source = Current.type \* stored exactly as DuckDB reads it
    /\ Rewritable(Current)
    /\ Begin(s, "type", target, Null, "modify")

MissingParts == \E p \in Parts : rows[Here][p].stored = Missing

MaterializesHereOnly(session) == session.sync # 0

\* Whether StoreInEveryPart() may rely on the mutation having run everywhere.
Materializes(session) == session.sync # 0 /\ (Replicated => session.sync = 2)

CountPartsWithout(s) ==
    LET session == sessions[s] IN
    /\ At(s, "parts")
    /\ Goto(s, IF ~MissingParts THEN "modify"
               ELSE IF Materializes(session) THEN "store" ELSE "idle")
    /\ UNCHANGED <<server, left>>

CountVisibleRows(s) ==
    /\ At(s, "nulls")
    /\ Goto(s, IF \E p \in Parts : ~rows[Here][p].masked /\ ReadAt(Here, p) = Null
               THEN "idle" ELSE "modify")
    /\ UNCHANGED <<server, left>>

\* The rows a DELETE only masked count: a mutation rewrites them too.
CountStoredRows(s) ==
    /\ At(s, "nulls")
    /\ Goto(s, IF \E p \in Parts : ReadAt(Here, p) = Null THEN "idle" ELSE "modify")
    /\ UNCHANGED <<server, left>>

-----------------------------------------------------------------------------
(* Statements that change the table.  What ch_mutations_sync makes a       *)
(* statement wait for matters where something follows: the default is      *)
(* changed after the mutation that stores the column.  All others end here *)
(* for the table's sake, whether the session waits or not.                 *)

Supported == engine # "Log"

Mutation(s, kind, after) ==
    [kind |-> kind, value |-> IF kind \in {"update", "delete"} THEN sessions[s].arg ELSE Null,
     upto |-> Len(rows[Here]), after |-> after, raced |-> Raced(s),
     count |-> sessions[s].count, changed |-> 0]

Send(s, kind, after) ==
    /\ Supported
    /\ mutations' = Append(mutations, Mutation(s, kind, after))

\* MATERIALIZE COLUMN, or for a column without a default UPDATE c = c.
StoreInEveryPart(s) ==
    LET seen == sessions[s].seen IN
    /\ At(s, "store")
    /\ Send(s, "store", Len(alters))
    /\ sessions' = [sessions EXCEPT ![s] = [@ EXCEPT !.pc = "wait", !.mutation = Len(mutations'),
                                                     !.seen = <<seen[1], seen[2] + 1, seen[3]>>]]
    /\ UNCHANGED <<engine, alters, applied, done, rows, left>>

Wait(s) ==
    LET session == sessions[s] IN
    /\ At(s, "wait")
    /\ \A r \in (IF session.sync = 2 THEN Copies ELSE {Here}) : done[r] >= session.mutation
    /\ Goto(s, "recount")
    /\ UNCHANGED <<server, left>>

Recount(s) ==
    /\ At(s, "recount")
    /\ Goto(s, IF MissingParts THEN "idle" ELSE "modify")
    /\ UNCHANGED <<server, left>>

\* The column after the statement.  A MODIFY of the type names all of it, as
\* it was loaded.
Modified(session) ==
    CASE session.op = "add" ->
           [exists |-> TRUE, type |-> IntegerType(32, TRUE), nullable |-> TRUE, in_key |-> FALSE,
            default_kind |-> IF session.arg = Null THEN "" ELSE "DEFAULT", default |-> session.arg]
      [] session.op = "set default" ->
           [Current EXCEPT !.default_kind = "DEFAULT", !.default = session.arg]
      [] session.op = "drop default" -> [Current EXCEPT !.default_kind = "", !.default = Null]
      [] session.op \in {"set not null", "drop not null"} ->
           [Current EXCEPT !.type = LoadedColumn(session).type,
                           !.nullable = (session.op = "drop not null")]
      [] session.op = "type" ->
           [Current EXCEPT !.type = session.arg, !.nullable = LoadedColumn(session).nullable]

\* What the server refuses.
Accepts(op) ==
    CASE op = "add" -> ~Current.exists
      [] op = "drop default" -> Current.default_kind = "DEFAULT"
      [] OTHER -> TRUE

Modify(s) ==
    LET session == sessions[s] IN
    /\ At(s, "modify")
    /\ Supported /\ Accepts(session.op)
    /\ alters' = Append(alters, [op |-> session.op, column |-> Modified(session),
                                 upto |-> Len(rows[Here]), raced |-> Raced(s)])
    /\ applied' = [applied EXCEPT ![Here] = Len(alters')]
    /\ rows' = IF session.op = "add" /\ ~MergeTree
               THEN [rows EXCEPT ![Here] = [p \in Parts |-> [@[p] EXCEPT !.stored = Null]]]
               ELSE rows
    /\ IF session.op \in {"set not null", "drop not null", "type"}
       THEN Send(s, "convert", Len(alters'))
       ELSE UNCHANGED mutations
    /\ Goto(s, "idle")
    /\ UNCHANGED <<engine, done, left>>

-----------------------------------------------------------------------------
(* UPDATE t SET c = nullif(c, value) and DELETE FROM t WHERE c = value (IS *)
(* NULL for NULL).  PlanUpdate() asks for the NULL check from the column   *)
(* as it knows it.                                                         *)

Update(s, value) ==
    /\ Current.exists
    /\ Begin(s, "update", value, Null, IF Current.nullable THEN "count" ELSE "check")

Delete(s, value) ==
    /\ Current.exists
    /\ Begin(s, "delete", value, Null, "count")

CheckNulls(s) ==
    /\ At(s, "check")
    /\ Goto(s, IF \E p \in Parts : NullIf(ReadAt(Here, p), sessions[s].arg) = Null
               THEN "idle" ELSE "count")
    /\ UNCHANGED <<server, left>>

\* The parts the statement's WHERE clause matches.
Matching(r, op, value) == {p \in Parts : op = "delete" => ReadAt(r, p) = value}
Visible(r) == {p \in Parts : ~rows[r][p].masked}

CountedMasked(s) == Cardinality(Matching(Here, sessions[s].op, sessions[s].arg))

Counted(s) == Cardinality(Visible(Here) \cap Matching(Here, sessions[s].op, sessions[s].arg))

CountAffected(s) ==
    /\ At(s, "count")
    /\ sessions' = [sessions EXCEPT ![s] = [@ EXCEPT !.pc = "execute", !.count = Counted(s)]]
    /\ UNCHANGED <<server, left>>

Execute(s) ==
    /\ At(s, "execute")
    /\ sessions[s].op = "update" => ~Current.in_key /\ Current.default_kind \in {"", "DEFAULT"}
    /\ Send(s, sessions[s].op, Len(alters))
    /\ Goto(s, "idle")
    /\ UNCHANGED <<engine, alters, applied, done, rows, left>>

-----------------------------------------------------------------------------
(* The server.                                                             *)

\* Another client inserts a row, on every replica at once.
Insert(value) ==
    LET stored == IF ~Current.exists \/ Current.default_kind = "ALIAS" THEN Missing
                  ELSE IF Current.default_kind = "MATERIALIZED" THEN Current.default ELSE value
    IN /\ left.inserts > 0
       /\ left' = [left EXCEPT !.inserts = @ - 1]
       /\ value = Null => Current.nullable
       /\ rows' = [r \in Copies |-> Append(rows[r], [stored |-> stored, masked |-> FALSE])]
       /\ UNCHANGED <<engine, alters, applied, mutations, done, sessions>>

\* Row p of replica r after mutation m.
Rewritten(m, r, p) ==
    LET row == rows[r][p] now == ReadAt(r, p) IN
    CASE p > m.upto -> row
      [] p <= m.upto /\ m.kind = "store" -> [row EXCEPT !.stored = now]
      [] p <= m.upto /\ m.kind = "convert" ->
           IF row.stored = Missing THEN row ELSE [row EXCEPT !.stored = now]
      [] p <= m.upto /\ m.kind = "update" -> [row EXCEPT !.stored = NullIf(now, m.value)]
      [] p <= m.upto /\ m.kind = "delete" -> [row EXCEPT !.masked = @ \/ now = m.value]

\* A NULL that the column cannot hold fails the mutation, which is retried for ever.
Fails(m, r) ==
    /\ m.kind # "delete"
    /\ ~ColumnAt(r).nullable
    /\ \E p \in Parts : p <= m.upto /\ Rewritten(m, r, p).stored = Null

NextMutation(r) == mutations[done[r] + 1]
Ready(r) == done[r] < Len(mutations) /\ applied[r] >= NextMutation(r).after

Mutate(r) ==
    LET m == NextMutation(r) IN
    /\ Ready(r)
    /\ ~Fails(m, r)
    /\ rows' = [rows EXCEPT ![r] = [p \in Parts |-> Rewritten(m, r, p)]]
    /\ done' = [done EXCEPT ![r] = @ + 1]
    /\ mutations' =
         IF r = Here
         THEN [mutations EXCEPT ![done[r] + 1].changed =
                  Cardinality({p \in Visible(r) \cap Matching(r, m.kind, m.value) : p <= m.upto})]
         ELSE mutations
    /\ UNCHANGED <<engine, alters, applied, sessions, left>>

\* Another replica applies the next change of the column.
ApplyAlter(r) ==
    /\ applied[r] < Len(alters)
    /\ applied' = [applied EXCEPT ![r] = @ + 1]
    /\ UNCHANGED <<engine, alters, mutations, done, rows, sessions, left>>

-----------------------------------------------------------------------------
Init ==
    /\ \E table \in Tables :
         /\ engine = table.engine
         /\ left = table.left
         /\ alters = <<[op |-> "create", column |-> table.column, upto |-> 0, raced |-> FALSE]>>
    /\ applied = [r \in Copies |-> 1]
    /\ mutations = <<>>
    /\ done = [r \in Copies |-> 0]
    /\ rows = [r \in Copies |-> <<>>]
    /\ sessions = [s \in Sessions |-> Idle]

Statement(s) ==
    \/ \E default \in Values \cup {Null} : AddColumn(s, default)
    \/ \E sync \in Syncs :
         \/ \E default \in Values : SetDefault(s, "set default", default, sync)
         \/ SetDefault(s, "drop default", Null, sync)
    \/ SetNotNull(s) \/ DropNotNull(s)
    \/ \E target \in Types : ChangeType(s, target)
    \/ \E value \in Values : Update(s, value)
    \/ \E value \in Values \cup {Null} : Delete(s, value)
    \/ CountRows(s) \/ CountPartsWithout(s) \/ CountStoredRows(s)
    \/ StoreInEveryPart(s) \/ Recount(s) \/ Modify(s)
    \/ CheckNulls(s) \/ CountAffected(s) \/ Execute(s)
    \/ Wait(s) \/ Fail(s)

Next ==
    \/ \E s \in Sessions : Statement(s)
    \/ \E value \in Values \cup {Null} : Insert(value)
    \/ \E r \in Copies : Mutate(r) \/ ApplyAlter(r)

Spec == Init /\ [][Next]_vars

-----------------------------------------------------------------------------
(* Properties.  A statement is raced if, between its first look at the     *)
(* table and what it sends, anything else changed, or was still under way. *)

Applies(r) == applied'[r] = applied[r] + 1
AppliedAlter(r) == alters'[applied'[r]]

\* ALTER COLUMN ... SET DEFAULT, DROP DEFAULT, SET NOT NULL, DROP NOT NULL and
\* TYPE that were not raced change what no stored row reads as, on no replica
\* (StoreInEveryPart(), KeepsEveryValue()).
AlterKeepsValues ==
    [][\A r \in Copies : Applies(r) /\ ~AppliedAlter(r).raced /\ ColumnAt(r).exists =>
          \A p \in Parts : ReadAt(r, p)' = ReadAt(r, p)]_vars

\* An ADD COLUMN that was not raced gives the rows the table holds its default,
\* whatever the engine (AlterTable()'s count of rows).
AddGivesDefault ==
    [][\A r \in Copies : Applies(r) /\ ~AppliedAlter(r).raced /\ AppliedAlter(r).op = "add" =>
          \A p \in Parts : p <= AppliedAlter(r).upto =>
              ReadAt(r, p)' = AppliedAlter(r).column.default]_vars

Stuck(r) == Ready(r) /\ Fails(NextMutation(r), r)

\* Once a statement was raced, the replicas may have stored different rows.
EverRaced ==
    \/ \E i \in DOMAIN alters : alters[i].raced
    \/ \E i \in DOMAIN mutations : mutations[i].raced

\* A mutation that fails for ever was raced, or met a later ALTER, or fails on a
\* replica the checks did not ask, after an earlier race: the checks of SET NOT
\* NULL and UPDATE see every NULL it will meet (CountStoredRows(), the NULL check
\* of GetDataInternal()).
StuckOnlyWhenRaced ==
    \A r \in Copies : Stuck(r) =>
        \/ NextMutation(r).raced
        \/ Len(alters) > NextMutation(r).after
        \/ r # Here /\ EverRaced

\* The count UPDATE and DELETE return is the number of rows they changed, if
\* they were not raced (GetDataInternal() counts before it executes).
CountIsAffected ==
    \A i \in 1..done[Here] :
        LET m == mutations[i] IN
        m.kind \in {"update", "delete"} /\ ~m.raced => m.count = m.changed

\* SET and DROP DEFAULT never change a stored value, as the comment of
\* StoreInEveryPart() says.
DefaultKeepsValues ==
    [][\A r \in Copies : Applies(r) /\ AppliedAlter(r).op \in {"set default", "drop default"} =>
          \A p \in Parts : ReadAt(r, p)' = ReadAt(r, p)]_vars
=============================================================================
