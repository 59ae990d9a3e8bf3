-------------------------- MODULE TableChangeProofs --------------------------
(***************************************************************************)
(* Proofs about TableChange, for any number of sessions, replicas, rows,   *)
(* statements, values and types: what an ALTER that was not raced changes  *)
(* of the rows (AlterKeepsValues, AddGivesDefault), which mutations can    *)
(* fail for ever (StuckOnlyWhenRaced), and that the counts of UPDATE and   *)
(* DELETE are right (CountIsAffected).                                     *)
(***************************************************************************)
EXTENDS TableChange, TLAPS, FiniteSetTheorems

-----------------------------------------------------------------------------
(* Types.                                                                  *)

Held == Values \cup {Null, "zero"}
Row == [stored : Held \cup {Missing}, masked : BOOLEAN]
AlterOps == {"add", "set default", "drop default", "set not null", "drop not null", "type"}
DefaultOps == {"set default", "drop default"}
Ops == AlterOps \cup {"update", "delete"}
Steps == {"rows", "modify", "parts", "store", "wait", "recount", "nulls", "check", "count", "execute"}

Alter == [op : AlterOps \cup {"create"}, column : Column, upto : Nat, raced : BOOLEAN]
Arguments == Values \cup {Null} \cup Types
Kinds == {"store", "convert", "update", "delete"}
MutationType == [kind : Kinds, value : Arguments, upto : Nat, after : Nat,
                 raced : BOOLEAN, count : Nat, changed : Nat]
Active == [pc : Steps, op : Ops, arg : Arguments, sync : Syncs \cup {Null},
           seen : Nat \X Nat \X Nat, settled : BOOLEAN, count : Nat, mutation : Nat]

AltersType ==
    /\ alters \in Seq(Alter)
    /\ Len(alters) >= 1
    /\ applied \in [Copies -> Nat]
    /\ \A r \in Copies : 1 <= applied[r] /\ applied[r] <= Len(alters)
    /\ applied[Here] = Len(alters)

RowsType ==
    /\ mutations \in Seq(MutationType)
    /\ done \in [Copies -> Nat]
    /\ \A r \in Copies : done[r] <= Len(mutations)
    /\ rows \in [Copies -> Seq(Row)]
    /\ \A r \in Copies : Len(rows[r]) = Len(rows[Here])

SessionsType == sessions \in [Sessions -> {Idle} \cup Active]

TypeInv == AltersType /\ RowsType /\ SessionsType

-----------------------------------------------------------------------------
(* What a part reads as where every type change kept its values: Converted *)
(* does nothing then.                                                      *)

\* The value of a part that does not store the column.
Absent(column) == IF column.default_kind # "" THEN column.default
                  ELSE IF column.nullable THEN Null ELSE "zero"

Reads(stored, column) == IF stored = Missing THEN Absent(column) ELSE stored

\* Row `row`, the p-th one, after mutation m of a column.
RowAfter(m, p, row, column) ==
    LET now == Reads(row.stored, column) IN
    CASE p > m.upto -> row
      [] p <= m.upto /\ m.kind = "store" -> [row EXCEPT !.stored = now]
      [] p <= m.upto /\ m.kind = "convert" ->
           IF row.stored = Missing THEN row ELSE [row EXCEPT !.stored = now]
      [] p <= m.upto /\ m.kind = "update" -> [row EXCEPT !.stored = NullIf(now, m.value)]
      [] p <= m.upto /\ m.kind = "delete" -> [row EXCEPT !.masked = @ \/ now = m.value]

StoredAt(r, p) == rows[r][p].stored

-----------------------------------------------------------------------------
(* The log of changes of the column.                                       *)

\* A column that is there stays; every type it had holds all the values.
LogInv ==
    /\ \A i \in 1..Len(alters) :
         LET column == alters[i].column IN
         /\ i >= 2 => column.exists
         /\ column.exists => Fits(Origin, column.type)
         /\ column.default_kind # "" => column.default # Null
         /\ alters[i].op = "add" =>
              /\ i = 2 /\ ~alters[1].column.exists
              /\ column.nullable
              /\ column.default_kind = "" => column.default = Null
    /\ alters[1].column.default_kind = "ALIAS" => Len(alters) = 1
    /\ \A i \in 2..Len(alters) : alters[i].column.default_kind # "ALIAS"
    /\ ~alters[1].column.exists => alters[1].column = NoColumn

\* Only a column that is there has mutations, of rows that are there.
MutationsInv ==
    /\ \A j \in 1..Len(mutations) :
         /\ 1 <= mutations[j].after /\ mutations[j].after <= Len(alters)
         /\ alters[mutations[j].after].column.exists
         /\ mutations[j].upto <= Len(rows[Here])
    /\ \A i \in 1..Len(alters) : alters[i].upto <= Len(rows[Here])

-----------------------------------------------------------------------------
(* Which parts do not store the column.                                    *)

Stores(j) == mutations[j].kind \in {"store", "update"}

\* As long as there is no column, nothing was stored or deleted.
NothingInv ==
    ~Current.exists =>
        /\ mutations = <<>>
        /\ \A r \in Copies : \A p \in Parts : rows[r][p].stored = Missing /\ ~rows[r][p].masked

\* A mutation that stores the column leaves no part without it.
StoredInv ==
    \A r \in Copies : \A j \in 1..done[r] :
        Stores(j) => \A p \in Parts : p <= mutations[j].upto => StoredAt(r, p) # Missing

\* Replicas differ by the mutations they have not finished.
SameMissing ==
    \A r \in Copies, q \in Copies : \A p \in Parts :
        StoredAt(r, p) = Missing /\ StoredAt(q, p) # Missing =>
            \E j \in done[r] + 1 .. Len(mutations) : Stores(j) /\ p <= mutations[j].upto

\* Once the column was NOT NULL, a part without it reads as a default, never as
\* the zero of its type.
DefaultInv ==
    \A i \in 1..Len(alters) :
        alters[i].column.exists /\ ~alters[i].column.nullable =>
            \A p \in Parts : StoredAt(Here, p) = Missing => Current.default_kind # ""

\* Engines other than the MergeTree family store the column in every part.
MemoryInv ==
    ~MergeTree /\ Current.exists /\ alters[1].column.default_kind # "ALIAS" =>
        \A p \in Parts : StoredAt(Here, p) # Missing

\* A replica that has not added the column stores it nowhere.
AddInv ==
    \A i \in 1..Len(alters), r \in Copies :
        alters[i].op = "add" /\ applied[r] < i =>
            \A p \in Parts : p <= alters[i].upto => StoredAt(r, p) = Missing

\* A replica that has not applied an ALTER that was not raced has no part that
\* the ALTER makes read differently.
KeepInv ==
    \A i \in 2..Len(alters), r \in Copies :
        ~alters[i].raced /\ alters[i - 1].column.exists /\ applied[r] < i =>
            \A p \in Parts : StoredAt(r, p) = Missing =>
                Absent(alters[i].column) = Absent(alters[i - 1].column)

PartsInv == NothingInv /\ StoredInv /\ SameMissing /\ DefaultInv /\ MemoryInv /\ AddInv /\ KeepInv

-----------------------------------------------------------------------------
(* Mutations under way.                                                    *)

\* A NULL in a NOT NULL column is still to be met by a conversion.
NullInv ==
    Current.exists /\ ~Current.nullable =>
        \A p \in Parts : StoredAt(Here, p) = Null =>
            \E j \in done[Here] + 1 .. Len(mutations) :
                mutations[j].kind = "convert" /\ p <= mutations[j].upto

\* The rows an UPDATE or DELETE will change.
Affected(m) ==
    {p \in Parts : /\ p <= m.upto
                   /\ ~rows[Here][p].masked
                   /\ m.kind = "delete" => Reads(StoredAt(Here, p), Current) = m.value}

\* An UPDATE or DELETE that was not raced is the next mutation, and has counted
\* the rows it will change.
CountInv ==
    \A i \in 1..Len(mutations) :
        LET m == mutations[i] IN
        m.kind \in {"update", "delete"} /\ ~m.raced =>
            IF i <= done[Here] THEN m.count = m.changed ELSE m.count = Cardinality(Affected(m))

Passes(m, r) ==
    m.kind # "delete" /\ ~Current.nullable =>
        \A p \in Parts : p <= m.upto => RowAfter(m, p, rows[r][p], Current).stored # Null

\* A mutation that was not raced was sent when all others were finished; nothing
\* fails it unless the column changes.
UnracedInv ==
    \A i \in 1..Len(mutations) :
        ~mutations[i].raced =>
            \A r \in Copies :
                /\ done[r] >= i - 1
                /\ done[r] < i /\ mutations[i].after = Len(alters) /\ (r = Here \/ ~EverRaced) =>
                     Passes(mutations[i], r)

\* The row a replica will hold once it has finished the last mutation.
Final(r, p) ==
    IF done[r] = Len(mutations) THEN rows[r][p]
    ELSE RowAfter(mutations[Len(mutations)], p, rows[r][p], Current)

\* While no statement was raced, all replicas come to hold the same rows.
ReplicasInv ==
    ~EverRaced => \A r \in Copies :
        /\ done[r] < Len(mutations) => mutations[Len(mutations)].after = Len(alters)
        /\ \A p \in Parts : Final(r, p) = Final(Here, p)

PendingInv == NullInv /\ CountInv /\ UnracedInv /\ ReplicasInv

-----------------------------------------------------------------------------
(* Sessions.                                                               *)

\* Which statement stands where, with which argument.
StepInv(session) ==
    /\ session.pc = "modify" => session.op \in AlterOps
    /\ session.pc \in {"parts", "store", "wait", "recount"} => session.op \in DefaultOps
    /\ session.pc = "rows" => session.op = "add"
    /\ session.pc = "nulls" => session.op = "set not null"
    /\ session.pc = "check" => session.op = "update"
    /\ session.pc \in {"count", "execute"} => session.op \in {"update", "delete"}
    /\ session.op \in {"add", "drop default"} => session.arg \in Values \cup {Null}
    /\ session.op = "set default" => session.arg \in Values
    /\ session.op = "type" => session.arg \in Types
    /\ session.pc \in {"store", "wait"} => Materializes(session)

\* What its statement has seen of the table.
SeenInv(session) ==
    /\ session.seen[1] <= Len(rows[Here])
    /\ session.seen[2] <= Len(mutations)
    /\ 1 <= session.seen[3] /\ session.seen[3] <= Len(alters)
    /\ session.op # "add" => Current.exists /\ LoadedColumn(session).exists
    /\ session.op \in AlterOps => alters[1].column.default_kind # "ALIAS"
    /\ session.op = "type" => Fits(Origin, session.arg)

\* What holds raced or not: a part once stored stays stored.
CheckedInv(session) ==
    /\ session.op \in DefaultOps /\ session.pc = "modify" =>
         \A p \in Parts : StoredAt(Here, p) # Missing
    /\ session.op = "set not null" /\ session.pc = "modify" =>
         \A p \in Parts : StoredAt(Here, p) = Missing => Current.default_kind # ""

\* The rows an UPDATE or DELETE would change now.
AffectedBy(session) ==
    {p \in Parts : /\ ~rows[Here][p].masked
                   /\ session.op = "delete" => Reads(StoredAt(Here, p), Current) = session.arg}

\* What holds as long as nothing else happens: what the checks saw.
AloneInv(session) ==
    session.settled /\ session.seen = Version =>
        /\ session.pc # "wait" => Settled
        /\ session.pc = "wait" => /\ session.mutation = Len(mutations)
                                  /\ \A r \in Copies : applied[r] = Len(alters)
        /\ session.op = "add" /\ session.pc = "modify" /\ session.arg # Null /\ ~MergeTree =>
             \A p \in Parts : rows[Here][p].masked
        /\ session.op = "set not null" /\ session.pc = "modify" =>
             \A p \in Parts : Reads(StoredAt(Here, p), Current) # Null
        /\ session.op = "update" /\ session.pc \in {"count", "execute"} /\ ~Current.nullable =>
             \A p \in Parts : NullIf(Reads(StoredAt(Here, p), Current), session.arg) # Null
        /\ session.pc = "execute" => session.count = Cardinality(AffectedBy(session))

SessionInv(s) ==
    ~At(s, "idle") => /\ StepInv(sessions[s])
                      /\ SeenInv(sessions[s])
                      /\ CheckedInv(sessions[s])
                      /\ AloneInv(sessions[s])

Inv ==
    /\ TypeInv
    /\ LogInv
    /\ MutationsInv
    /\ PartsInv
    /\ PendingInv
    /\ \A s \in Sessions : SessionInv(s)

-----------------------------------------------------------------------------
(* Operators.                                                              *)

\* A chain of type changes that KeepsEveryValue() accepts keeps the values of
\* the first type.
LEMMA KeepsFits ==
    ASSUME NEW first \in ColumnType, NEW source \in ColumnType, NEW target \in ColumnType,
           Fits(first, source), KeepsEveryValue(source, target)
    PROVE  Fits(first, target)
<1>1. CASE target.id = "varchar"
  <2>1. IsInteger(source) \/ source.id \in {"date", "enum"}
    BY <1>1 DEF KeepsEveryValue
  <2>2. first.id \in {"date", "enum", "integer"}
    BY <2>1 DEF Fits, IsInteger
  <2> QED BY <1>1, <2>2 DEF Fits
<1>2. CASE target.id = "float"
  <2>1. IsInteger(source) /\ source.bits <= 16
    BY <1>2 DEF KeepsEveryValue
  <2>2. IsInteger(first) /\ Magnitude(first) <= Magnitude(source)
    BY <2>1 DEF Fits, IsInteger, Magnitude, ColumnType
  <2>3. Magnitude(first) <= 24
    BY <2>1, <2>2 DEF Magnitude, IsInteger, ColumnType
  <2> QED BY <1>2, <2>2, <2>3 DEF Fits
<1>3. CASE target.id = "double"
  <2>1. CASE source.id = "float"
    <3>1. first.id \in {"float", "bfloat16"} \/ (IsInteger(first) /\ Magnitude(first) <= 24)
      BY <2>1 DEF Fits, IsInteger
    <3>2. IsInteger(first) => Magnitude(first) \in Int
      BY DEF Magnitude, IsInteger, ColumnType
    <3> QED BY <1>3, <3>1, <3>2 DEF Fits
  <2>2. CASE IsInteger(source) /\ source.bits <= 32
    <3>1. IsInteger(first) /\ Magnitude(first) <= Magnitude(source)
      BY <2>2 DEF Fits, IsInteger, Magnitude, ColumnType
    <3>2. Magnitude(first) <= 53
      BY <2>2, <3>1 DEF Magnitude, IsInteger, ColumnType
    <3> QED BY <1>3, <3>1, <3>2 DEF Fits
  <2> QED BY <1>3, <2>1, <2>2 DEF KeepsEveryValue
<1>4. CASE target.id = "decimal"
  <2> DEFINE digits == target.width - target.scale
  <2>0. digits \in Int /\ target.scale \in Nat
    BY <1>4 DEF ColumnType
  <2>1. CASE IsInteger(source) /\ digits >= IntegerDigits(source.bits, source.signed)
    <3>1. /\ IsInteger(first) /\ Magnitude(first) <= Magnitude(source)
          /\ Magnitude(first) \in 0 .. 128
      BY <2>1 DEF Fits, IsInteger, Magnitude, ColumnType
    <3>2. source \in [id : {"integer"}, bits : {8, 16, 32, 64, 128}, signed : BOOLEAN]
      BY <2>1 DEF IsInteger, ColumnType
    <3>3. Magnitude(first) \in 0 .. Magnitude(source)
      BY <3>1, <3>2 DEF Magnitude
    <3>4. Digits(Magnitude(first)) \in 1 .. IntegerDigits(source.bits, source.signed)
      BY <3>2, <3>3, DigitsAssumption
    <3>5. IntegerDigits(source.bits, source.signed) \in Int
      BY <3>2 DEF IntegerDigits
    <3> QED BY <1>4, <2>0, <2>1, <3>1, <3>4, <3>5 DEF Fits
  <2>2. CASE /\ source.id = "decimal" /\ target.scale >= source.scale
             /\ digits >= source.width - source.scale
    <3>1. source.width \in Nat /\ source.scale \in Nat
      BY <2>2 DEF ColumnType
    <3>2. CASE first.id = "decimal"
      <4>1. first.width \in Nat /\ first.scale \in Nat
        BY <3>2 DEF ColumnType
      <4>2. first.scale <= source.scale /\ first.width - first.scale <= source.width - source.scale
        BY <2>2, <3>1, <3>2, <4>1 DEF Fits, IsInteger
      <4> QED BY <1>4, <2>0, <2>2, <3>1, <3>2, <4>1, <4>2 DEF Fits
    <3>3. CASE first.id # "decimal"
      <4>1. IsInteger(first) /\ Digits(Magnitude(first)) <= source.width - source.scale
        BY <2>2, <3>3 DEF Fits, IsInteger
      <4>2. first \in [id : {"integer"}, bits : {8, 16, 32, 64, 128}, signed : BOOLEAN]
        BY <4>1 DEF IsInteger, ColumnType
      <4>3. Magnitude(first) \in 0 .. Magnitude(first)
        BY <4>2 DEF Magnitude
      <4>4. Digits(Magnitude(first)) \in Int
        BY <4>2, <4>3, DigitsAssumption
      <4> QED BY <1>4, <2>0, <2>2, <3>1, <4>1, <4>4 DEF Fits
    <3> QED BY <3>2, <3>3
  <2> QED BY <1>4, <2>1, <2>2 DEF KeepsEveryValue
<1>5. CASE target.id = "timestamp"
  <2>1. source.id = "date"
    BY <1>5 DEF KeepsEveryValue
  <2>2. first.id = "date"
    BY <2>1 DEF Fits, IsInteger
  <2> QED BY <1>5, <2>2 DEF Fits
<1>6. CASE target.id \notin {"varchar", "float", "double", "decimal", "timestamp"}
  <2>1. /\ IsInteger(source) /\ IsInteger(target)
        /\ target.bits > source.bits
        /\ target.signed \/ ~source.signed
    BY <1>6 DEF KeepsEveryValue
  <2>2. IsInteger(first) /\ Magnitude(first) <= Magnitude(source) /\ (first.signed => source.signed)
    BY <2>1 DEF Fits, IsInteger, Magnitude, ColumnType
  <2>3. Magnitude(source) <= Magnitude(target)
    BY <2>1 DEF Magnitude, IsInteger, ColumnType
  <2>4. Magnitude(first) \in Int /\ Magnitude(source) \in Int /\ Magnitude(target) \in Int
    BY <2>1, <2>2 DEF Magnitude, IsInteger, ColumnType
  <2>5. first.signed => target.signed
    BY <2>1, <2>2 DEF IsInteger, ColumnType
  <2> QED BY <2>1, <2>2, <2>3, <2>4, <2>5 DEF Fits
<1> QED BY <1>1, <1>2, <1>3, <1>4, <1>5, <1>6

LEMMA HereIsCopy == Here \in Copies
BY HereAssumption DEF Copies

LEMMA Columns ==
    ASSUME AltersType
    PROVE  /\ \A i \in 1..Len(alters) : alters[i] \in Alter /\ alters[i].column \in Column
           /\ Current \in Column
           /\ \A r \in Copies : applied[r] \in 1..Len(alters) /\ ColumnAt(r) \in Column
           /\ ColumnAt(Here) = Current
<1>0. \A i \in 1..Len(alters) : alters[i] \in Alter
  BY DEF AltersType
<1>1. \A i \in 1..Len(alters) : alters[i] \in Alter /\ alters[i].column \in Column
  BY <1>0 DEF Alter
<1>2. \A r \in Copies : applied[r] \in 1..Len(alters)
  BY DEF AltersType
<1> QED BY <1>1, <1>2, HereIsCopy DEF AltersType, Current, ColumnAt

\* With types that hold all the values, no conversion changes one.
LEMMA ReadIsReads ==
    ASSUME AltersType, LogInv, NEW r \in Copies, NEW p, ColumnAt(r).exists
    PROVE  ReadAt(r, p) = Reads(StoredAt(r, p), ColumnAt(r))
<1>1. applied[r] \in 1..Len(alters)
  BY Columns
<1>2. Fits(Origin, ColumnAt(r).type)
  BY <1>1 DEF LogInv, ColumnAt
<1>3. \A v : Converted(v, ColumnAt(r)) = v
  BY <1>2 DEF Converted
<1> QED BY <1>3 DEF ReadAt, Reads, Absent, StoredAt

LEMMA RewrittenIsRowAfter ==
    ASSUME AltersType, LogInv, NEW r \in Copies, NEW p, NEW m, ColumnAt(r).exists
    PROVE  Rewritten(m, r, p) = RowAfter(m, p, rows[r][p], ColumnAt(r))
BY ReadIsReads DEF Rewritten, RowAfter, StoredAt

LEMMA MissingNotHeld == Missing \notin Held
BY ValuesAssumption DEF Held, Missing, Null

LEMMA ReadsHeld ==
    ASSUME NEW stored \in Held \cup {Missing}, NEW column \in Column
    PROVE  Absent(column) \in Held /\ Reads(stored, column) \in Held
<1>1. column.default \in Held
  BY DEF Column, Held
<1> QED BY <1>1 DEF Absent, Reads, Held

\* The cases of RowAfter.
LEMMA RowAfterCases ==
    ASSUME NEW m \in MutationType, NEW p \in Nat, NEW row \in Row, NEW column \in Column
    PROVE  LET now == Reads(row.stored, column)
               after == RowAfter(m, p, row, column)
           IN /\ after \in Row
              /\ p > m.upto => after = row
              /\ p <= m.upto /\ m.kind = "store" => after.stored = now
              /\ p <= m.upto /\ m.kind = "convert" =>
                   after.stored = IF row.stored = Missing THEN Missing ELSE now
              /\ p <= m.upto /\ m.kind = "update" => after.stored = NullIf(now, m.value)
              /\ m.kind = "delete" => after.stored = row.stored
              /\ m.kind # "delete" => after.masked = row.masked
<1> DEFINE now == Reads(row.stored, column)
           after == RowAfter(m, p, row, column)
<1>1. now \in Held /\ row.stored \in Held \cup {Missing} /\ row.masked \in BOOLEAN
  BY ReadsHeld DEF Row
<1>2. m.upto \in Nat /\ m.kind \in Kinds
  BY DEF MutationType
<1> HIDE DEF now
<1>3. CASE p > m.upto
  <2>1. after = row
    BY <1>2, <1>3 DEF RowAfter
  <2> QED BY <1>2, <1>3, <2>1 DEF Kinds, now
<1>4. CASE p <= m.upto /\ m.kind = "store"
  <2>1. after = [row EXCEPT !.stored = now]
    BY <1>2, <1>4 DEF RowAfter, now
  <2> QED BY <1>1, <1>2, <1>4, <2>1 DEF Row, now
<1>5. CASE p <= m.upto /\ m.kind = "convert"
  <2>1. after = IF row.stored = Missing THEN row ELSE [row EXCEPT !.stored = now]
    BY <1>2, <1>5 DEF RowAfter, now
  <2> QED BY <1>1, <1>2, <1>5, <2>1 DEF Row, now
<1>6. CASE p <= m.upto /\ m.kind = "update"
  <2>1. after = [row EXCEPT !.stored = NullIf(now, m.value)]
    BY <1>2, <1>6 DEF RowAfter, now
  <2>2. NullIf(now, m.value) \in Held
    BY <1>1 DEF NullIf, Held
  <2> QED BY <1>1, <1>2, <1>6, <2>1, <2>2 DEF Row, now
<1>7. CASE p <= m.upto /\ m.kind = "delete"
  <2>1. after = [row EXCEPT !.masked = @ \/ now = m.value]
    BY <1>2, <1>7 DEF RowAfter, now
  <2>2. (row.masked \/ now = m.value) \in BOOLEAN
    OBVIOUS
  <2>3. after \in Row /\ after.stored = row.stored
    BY <1>1, <2>1, <2>2 DEF Row
  <2> QED BY <1>1, <1>2, <1>7, <2>3 DEF now
<1> QED BY <1>2, <1>3, <1>4, <1>5, <1>6, <1>7 DEF Kinds

-----------------------------------------------------------------------------
(* Steps of a session that leave the server alone.                         *)

Fine(session) ==
    session = Idle \/ (/\ session \in Active /\ StepInv(session) /\ SeenInv(session)
                       /\ CheckedInv(session) /\ AloneInv(session))

LEMMA ActiveSession ==
    ASSUME SessionsType, NEW s \in Sessions, ~At(s, "idle")
    PROVE  sessions[s] \in Active
BY DEF SessionsType, At, Idle

LEMMA ServerUnchanged ==
    ASSUME UNCHANGED server
    PROVE  /\ LogInv => LogInv'
           /\ MutationsInv => MutationsInv'
           /\ PartsInv => PartsInv'
           /\ PendingInv => PendingInv'
           /\ AltersType => AltersType'
           /\ RowsType => RowsType'
           /\ \A x : SeenInv(x) => SeenInv(x)'
           /\ \A x : StepInv(x) => StepInv(x)'
           /\ \A x : CheckedInv(x) => CheckedInv(x)'
           /\ \A x : AloneInv(x) => AloneInv(x)'
<1> USE DEF server
<1>1. LogInv => LogInv'
  BY DEF LogInv, Origin
<1>2. MutationsInv => MutationsInv'
  BY DEF MutationsInv
<1>0. /\ Current' = Current /\ Parts' = Parts /\ Copies' = Copies /\ MergeTree' = MergeTree
      /\ EverRaced' = EverRaced /\ Version' = Version
  BY DEF Current, Parts, Copies, MergeTree, Replicated, EverRaced, Version
<1>a. \A x : AffectedBy(x)' = AffectedBy(x) /\ Affected(x)' = Affected(x)
  BY <1>0 DEF AffectedBy, Affected, StoredAt
<1>b. Settled' = Settled
  BY <1>0 DEF Settled
<1>3. PartsInv => PartsInv'
  <2>1. NothingInv => NothingInv'
    BY <1>0 DEF NothingInv
  <2>2. StoredInv => StoredInv'
    BY <1>0 DEF StoredInv, Stores, StoredAt
  <2>3. SameMissing => SameMissing'
    BY <1>0 DEF SameMissing, Stores, StoredAt
  <2>4. DefaultInv => DefaultInv'
    BY <1>0 DEF DefaultInv, StoredAt
  <2>5. MemoryInv => MemoryInv'
    BY <1>0 DEF MemoryInv, StoredAt
  <2>6. AddInv => AddInv'
    BY <1>0 DEF AddInv, StoredAt
  <2>7. KeepInv => KeepInv'
    BY <1>0 DEF KeepInv, StoredAt
  <2> QED BY <2>1, <2>2, <2>3, <2>4, <2>5, <2>6, <2>7 DEF PartsInv
<1>4. PendingInv => PendingInv'
  <2>1. NullInv => NullInv'
    BY <1>0 DEF NullInv, StoredAt
  <2>2. CountInv => CountInv'
    BY <1>0, <1>a DEF CountInv
  <2>3. UnracedInv => UnracedInv'
    BY <1>0 DEF UnracedInv, Passes
  <2>4. ReplicasInv => ReplicasInv'
    BY <1>0 DEF ReplicasInv, Final
  <2> QED BY <2>1, <2>2, <2>3, <2>4 DEF PendingInv
<1>5. (AltersType => AltersType') /\ (RowsType => RowsType')
  BY DEF AltersType, RowsType, Copies, Replicated
<1>6. \A x : SeenInv(x) => SeenInv(x)'
  BY DEF SeenInv, Current, Origin, LoadedColumn
<1>7. \A x : StepInv(x) => StepInv(x)'
  BY DEF StepInv, Materializes, Replicated
<1>8. \A x : CheckedInv(x) => CheckedInv(x)'
  BY DEF CheckedInv, Parts, StoredAt, Current
<1>9. \A x : AloneInv(x) => AloneInv(x)'
  BY <1>0, <1>a, <1>b, ZenonT(60) DEF AloneInv, StoredAt
<1> QED BY <1>1, <1>2, <1>3, <1>4, <1>5, <1>6, <1>7, <1>8, <1>9

LEMMA SessionStep ==
    ASSUME Inv, NEW s \in Sessions, NEW x, Fine(x), UNCHANGED server,
           sessions' = [sessions EXCEPT ![s] = x]
    PROVE  Inv'
<1>1. /\ LogInv' /\ MutationsInv' /\ PartsInv' /\ PendingInv' /\ AltersType' /\ RowsType'
  BY ServerUnchanged DEF Inv, TypeInv
<1>2. x \in {Idle} \cup Active
  BY DEF Fine
<1>3. SessionsType'
  BY <1>2 DEF Inv, TypeInv, SessionsType
<1>4. ASSUME NEW t \in Sessions
      PROVE  SessionInv(t)'
  <2>1. CASE t = s
    <3>1. sessions'[t] = x
      BY <2>1 DEF Inv, TypeInv, SessionsType
    <3>2. CASE x = Idle
      BY <3>1, <3>2 DEF SessionInv, At, Idle
    <3>3. CASE StepInv(x) /\ SeenInv(x) /\ CheckedInv(x) /\ AloneInv(x)
      <4>1. StepInv(x)' /\ SeenInv(x)' /\ CheckedInv(x)' /\ AloneInv(x)'
        BY <3>3, ServerUnchanged
      <4> QED BY <3>1, <4>1 DEF SessionInv, StepInv, SeenInv, CheckedInv, AloneInv,
                                LoadedColumn, Materializes, AffectedBy
    <3> QED BY <3>2, <3>3 DEF Fine
  <2>2. CASE t # s
    <3>1. sessions'[t] = sessions[t]
      BY <2>2 DEF Inv, TypeInv, SessionsType
    <3>2. CASE At(t, "idle")
      BY <3>1, <3>2 DEF SessionInv, At
    <3>3. CASE ~At(t, "idle")
      <4> DEFINE y == sessions[t]
      <4>1. StepInv(y) /\ SeenInv(y) /\ CheckedInv(y) /\ AloneInv(y)
        BY <3>3 DEF Inv, SessionInv
      <4> HIDE DEF y
      <4>2. \A z : z = y => StepInv(z)' /\ SeenInv(z)' /\ CheckedInv(z)' /\ AloneInv(z)'
        BY <4>1, ServerUnchanged
      <4>3. sessions'[t] = y
        BY <3>1 DEF y
      <4> QED BY <4>2, <4>3 DEF SessionInv, StepInv, SeenInv, CheckedInv, AloneInv,
                                LoadedColumn, Materializes, AffectedBy
    <3> QED BY <3>2, <3>3
  <2> QED BY <2>1, <2>2
<1> QED BY <1>1, <1>3, <1>4 DEF Inv, TypeInv

LEMMA Lengths ==
    ASSUME TypeInv
    PROVE  /\ Len(alters) \in Nat /\ Len(alters) >= 1 /\ Len(mutations) \in Nat
           /\ 1 \in 1..Len(alters) /\ Len(alters) \in 1..Len(alters)
           /\ Len(alters) # 1 => 2 \in 1..Len(alters)
           /\ Len(rows[Here]) \in Nat /\ Parts = 1..Len(rows[Here])
<1>1. Len(alters) \in Nat /\ Len(alters) >= 1 /\ Len(mutations) \in Nat
  BY DEF TypeInv, RowsType, AltersType
<1>2. rows[Here] \in Seq(Row)
  BY HereIsCopy DEF TypeInv, RowsType
<1>3. Len(rows[Here]) \in Nat /\ Parts = 1..Len(rows[Here])
  BY <1>2 DEF Parts
<1>4. /\ 1 \in 1..Len(alters) /\ Len(alters) \in 1..Len(alters)
      /\ Len(alters) # 1 => 2 \in 1..Len(alters)
  BY <1>1
<1> QED BY <1>1, <1>3, <1>4

LEMMA VersionType ==
    ASSUME TypeInv
    PROVE  /\ Version \in Nat \X Nat \X Nat
           /\ Version[1] = Len(rows[Here]) /\ Version[2] = Len(mutations)
           /\ Version[3] = Len(alters)
BY Lengths DEF Version

\* The conditions under which a statement begins at pc.
MayBegin(op, arg, pc) ==
    /\ pc = "modify" => op \in AlterOps
    /\ pc = "parts" => op \in DefaultOps
    /\ pc = "rows" => op = "add"
    /\ pc = "nulls" => op = "set not null"
    /\ pc = "check" => op = "update"
    /\ pc = "count" => op \in {"update", "delete"}
    /\ op \in {"add", "drop default"} => arg \in Values \cup {Null}
    /\ op = "set default" => arg \in Values
    /\ op = "type" => arg \in Types /\ Fits(Origin, arg)
    /\ op # "add" => Current.exists
    /\ op \in AlterOps => alters[1].column.default_kind # "ALIAS"
    /\ op \in DefaultOps /\ pc = "modify" => ~MergeTree
    /\ op = "set not null" => pc = "nulls"
    /\ op = "add" /\ pc = "modify" => arg = Null \/ MergeTree
    /\ op = "update" /\ pc = "count" => Current.nullable

LEMMA BeginStep ==
    ASSUME Inv, NEW s \in Sessions, NEW op \in Ops, NEW arg \in Arguments,
           NEW sync \in Syncs \cup {Null},
           NEW pc \in {"rows", "modify", "parts", "nulls", "check", "count"},
           Begin(s, op, arg, sync, pc), MayBegin(op, arg, pc)
    PROVE  Inv'
<1> DEFINE x == [pc |-> pc, op |-> op, arg |-> arg, sync |-> sync,
                 seen |-> Version, settled |-> Settled, count |-> 0, mutation |-> 0]
<1>1. sessions' = [sessions EXCEPT ![s] = x] /\ UNCHANGED server
  BY DEF Begin
<1>2. /\ x.pc = pc /\ x.op = op /\ x.arg = arg /\ x.sync = sync /\ x.seen = Version
      /\ x.settled = Settled
  OBVIOUS
<1>3. x \in Active
  <2>1. Settled \in BOOLEAN
    BY DEF Settled
  <2>2. Version \in Nat \X Nat \X Nat
    BY VersionType DEF Inv
  <2> HIDE DEF Settled, Version
  <2> QED BY <2>1, <2>2 DEF Active, Steps
<1> HIDE DEF x
<1>4. StepInv(x)
  BY <1>2 DEF StepInv, MayBegin, AlterOps, DefaultOps
<1>5. SeenInv(x)
  <2>1. Len(alters) >= 1 /\ Len(alters) \in Nat
    BY Lengths DEF Inv
  <2>2. op # "add" => LoadedColumn(x).exists
    BY <1>2, VersionType DEF Inv, LoadedColumn, Current, MayBegin
  <2>3. Len(rows[Here]) \in Nat /\ Len(mutations) \in Nat
    BY Lengths DEF Inv
  <2>4. x.seen[1] = Len(rows[Here]) /\ x.seen[2] = Len(mutations) /\ x.seen[3] = Len(alters)
    BY <1>2, VersionType DEF Inv
  <2>5. /\ x.seen[1] <= Len(rows[Here]) /\ x.seen[2] <= Len(mutations)
        /\ 1 <= x.seen[3] /\ x.seen[3] <= Len(alters)
    BY <2>1, <2>3, <2>4
  <2> QED BY <1>2, <2>2, <2>5 DEF SeenInv, MayBegin
<1>6. CheckedInv(x)
  <2>1. op \in DefaultOps /\ pc = "modify" => \A p \in Parts : StoredAt(Here, p) # Missing
    BY DEF Inv, PartsInv, MemoryInv, MayBegin, DefaultOps, AlterOps
  <2>2. op = "set not null" => pc # "modify"
    BY DEF MayBegin
  <2> QED BY <1>2, <2>1, <2>2 DEF CheckedInv
<1>7. AloneInv(x)
  <2>1. x.settled => Settled
    <3>1. x.settled = Settled
      BY <1>2
    <3> QED BY <3>1, Zenon
  <2>2. /\ x.pc # "wait" /\ x.pc # "execute"
        /\ ~(x.op = "add" /\ x.pc = "modify" /\ x.arg # Null /\ ~MergeTree)
        /\ ~(x.op = "set not null" /\ x.pc = "modify")
        /\ ~(x.op = "update" /\ x.pc \in {"count", "execute"} /\ ~Current.nullable)
    BY <1>2 DEF MayBegin
  <2> QED BY <2>1, <2>2, Zenon DEF AloneInv
<1> QED BY <1>1, <1>3, <1>4, <1>5, <1>6, <1>7, SessionStep DEF Fine

\* A column that a session may alter is no ALIAS.
LEMMA NoAlias ==
    ASSUME TypeInv, LogInv, Current.default_kind # "ALIAS"
    PROVE  alters[1].column.default_kind # "ALIAS"
BY DEF TypeInv, AltersType, LogInv, Current

LEMMA NoColumnYet ==
    ASSUME TypeInv, LogInv, ~Current.exists
    PROVE  Len(alters) = 1 /\ ~alters[1].column.exists
<1>1. \A i \in 1..Len(alters) : i >= 2 => alters[i].column.exists
  BY DEF LogInv
<1> QED BY <1>1, Lengths DEF Current

LEMMA BeginsInv ==
    ASSUME Inv, NEW s \in Sessions,
           \/ \E default \in Values \cup {Null} : AddColumn(s, default)
           \/ \E sync \in Syncs :
                \/ \E default \in Values : SetDefault(s, "set default", default, sync)
                \/ SetDefault(s, "drop default", Null, sync)
           \/ SetNotNull(s) \/ DropNotNull(s)
           \/ \E target \in Types : ChangeType(s, target)
           \/ \E value \in Values : Update(s, value)
           \/ \E value \in Values \cup {Null} : Delete(s, value)
    PROVE  Inv'
<1> USE DEF Arguments, Ops, AlterOps, DefaultOps, MayBegin
<1>1. ASSUME NEW default \in Values \cup {Null}, AddColumn(s, default)
      PROVE  Inv'
  <2>1. Len(alters) = 1 /\ ~alters[1].column.exists
    BY <1>1, NoColumnYet DEF AddColumn, Inv
  <2>2. alters[1].column.default_kind # "ALIAS"
    <3>1. alters[1].column = NoColumn
      BY <2>1 DEF Inv, LogInv
    <3>2. NoColumn.default_kind = ""
      BY DEF NoColumn
    <3> QED BY <3>1, <3>2
  <2> DEFINE pc == IF default # Null /\ ~MergeTree THEN "rows" ELSE "modify"
  <2>3. Begin(s, "add", default, Null, pc)
    BY <1>1 DEF AddColumn
  <2>4. CASE default # Null /\ ~MergeTree
    <3>1. Begin(s, "add", default, Null, "rows")
      BY <2>3, <2>4
    <3> QED BY <2>2, <3>1, BeginStep
  <2>5. CASE ~(default # Null /\ ~MergeTree)
    <3>1. Begin(s, "add", default, Null, "modify")
      BY <2>3, <2>5
    <3> QED BY <2>2, <2>5, <3>1, BeginStep
  <2> QED BY <2>4, <2>5
<1>2. ASSUME NEW sync \in Syncs, NEW op \in DefaultOps, NEW default \in Values \cup {Null},
             op = "set default" => default \in Values,
             SetDefault(s, op, default, sync)
      PROVE  Inv'
  <2>1. Current.exists /\ alters[1].column.default_kind # "ALIAS"
    <3>1. Current.exists /\ Current.default_kind # "ALIAS"
      BY <1>2 DEF SetDefault, DefaultChanges
    <3> QED BY <3>1, NoAlias DEF Inv
  <2>2. CASE MergeTree
    <3>1. Begin(s, op, default, sync, "parts")
      BY <1>2, <2>2 DEF SetDefault
    <3> QED BY <1>2, <2>1, <3>1, BeginStep
  <2>3. CASE ~MergeTree
    <3>1. Begin(s, op, default, sync, "modify")
      BY <1>2, <2>3 DEF SetDefault
    <3> QED BY <1>2, <2>1, <2>3, <3>1, BeginStep
  <2> QED BY <2>2, <2>3
<1>3. CASE SetNotNull(s)
  <2>1. Current.exists /\ alters[1].column.default_kind # "ALIAS"
    BY <1>3, NoAlias DEF SetNotNull, Rewritable, Inv
  <2>2. Begin(s, "set not null", Null, Null, "nulls")
    BY <1>3 DEF SetNotNull
  <2> QED BY <2>1, <2>2, BeginStep
<1>4. CASE DropNotNull(s)
  <2>1. Current.exists /\ alters[1].column.default_kind # "ALIAS"
    BY <1>4, NoAlias DEF DropNotNull, Rewritable, Inv
  <2>2. Begin(s, "drop not null", Null, Null, "modify")
    BY <1>4 DEF DropNotNull
  <2> QED BY <2>1, <2>2, BeginStep
<1>5. ASSUME NEW target \in Types, ChangeType(s, target)
      PROVE  Inv'
  <2>1. Current.exists /\ alters[1].column.default_kind # "ALIAS"
    BY <1>5, NoAlias DEF ChangeType, Rewritable, Inv
  <2>2. Begin(s, "type", target, Null, "modify")
    BY <1>5 DEF ChangeType
  <2>3. KeepsEveryValue(Current.type, target)
    BY <1>5 DEF ChangeType
  <2>4. Fits(Origin, Current.type) /\ Origin \in ColumnType /\ Current.type \in ColumnType
    <3>1. Len(alters) \in 1..Len(alters) /\ 1 \in 1..Len(alters)
      BY Lengths DEF Inv
    <3>2. Fits(Origin, Current.type)
      BY <2>1, <3>1 DEF Inv, LogInv, Current
    <3>3. Current.exists /\ Len(alters) = 1 => alters[1].column.exists
      BY DEF Current
    <3>4. Origin = alters[1].column.type \/ (Len(alters) # 1 /\ Origin = alters[2].column.type)
      BY <2>1, <3>3 DEF Origin
    <3>5. \A i \in 1..Len(alters) : alters[i].column.type \in ColumnType
      BY Columns DEF Inv, TypeInv, Column
    <3>6. Len(alters) # 1 => 2 \in 1..Len(alters)
      BY Lengths DEF Inv
    <3> QED BY <3>1, <3>2, <3>4, <3>5, <3>6 DEF Current
  <2>5. Fits(Origin, target)
    BY <2>3, <2>4, KeepsFits, TypesAssumption
  <2> QED BY <2>1, <2>2, <2>5, BeginStep
<1>6. ASSUME NEW value \in Values, Update(s, value)
      PROVE  Inv'
  <2>1. CASE Current.nullable
    <3>1. Begin(s, "update", value, Null, "count")
      BY <1>6, <2>1 DEF Update
    <3> QED BY <1>6, <2>1, <3>1, BeginStep DEF Update
  <2>2. CASE ~Current.nullable
    <3>1. Begin(s, "update", value, Null, "check")
      BY <1>6, <2>2 DEF Update
    <3> QED BY <1>6, <3>1, BeginStep DEF Update
  <2> QED BY <2>1, <2>2
<1>7. ASSUME NEW value \in Values \cup {Null}, Delete(s, value)
      PROVE  Inv'
  BY <1>7, BeginStep DEF Delete
<1> QED BY <1>1, <1>2, <1>3, <1>4, <1>5, <1>6, <1>7

LEMMA Moved ==
    ASSUME NEW session \in Active, NEW pc \in Steps, NEW y, y = [session EXCEPT !.pc = pc]
    PROVE  /\ y \in Active /\ y.pc = pc /\ y.op = session.op /\ y.arg = session.arg
           /\ y.sync = session.sync /\ y.seen = session.seen /\ y.settled = session.settled
           /\ y.count = session.count /\ y.mutation = session.mutation
BY DEF Active

LEMMA SeenMoved ==
    ASSUME NEW session, NEW y, y.op = session.op, y.seen = session.seen, y.arg = session.arg,
           SeenInv(session)
    PROVE  SeenInv(y)
BY DEF SeenInv, LoadedColumn

LEMMA GotoStep ==
    ASSUME Inv, NEW s \in Sessions, ~At(s, "idle"), UNCHANGED server,
           NEW pc \in Steps \cup {"idle"}, Goto(s, pc),
           pc # "idle" => \A y : y = [sessions[s] EXCEPT !.pc = pc] =>
                              StepInv(y) /\ CheckedInv(y) /\ AloneInv(y)
    PROVE  Inv'
<1>1. CASE pc = "idle"
  <2>1. sessions' = [sessions EXCEPT ![s] = Idle]
    BY <1>1 DEF Goto
  <2> QED BY <2>1, SessionStep DEF Fine
<1>2. CASE pc # "idle"
  <2> DEFINE y == [sessions[s] EXCEPT !.pc = pc]
  <2>1. sessions' = [sessions EXCEPT ![s] = y]
    BY <1>2 DEF Goto
  <2>2. sessions[s] \in Active /\ SeenInv(sessions[s])
    BY ActiveSession DEF Inv, TypeInv, SessionInv
  <2>3. y \in Active /\ SeenInv(y)
    BY <1>2, <2>2, Moved, SeenMoved
  <2>4. StepInv(y) /\ CheckedInv(y) /\ AloneInv(y)
    BY <1>2
  <2> HIDE DEF y
  <2> QED BY <2>1, <2>3, <2>4, SessionStep DEF Fine
<1> QED BY <1>1, <1>2

LEMMA HereReads ==
    ASSUME Inv, NEW p, Current.exists
    PROVE  ReadAt(Here, p) = Reads(StoredAt(Here, p), Current)
BY ReadIsReads, Columns, HereIsCopy DEF Inv, TypeInv

\* What an active session is known to satisfy.
LEMMA ActiveFacts ==
    ASSUME Inv, NEW s \in Sessions, ~At(s, "idle")
    PROVE  /\ sessions[s] \in Active /\ StepInv(sessions[s]) /\ SeenInv(sessions[s])
           /\ CheckedInv(sessions[s]) /\ AloneInv(sessions[s])
BY ActiveSession DEF Inv, TypeInv, SessionInv

LEMMA CountRowsInv ==
    ASSUME Inv, NEW s \in Sessions, CountRows(s)
    PROVE  Inv'
<1> DEFINE session == sessions[s]
           pc == IF \E p \in Parts : ~rows[Here][p].masked THEN "idle" ELSE "modify"
<1>1. session.pc = "rows" /\ ~At(s, "idle")
  BY DEF CountRows, At
<1>2. session \in Active /\ StepInv(session) /\ AloneInv(session)
  BY <1>1, ActiveFacts
<1>3. session.op = "add" /\ session.arg \in Values \cup {Null}
  BY <1>1, <1>2 DEF StepInv
<1>4. Goto(s, pc) /\ UNCHANGED server
  BY DEF CountRows, server
<1>5. ASSUME pc # "idle", NEW y, y = [session EXCEPT !.pc = pc]
      PROVE  StepInv(y) /\ CheckedInv(y) /\ AloneInv(y)
  <2>1. pc = "modify" /\ \A p \in Parts : rows[Here][p].masked
    BY <1>5
  <2> HIDE DEF session, pc
  <2>2. /\ y.pc = "modify" /\ y.op = "add" /\ y.arg = session.arg /\ y.seen = session.seen
        /\ y.settled = session.settled
    BY <1>2, <1>3, <1>5, <2>1, Moved DEF Steps
  <2>3. StepInv(y)
    BY <1>3, <2>2 DEF StepInv, AlterOps
  <2>4. CheckedInv(y)
    BY <2>2 DEF CheckedInv, DefaultOps
  <2>5. AloneInv(y)
    BY <1>1, <1>2, <2>1, <2>2, Zenon DEF AloneInv
  <2> QED BY <2>3, <2>4, <2>5
<1>6. pc \in Steps \cup {"idle"}
  BY DEF Steps
<1> HIDE DEF pc
<1> QED BY <1>1, <1>4, <1>5, <1>6, GotoStep

LEMMA CountPartsInv ==
    ASSUME Inv, NEW s \in Sessions, CountPartsWithout(s)
    PROVE  Inv'
<1> DEFINE session == sessions[s]
           pc == IF ~MissingParts THEN "modify" ELSE IF Materializes(session) THEN "store" ELSE "idle"
<1>1. session.pc = "parts" /\ ~At(s, "idle")
  BY DEF CountPartsWithout, At
<1>2. session \in Active /\ StepInv(session) /\ AloneInv(session)
  BY <1>1, ActiveFacts
<1>3. session.op \in DefaultOps
  BY <1>1, <1>2 DEF StepInv
<1>4. Goto(s, pc) /\ UNCHANGED server
  BY DEF CountPartsWithout, server
<1>5. pc \in Steps \cup {"idle"}
  BY DEF Steps
<1>6. pc # "idle" => /\ pc \in {"modify", "store"}
                     /\ pc = "modify" => \A p \in Parts : StoredAt(Here, p) # Missing
                     /\ pc = "store" => Materializes(session)
  BY DEF MissingParts, StoredAt
<1> HIDE DEF pc
<1>7. ASSUME pc # "idle", NEW y, y = [session EXCEPT !.pc = pc]
      PROVE  StepInv(y) /\ CheckedInv(y) /\ AloneInv(y)
  <2> HIDE DEF session
  <2>1. /\ y.pc = pc /\ y.op = session.op /\ y.arg = session.arg /\ y.seen = session.seen
        /\ y.settled = session.settled /\ y.sync = session.sync
    BY <1>2, <1>5, <1>7, Moved
  <2>2. StepInv(y)
    <3>1. pc = "store" => Materializes(y)
      BY <1>6, <1>7, <2>1 DEF Materializes
    <3> QED BY <1>2, <1>3, <1>6, <1>7, <2>1, <3>1 DEF StepInv, AlterOps, DefaultOps
  <2>3. CheckedInv(y)
    BY <1>3, <1>6, <1>7, <2>1 DEF CheckedInv, DefaultOps
  <2>4. AloneInv(y)
    <3>1. /\ y.pc \notin {"wait", "count", "execute"}
          /\ y.op \notin {"add", "set not null", "update"}
      BY <1>3, <1>6, <1>7, <2>1 DEF DefaultOps
    <3>2. session.settled /\ session.seen = Version => Settled
      BY <1>1, <1>2 DEF AloneInv
    <3> QED BY <2>1, <3>1, <3>2 DEF AloneInv
  <2> QED BY <2>2, <2>3, <2>4
<1> QED BY <1>1, <1>4, <1>5, <1>7, GotoStep

LEMMA CountStoredRowsInv ==
    ASSUME Inv, NEW s \in Sessions, CountStoredRows(s)
    PROVE  Inv'
<1> DEFINE session == sessions[s]
           pc == IF \E p \in Parts : ReadAt(Here, p) = Null THEN "idle" ELSE "modify"
<1>1. session.pc = "nulls" /\ ~At(s, "idle")
  BY DEF CountStoredRows, At
<1>2. session \in Active /\ StepInv(session) /\ SeenInv(session) /\ AloneInv(session)
  BY <1>1, ActiveFacts
<1>3. session.op = "set not null" /\ Current.exists
  BY <1>1, <1>2 DEF StepInv, SeenInv
<1>4. Goto(s, pc) /\ UNCHANGED server
  BY DEF CountStoredRows, server
<1>5. pc \in Steps \cup {"idle"}
  BY DEF Steps
<1>6. pc # "idle" => /\ pc = "modify"
                     /\ \A p \in Parts : Reads(StoredAt(Here, p), Current) # Null
  BY <1>3, HereReads
<1>7. ASSUME pc # "idle", NEW p \in Parts, StoredAt(Here, p) = Missing, Current.default_kind = ""
      PROVE  FALSE
  <2>1. Absent(Current) # Null
    BY <1>6, <1>7 DEF Reads
  <2>2. ~Current.nullable
    BY <1>7, <2>1 DEF Absent
  <2>3. Len(alters) \in 1..Len(alters)
    BY Lengths DEF Inv
  <2> QED BY <1>3, <1>7, <2>2, <2>3 DEF Inv, PartsInv, DefaultInv, Current
<1> HIDE DEF pc
<1>8. ASSUME pc # "idle", NEW y, y = [session EXCEPT !.pc = pc]
      PROVE  StepInv(y) /\ CheckedInv(y) /\ AloneInv(y)
  <2> HIDE DEF session
  <2>1. /\ y.pc = "modify" /\ y.op = "set not null" /\ y.seen = session.seen
        /\ y.settled = session.settled
    <3>1. pc = "modify"
      BY <1>6, <1>8
    <3>2. session.op = "set not null"
      BY <1>3
    <3>3. session \in Active /\ pc \in Steps
      BY <1>2, <1>5, <1>8
    <3>4. y.pc = pc /\ y.op = session.op /\ y.seen = session.seen /\ y.settled = session.settled
      BY <1>8, <3>3, Moved
    <3> QED BY <3>1, <3>2, <3>4
  <2>2. StepInv(y)
    BY <2>1 DEF StepInv, AlterOps
  <2>3. CheckedInv(y)
    BY <1>7, <1>8, <2>1 DEF CheckedInv, DefaultOps
  <2>4. AloneInv(y)
    <3>2. session.settled /\ session.seen = Version => Settled
      BY <1>1, <1>2 DEF AloneInv
    <3> QED BY <1>6, <1>8, <2>1, <3>2 DEF AloneInv
  <2> QED BY <2>2, <2>3, <2>4
<1> QED BY <1>1, <1>4, <1>5, <1>8, GotoStep

LEMMA RecountInv ==
    ASSUME Inv, NEW s \in Sessions, Recount(s)
    PROVE  Inv'
<1> DEFINE session == sessions[s]
           pc == IF MissingParts THEN "idle" ELSE "modify"
<1>1. session.pc = "recount" /\ ~At(s, "idle")
  BY DEF Recount, At
<1>2. session \in Active /\ StepInv(session) /\ AloneInv(session)
  BY <1>1, ActiveFacts
<1>3. session.op \in DefaultOps
  BY <1>1, <1>2 DEF StepInv
<1>4. Goto(s, pc) /\ UNCHANGED server
  BY DEF Recount, server
<1>5. pc \in Steps \cup {"idle"}
  BY DEF Steps
<1>6. pc # "idle" => pc = "modify" /\ \A p \in Parts : StoredAt(Here, p) # Missing
  BY DEF MissingParts, StoredAt
<1> HIDE DEF pc
<1>7. ASSUME pc # "idle", NEW y, y = [session EXCEPT !.pc = pc]
      PROVE  StepInv(y) /\ CheckedInv(y) /\ AloneInv(y)
  <2> HIDE DEF session
  <2>1. /\ y.pc = "modify" /\ y.op = session.op /\ y.arg = session.arg /\ y.seen = session.seen
        /\ y.settled = session.settled
    BY <1>2, <1>5, <1>6, <1>7, Moved
  <2>2. StepInv(y)
    BY <1>2, <1>3, <2>1 DEF StepInv, AlterOps, DefaultOps
  <2>3. CheckedInv(y)
    BY <1>3, <1>6, <1>7, <2>1 DEF CheckedInv, DefaultOps
  <2>4. AloneInv(y)
    <3>1. y.op \notin {"add", "set not null", "update"}
      BY <1>3, <2>1 DEF DefaultOps
    <3>2. session.settled /\ session.seen = Version => Settled
      BY <1>1, <1>2 DEF AloneInv
    <3> QED BY <2>1, <3>1, <3>2 DEF AloneInv
  <2> QED BY <2>2, <2>3, <2>4
<1> QED BY <1>1, <1>4, <1>5, <1>7, GotoStep

\* With the synchronisation Materializes() asks for, a mutation waited for has
\* run on every replica.
LEMMA WaitInv ==
    ASSUME Inv, NEW s \in Sessions, Wait(s)
    PROVE  Inv'
<1> DEFINE session == sessions[s]
<1>1. session.pc = "wait" /\ ~At(s, "idle")
  BY DEF Wait, At
<1>2. session \in Active /\ StepInv(session) /\ AloneInv(session)
  BY <1>1, ActiveFacts
<1>3. session.op \in DefaultOps /\ Materializes(session)
  BY <1>1, <1>2 DEF StepInv
<1>4. Goto(s, "recount") /\ UNCHANGED server
  BY DEF Wait, server
<1>5. \A r \in Copies : done[r] >= session.mutation
  <2>1. \A r \in (IF session.sync = 2 THEN Copies ELSE {Here}) : done[r] >= session.mutation
    BY DEF Wait
  <2> HIDE DEF session
  <2>2. CASE session.sync = 2
    BY <2>1, <2>2
  <2>3. CASE session.sync # 2
    <3>1. Copies = {Here}
      BY <1>3, <2>3 DEF Materializes, Copies
    <3> QED BY <2>1, <2>3, <3>1
  <2> QED BY <2>2, <2>3
<1>6. session.settled /\ session.seen = Version => Settled
  <2> SUFFICES ASSUME session.settled, session.seen = Version
               PROVE  Settled
    OBVIOUS
  <2> HIDE DEF session
  <2>1. session.mutation = Len(mutations) /\ \A r \in Copies : applied[r] = Len(alters)
    BY <1>1, <1>2 DEF AloneInv
  <2>2. \A r \in Copies : done[r] \in Nat /\ done[r] <= Len(mutations)
    BY DEF Inv, TypeInv, RowsType
  <2>3. Len(mutations) \in Nat
    BY Lengths DEF Inv
  <2>4. \A r \in Copies : done[r] = Len(mutations)
    BY <1>5, <2>1, <2>2, <2>3
  <2> QED BY <2>1, <2>4 DEF Settled
<1>7. ASSUME NEW y, y = [session EXCEPT !.pc = "recount"]
      PROVE  StepInv(y) /\ CheckedInv(y) /\ AloneInv(y)
  <2> HIDE DEF session
  <2>1. /\ y.pc = "recount" /\ y.op = session.op /\ y.arg = session.arg /\ y.seen = session.seen
        /\ y.settled = session.settled
    BY <1>2, <1>7, Moved DEF Steps
  <2>2. StepInv(y)
    BY <1>2, <1>3, <2>1 DEF StepInv, DefaultOps
  <2>3. CheckedInv(y)
    BY <2>1 DEF CheckedInv
  <2>4. AloneInv(y)
    BY <1>6, <2>1 DEF AloneInv
  <2> QED BY <2>2, <2>3, <2>4
<1> QED BY <1>1, <1>4, <1>7, GotoStep DEF Steps

LEMMA CheckNullsInv ==
    ASSUME Inv, NEW s \in Sessions, CheckNulls(s)
    PROVE  Inv'
<1> DEFINE session == sessions[s]
           pc == IF \E p \in Parts : NullIf(ReadAt(Here, p), session.arg) = Null THEN "idle"
                 ELSE "count"
<1>1. session.pc = "check" /\ ~At(s, "idle")
  BY DEF CheckNulls, At
<1>2. session \in Active /\ StepInv(session) /\ SeenInv(session) /\ AloneInv(session)
  BY <1>1, ActiveFacts
<1>3. session.op = "update" /\ Current.exists
  BY <1>1, <1>2 DEF StepInv, SeenInv
<1>4. Goto(s, pc) /\ UNCHANGED server
  BY DEF CheckNulls, server
<1>5. pc \in Steps \cup {"idle"}
  BY DEF Steps
<1>6. pc # "idle" =>
        /\ pc = "count"
        /\ \A p \in Parts : NullIf(Reads(StoredAt(Here, p), Current), session.arg) # Null
  BY <1>3, HereReads
<1> HIDE DEF pc
<1>7. ASSUME pc # "idle", NEW y, y = [session EXCEPT !.pc = pc]
      PROVE  StepInv(y) /\ CheckedInv(y) /\ AloneInv(y)
  <2> HIDE DEF session
  <2>1. /\ y.pc = "count" /\ y.op = "update" /\ y.arg = session.arg /\ y.seen = session.seen
        /\ y.settled = session.settled
    BY <1>2, <1>3, <1>5, <1>6, <1>7, Moved
  <2>2. StepInv(y)
    BY <2>1 DEF StepInv
  <2>3. CheckedInv(y)
    BY <2>1 DEF CheckedInv
  <2>4. AloneInv(y)
    <3>2. session.settled /\ session.seen = Version => Settled
      BY <1>1, <1>2 DEF AloneInv
    <3> QED BY <1>6, <1>7, <2>1, <3>2 DEF AloneInv
  <2> QED BY <2>2, <2>3, <2>4
<1> QED BY <1>1, <1>4, <1>5, <1>7, GotoStep

LEMMA FailInv ==
    ASSUME Inv, NEW s \in Sessions, Fail(s)
    PROVE  Inv'
BY GotoStep DEF Fail, server

LEMMA PartsFinite ==
    ASSUME TypeInv, NEW S, S \subseteq Parts
    PROVE  IsFiniteSet(S) /\ Cardinality(S) \in Nat
<1>1. Parts = 1..Len(rows[Here]) /\ Len(rows[Here]) \in Nat
  BY Lengths
<1>2. IsFiniteSet(Parts)
  BY <1>1, FS_Interval
<1>3. IsFiniteSet(S)
  BY <1>2, FS_Subset
<1> QED BY <1>3, FS_CardinalityType

LEMMA CountAffectedInv ==
    ASSUME Inv, NEW s \in Sessions, CountAffected(s)
    PROVE  Inv'
<1> DEFINE session == sessions[s]
           y == [session EXCEPT !.pc = "execute", !.count = Counted(s)]
<1>1. session.pc = "count" /\ ~At(s, "idle")
  BY DEF CountAffected, At
<1>2. session \in Active /\ StepInv(session) /\ SeenInv(session) /\ AloneInv(session)
  BY <1>1, ActiveFacts
<1>3. session.op \in {"update", "delete"} /\ Current.exists
  BY <1>1, <1>2 DEF StepInv, SeenInv
<1>4. sessions' = [sessions EXCEPT ![s] = y] /\ UNCHANGED server
  BY DEF CountAffected, server
<1>5. Counted(s) = Cardinality(AffectedBy(session)) /\ Counted(s) \in Nat
  <2>1. \A p \in Parts : ReadAt(Here, p) = Reads(StoredAt(Here, p), Current)
    BY <1>3, HereReads
  <2>2. Visible(Here) \cap Matching(Here, session.op, session.arg) = AffectedBy(session)
    BY <2>1 DEF Visible, Matching, AffectedBy
  <2>3. AffectedBy(session) \subseteq Parts
    BY DEF AffectedBy
  <2> QED BY <2>2, <2>3, PartsFinite DEF Counted, Inv
<1> DEFINE n == Counted(s)
<1>6. y = [session EXCEPT !.pc = "execute", !.count = n]
  OBVIOUS
<1> HIDE DEF session, n, y
<1>7. /\ y \in Active /\ y.pc = "execute" /\ y.op = session.op /\ y.arg = session.arg
      /\ y.seen = session.seen /\ y.settled = session.settled /\ y.count = n
  BY <1>2, <1>5, <1>6 DEF Active, Steps, n
<1>8. StepInv(y)
  BY <1>3, <1>7 DEF StepInv
<1>9. CheckedInv(y)
  BY <1>7 DEF CheckedInv
<1>10. SeenInv(y)
  BY <1>2, <1>7, SeenMoved
<1>11. AloneInv(y)
  <2> SUFFICES ASSUME y.settled, y.seen = Version
               PROVE  /\ Settled
                      /\ y.op = "update" /\ ~Current.nullable =>
                           \A p \in Parts : NullIf(Reads(StoredAt(Here, p), Current), y.arg) # Null
                      /\ y.count = Cardinality(AffectedBy(y))
    BY <1>7 DEF AloneInv
  <2>1. /\ Settled
        /\ session.op = "update" /\ ~Current.nullable =>
             \A p \in Parts : NullIf(Reads(StoredAt(Here, p), Current), session.arg) # Null
    BY <1>1, <1>2, <1>7 DEF AloneInv
  <2>2. AffectedBy(y) = AffectedBy(session)
    BY <1>7 DEF AffectedBy
  <2> QED BY <1>5, <1>7, <2>1, <2>2 DEF n
<1> QED BY <1>4, <1>7, <1>8, <1>9, <1>10, <1>11, SessionStep DEF Fine

-----------------------------------------------------------------------------
(* Steps of the server.                                                    *)

Good(session) ==
    StepInv(session) /\ SeenInv(session) /\ CheckedInv(session) /\ AloneInv(session)

\* The sessions that a step leaves alone, if it keeps what is known of each.
LEMMA OthersKept ==
    ASSUME Inv, NEW t \in Sessions, sessions'[t] = sessions[t],
           \A y \in Active : Good(y) => Good(y)'
    PROVE  SessionInv(t)'
<1>1. CASE At(t, "idle")
  BY <1>1 DEF SessionInv, At
<1>2. CASE ~At(t, "idle")
  <2> DEFINE y == sessions[t]
  <2>1. y \in Active /\ Good(y)
    BY <1>2, ActiveFacts DEF Good
  <2> HIDE DEF y
  <2>2. \A z : z = y => Good(z)'
    BY <2>1
  <2>3. sessions'[t] = y
    BY DEF y
  <2> QED BY <2>2, <2>3 DEF Good, SessionInv, StepInv, SeenInv, CheckedInv, AloneInv,
                            LoadedColumn, Materializes, AffectedBy
<1> QED BY <1>1, <1>2

LEMMA SessionsSame ==
    ASSUME Inv, sessions' = sessions, \A y \in Active : Good(y) => Good(y)'
    PROVE  SessionsType' /\ \A t \in Sessions : SessionInv(t)'
<1>1. SessionsType'
  BY DEF Inv, TypeInv, SessionsType
<1>2. ASSUME NEW t \in Sessions
      PROVE  SessionInv(t)'
  BY OthersKept
<1> QED BY <1>1, <1>2

\* Likewise where the step ends one session's statement.
LEMMA SessionEnds ==
    ASSUME Inv, NEW s \in Sessions, sessions' = [sessions EXCEPT ![s] = Idle],
           \A y \in Active : Good(y) => Good(y)'
    PROVE  SessionsType' /\ \A t \in Sessions : SessionInv(t)'
<1>1. SessionsType'
  BY DEF Inv, TypeInv, SessionsType
<1>2. ASSUME NEW t \in Sessions
      PROVE  SessionInv(t)'
  <2>1. CASE t = s
    <3>1. sessions'[t] = Idle
      BY <2>1 DEF Inv, TypeInv, SessionsType
    <3> QED BY <3>1 DEF SessionInv, At, Idle
  <2>2. CASE t # s
    <3>1. sessions'[t] = sessions[t]
      BY <2>2 DEF Inv, TypeInv, SessionsType
    <3> QED BY <3>1, OthersKept
  <2> QED BY <2>1, <2>2
<1> QED BY <1>1, <1>2

LEMMA ApplyAlterInv ==
    ASSUME Inv, NEW r \in Copies, ApplyAlter(r)
    PROVE  Inv'
<1> USE DEF ApplyAlter
<1>1. AltersType /\ RowsType /\ LogInv /\ MutationsInv /\ PartsInv /\ PendingInv
  BY DEF Inv, TypeInv
<1>2. /\ Current' = Current /\ Parts' = Parts /\ Copies' = Copies /\ MergeTree' = MergeTree
      /\ EverRaced' = EverRaced /\ Version' = Version
  BY DEF Current, Parts, Copies, MergeTree, Replicated, EverRaced, Version
<1>3. \A m : Affected(m)' = Affected(m)
  BY <1>2 DEF Affected, StoredAt
<1>4. applied[r] < Len(alters) /\ applied[r] \in Nat /\ Len(alters) \in Nat
  BY <1>1, Lengths DEF AltersType, Inv
<1>5. \A q \in Copies : /\ applied'[q] \in Nat
                        /\ applied[q] <= applied'[q] /\ applied'[q] <= Len(alters)
  BY <1>1, <1>4 DEF AltersType
<1>6. AltersType'
  <2>1. applied' \in [Copies -> Nat]
    BY <1>1, <1>4 DEF AltersType
  <2>2. applied'[Here] = Len(alters)
    BY <1>1, <1>4, HereIsCopy DEF AltersType
  <2>3. \A q \in Copies : 1 <= applied'[q]
    BY <1>1, <1>5 DEF AltersType
  <2>4. alters' = alters
    OBVIOUS
  <2> QED BY <1>1, <1>2, <1>5, <2>1, <2>2, <2>3, <2>4 DEF AltersType
<1>7. RowsType' /\ LogInv' /\ MutationsInv'
  BY <1>1, <1>2 DEF RowsType, LogInv, MutationsInv, Origin
<1>8. PartsInv'
  <2>1. NothingInv' /\ StoredInv' /\ SameMissing'
    BY <1>1, <1>2 DEF PartsInv, NothingInv, StoredInv, SameMissing, Stores, StoredAt
  <2>2. DefaultInv' /\ MemoryInv'
    BY <1>1, <1>2 DEF PartsInv, DefaultInv, MemoryInv, StoredAt
  <2>3. \A q \in Copies, i \in 1..Len(alters) : applied'[q] < i => applied[q] < i
    BY <1>1, <1>5 DEF AltersType
  <2>4. AddInv'
    BY <1>1, <1>2, <2>3 DEF PartsInv, AddInv, StoredAt
  <2>5. KeepInv'
    <3>1. \A q \in Copies, i \in 2..Len(alters) : applied'[q] < i => applied[q] < i
      BY <1>4, <2>3
    <3>2. KeepInv
      BY <1>1 DEF PartsInv
    <3> QED BY <1>2, <3>1, <3>2 DEF KeepInv, StoredAt
  <2> QED BY <2>1, <2>2, <2>4, <2>5 DEF PartsInv
<1>9. PendingInv'
  <2>1. NullInv' /\ CountInv'
    BY <1>1, <1>2, <1>3 DEF PendingInv, NullInv, CountInv, StoredAt
  <2>2. UnracedInv'
    BY <1>1, <1>2 DEF PendingInv, UnracedInv, Passes
  <2>3. ReplicasInv'
    BY <1>1, <1>2 DEF PendingInv, ReplicasInv, Final
  <2> QED BY <2>1, <2>2, <2>3 DEF PendingInv
<1>10. ASSUME NEW y \in Active, Good(y)
       PROVE  Good(y)'
  <2>1. StepInv(y)' /\ SeenInv(y)' /\ CheckedInv(y)'
    BY <1>2, <1>10 DEF Good, StepInv, SeenInv, CheckedInv, Materializes, Replicated, LoadedColumn,
                       Origin, StoredAt
  <2>2. ~(y.settled /\ y.seen = Version)
    <3>1. AloneInv(y)
      BY <1>10 DEF Good
    <3>2. y.settled /\ y.seen = Version => applied[r] = Len(alters)
      BY <3>1 DEF AloneInv, Settled
    <3> QED BY <1>4, <3>2
  <2>3. AloneInv(y)'
    BY <1>2, <2>2 DEF AloneInv
  <2> QED BY <2>1, <2>3 DEF Good
<1>11. sessions' = sessions
  OBVIOUS
<1>12. SessionsType' /\ \A t \in Sessions : SessionInv(t)'
  BY <1>10, <1>11, SessionsSame
<1> QED BY <1>6, <1>7, <1>8, <1>9, <1>12 DEF Inv, TypeInv

\* A statement that saw an older version is raced, whatever it checked.
LEMMA AloneVacuous ==
    ASSUME NEW y, y.seen # Version'
    PROVE  AloneInv(y)'
BY DEF AloneInv

\* What an INSERT stores of a column that is there and no ALIAS.
LEMMA AliasOrNone ==
    ASSUME TypeInv, LogInv, Current.exists, Current.default_kind = "ALIAS"
    PROVE  Len(alters) = 1 /\ alters[1].column.default_kind = "ALIAS"
<1>1. \A i \in 2..Len(alters) : alters[i].column.default_kind # "ALIAS"
  BY DEF LogInv
<1> QED BY <1>1, Lengths DEF Current

LEMMA InsertInv ==
    ASSUME Inv, NEW value \in Values \cup {Null}, Insert(value)
    PROVE  Inv'
<1> DEFINE stored == IF ~Current.exists \/ Current.default_kind = "ALIAS" THEN Missing
                     ELSE IF Current.default_kind = "MATERIALIZED" THEN Current.default ELSE value
           new == [stored |-> stored, masked |-> FALSE]
           N == Len(rows[Here])
<1>1. /\ TypeInv /\ AltersType /\ RowsType /\ LogInv /\ MutationsInv /\ PartsInv /\ PendingInv
  BY DEF Inv, TypeInv
<1>2. /\ rows' = [r \in Copies |-> Append(rows[r], new)]
      /\ UNCHANGED <<engine, alters, applied, mutations, done, sessions>>
      /\ value = Null => Current.nullable
  BY DEF Insert
<1>3. /\ stored \in Held \cup {Missing}
      /\ stored = Missing => ~Current.exists \/ Current.default_kind = "ALIAS"
      /\ ~Current.exists => stored = Missing
      /\ stored = Null => Current.nullable
  <2>1. Current \in Column /\ Current.default \in Values \cup {Null}
    BY <1>1, Columns DEF Column
  <2>2. Current.default_kind # "" => Current.default # Null
    BY <1>1, Lengths DEF LogInv, Current
  <2>3. Missing \notin Values /\ Missing # Null
    BY ValuesAssumption DEF Missing, Null
  <2>4. Current.default_kind = "MATERIALIZED" => Current.default_kind # ""
    OBVIOUS
  <2> QED BY <1>2, <2>1, <2>2, <2>3, <2>4 DEF Held
<1>4. new \in Row /\ new.stored = stored /\ new.masked = FALSE
  BY <1>3 DEF Row
<1> HIDE DEF stored, new
<1>5. N \in Nat /\ Parts = 1..N
  BY <1>1, Lengths
<1>6. \A r \in Copies : rows[r] \in Seq(Row) /\ Len(rows[r]) = N
  BY <1>1 DEF RowsType
<1>7. /\ Copies' = Copies /\ Current' = Current /\ MergeTree' = MergeTree
      /\ EverRaced' = EverRaced /\ Replicated' = Replicated
  BY <1>2 DEF Copies, Current, MergeTree, Replicated, EverRaced
<1>8. \A r \in Copies : /\ rows'[r] \in Seq(Row) /\ Len(rows'[r]) = N + 1
                        /\ \A p \in 1..N : rows'[r][p] = rows[r][p]
                        /\ rows'[r][N + 1] = new
  BY <1>2, <1>4, <1>5, <1>6
<1>9. Parts' = 1..N + 1 /\ Len(rows'[Here]) = N + 1
  BY <1>8, HereIsCopy DEF Parts
<1>10. \A p \in Parts' : p \in Parts \/ p = N + 1
  BY <1>5, <1>9
<1>11. \A r \in Copies : /\ \A p \in Parts : StoredAt(r, p)' = StoredAt(r, p)
                         /\ rows'[r][N + 1].stored = stored
  BY <1>4, <1>5, <1>8 DEF StoredAt
<1> HIDE DEF N
<1>12. AltersType' /\ LogInv'
  BY <1>1, <1>2, <1>7 DEF AltersType, LogInv, Origin
<1>13. RowsType'
  <2>1. rows' \in [Copies -> Seq(Row)]
    BY <1>2, <1>8
  <2>2. \A r \in Copies : Len(rows'[r]) = Len(rows'[Here])
    BY <1>8, HereIsCopy
  <2> QED BY <1>1, <1>2, <1>7, <2>1, <2>2 DEF RowsType
<1>14. \A j \in 1..Len(mutations) : mutations[j].upto \in Nat /\ mutations[j].upto <= N
  <2>1. \A j \in 1..Len(mutations) : mutations[j] \in MutationType
    BY <1>1 DEF RowsType
  <2> QED BY <1>1, <2>1 DEF MutationsInv, MutationType, N
<1>15. \A i \in 1..Len(alters) : alters[i].upto \in Nat /\ alters[i].upto <= N
  <2>1. \A i \in 1..Len(alters) : alters[i] \in Alter
    BY <1>1, Columns
  <2> QED BY <1>1, <2>1 DEF MutationsInv, Alter, N
<1>16. MutationsInv'
  <2>1. \A i \in 1..Len(alters) : alters[i].upto <= N + 1
    BY <1>5, <1>15
  <2>2. \A j \in 1..Len(mutations) : mutations[j].upto <= N + 1
    BY <1>5, <1>14
  <2> QED BY <1>1, <1>2, <1>9, <2>1, <2>2 DEF MutationsInv
<1>17. \A r \in Copies, p \in Parts : StoredAt(r, p)' = StoredAt(r, p)
  BY <1>11
<1>18. \A r \in Copies, p \in Parts' : p = N + 1 => StoredAt(r, p)' = stored
  BY <1>11 DEF StoredAt
<1>19. \A p \in Parts' : p <= N => p \in Parts
  BY <1>5, <1>9
<1>20. PartsInv'
  <2>1. NothingInv'
    <3> SUFFICES ASSUME ~Current.exists
                 PROVE  /\ mutations' = <<>>
                        /\ \A r \in Copies, p \in Parts' :
                             rows'[r][p].stored = Missing /\ ~rows'[r][p].masked
      BY <1>7 DEF NothingInv
    <3>1. /\ mutations = <<>>
          /\ \A r \in Copies : \A p \in Parts : rows[r][p].stored = Missing /\ ~rows[r][p].masked
      BY <1>1 DEF PartsInv, NothingInv
    <3> QED BY <1>2, <1>3, <1>4, <1>5, <1>8, <1>10, <3>1
  <2>2. StoredInv'
    <3> SUFFICES ASSUME NEW r \in Copies, NEW j \in 1..done[r], Stores(j),
                        NEW p \in Parts', p <= mutations[j].upto
                 PROVE  StoredAt(r, p)' # Missing
      BY <1>2, <1>7 DEF StoredInv, Stores
    <3>1. j \in 1..Len(mutations)
      BY <1>1 DEF RowsType
    <3>2. p \in Parts
      BY <1>5, <1>9, <1>14, <1>19, <3>1
    <3>3. StoredAt(r, p) # Missing
      BY <1>1, <3>2 DEF PartsInv, StoredInv
    <3> QED BY <1>17, <3>2, <3>3
  <2>3. SameMissing'
    <3> SUFFICES ASSUME NEW r \in Copies, NEW q \in Copies, NEW p \in Parts',
                        StoredAt(r, p)' = Missing, StoredAt(q, p)' # Missing
                 PROVE  \E j \in done[r] + 1 .. Len(mutations) : Stores(j) /\ p <= mutations[j].upto
      BY <1>2, <1>7 DEF SameMissing, Stores
    <3>1. p \in Parts
      BY <1>10, <1>18
    <3>2. StoredAt(r, p) = Missing /\ StoredAt(q, p) # Missing
      BY <1>17, <3>1
    <3> QED BY <1>1, <3>1, <3>2 DEF PartsInv, SameMissing
  <2>4. DefaultInv'
    <3> SUFFICES ASSUME NEW i \in 1..Len(alters), alters[i].column.exists,
                        ~alters[i].column.nullable, NEW p \in Parts', StoredAt(Here, p)' = Missing
                 PROVE  Current.default_kind # ""
      BY <1>2, <1>7 DEF DefaultInv
    <3>1. CASE p \in Parts
      BY <1>1, <1>17, <3>1, HereIsCopy DEF PartsInv, DefaultInv
    <3>2. CASE p = N + 1
      <4>1. ~Current.exists \/ Current.default_kind = "ALIAS"
        BY <1>3, <1>18, <3>2, HereIsCopy
      <4>2. Current.exists
        BY <1>1, NoColumnYet
      <4> QED BY <4>1, <4>2
    <3> QED BY <1>10, <3>1, <3>2
  <2>5. MemoryInv'
    <3> SUFFICES ASSUME ~MergeTree, Current.exists, alters[1].column.default_kind # "ALIAS",
                        NEW p \in Parts'
                 PROVE  StoredAt(Here, p)' # Missing
      BY <1>2, <1>7 DEF MemoryInv
    <3>1. CASE p \in Parts
      BY <1>1, <1>17, <3>1, HereIsCopy DEF PartsInv, MemoryInv
    <3>2. CASE p = N + 1
      BY <1>1, <1>3, <1>18, <3>2, HereIsCopy, AliasOrNone
    <3> QED BY <1>10, <3>1, <3>2
  <2>6. AddInv'
    <3> SUFFICES ASSUME NEW i \in 1..Len(alters), NEW r \in Copies, alters[i].op = "add",
                        applied[r] < i, NEW p \in Parts', p <= alters[i].upto
                 PROVE  StoredAt(r, p)' = Missing
      BY <1>2, <1>7 DEF AddInv
    <3>1. p \in Parts
      BY <1>5, <1>9, <1>15, <1>19
    <3>2. StoredAt(r, p) = Missing
      BY <1>1, <3>1 DEF PartsInv, AddInv
    <3> QED BY <1>17, <3>1, <3>2
  <2>7. KeepInv'
    <3> SUFFICES ASSUME NEW i \in 2..Len(alters), NEW r \in Copies, ~alters[i].raced,
                        alters[i - 1].column.exists, applied[r] < i,
                        NEW p \in Parts', StoredAt(r, p)' = Missing
                 PROVE  Absent(alters[i].column) = Absent(alters[i - 1].column)
      BY <1>2, <1>7 DEF KeepInv
    <3>1. CASE p \in Parts
      BY <1>1, <1>17, <3>1 DEF PartsInv, KeepInv
    <3>2. CASE p = N + 1
      <4>1. ~Current.exists \/ Current.default_kind = "ALIAS"
        BY <1>3, <1>18, <3>2
      <4>2. Len(alters) = 1
        BY <1>1, <4>1, AliasOrNone, NoColumnYet
      <4> QED BY <4>2
    <3> QED BY <1>10, <3>1, <3>2
  <2> QED BY <2>1, <2>2, <2>3, <2>4, <2>5, <2>6, <2>7 DEF PartsInv
<1>21. PendingInv'
  <2>1. NullInv'
    <3> SUFFICES ASSUME Current.exists, ~Current.nullable, NEW p \in Parts',
                        StoredAt(Here, p)' = Null
                 PROVE  \E j \in done[Here] + 1 .. Len(mutations) :
                            mutations[j].kind = "convert" /\ p <= mutations[j].upto
      BY <1>2, <1>7 DEF NullInv
    <3>1. p \in Parts
      BY <1>3, <1>10, <1>18, HereIsCopy
    <3>2. StoredAt(Here, p) = Null
      BY <1>17, <3>1, HereIsCopy
    <3> QED BY <1>1, <3>1, <3>2 DEF PendingInv, NullInv
  <2>2. CountInv'
    <3>1. \A j \in 1..Len(mutations) : Affected(mutations[j])' = Affected(mutations[j])
      <4>1. ASSUME NEW m, m.upto \in Nat, m.upto <= N
            PROVE  Affected(m)' = Affected(m)
        <5>1. \A p \in Parts' : p <= m.upto => p \in Parts
          BY <1>5, <1>9, <1>19, <4>1
        <5>2. Parts \subseteq Parts'
          BY <1>5, <1>9
        <5>3. \A p \in Parts : rows'[Here][p] = rows[Here][p]
          BY <1>5, <1>8, HereIsCopy
        <5> QED BY <1>7, <5>1, <5>2, <5>3 DEF Affected, StoredAt
      <4> SUFFICES ASSUME NEW j \in 1..Len(mutations)
                   PROVE  Affected(mutations[j])' = Affected(mutations[j])
        OBVIOUS
      <4>2. PICK m : m = mutations[j]
        OBVIOUS
      <4>3. Affected(m)' = Affected(m)
        BY <1>14, <4>1, <4>2
      <4>4. Affected(mutations[j])' = Affected(m)'
        BY <1>2, <4>2 DEF Affected
      <4> QED BY <4>2, <4>3, <4>4
    <3>2. CountInv
      BY <1>1 DEF PendingInv
    <3> QED BY <1>2, <3>1, <3>2 DEF CountInv
  <2>3. UnracedInv'
    <3>1. ASSUME NEW j \in 1..Len(mutations), NEW r \in Copies, Passes(mutations[j], r)
          PROVE  Passes(mutations[j], r)'
      <4>1. \A p \in Parts' : p <= mutations[j].upto => p \in Parts /\ rows'[r][p] = rows[r][p]
        BY <1>5, <1>8, <1>9, <1>14, <1>19
      <4> QED BY <1>2, <1>7, <3>1, <4>1 DEF Passes
    <3>2. UnracedInv
      BY <1>1 DEF PendingInv
    <3> QED BY <1>2, <1>7, <3>1, <3>2 DEF UnracedInv
  <2>4. ReplicasInv'
    <3> SUFFICES ASSUME ~EverRaced, NEW r \in Copies
                 PROVE  /\ done[r] < Len(mutations) =>
                             mutations[Len(mutations)].after = Len(alters)
                        /\ \A p \in Parts' : Final(r, p)' = Final(Here, p)'
      BY <1>2, <1>7 DEF ReplicasInv
    <3>1. /\ done[r] < Len(mutations) => mutations[Len(mutations)].after = Len(alters)
          /\ \A p \in Parts : Final(r, p) = Final(Here, p)
      BY <1>1 DEF PendingInv, ReplicasInv
    <3>2. ASSUME NEW q \in Copies, NEW p \in Parts'
          PROVE  /\ p \in Parts => Final(q, p)' = Final(q, p)
                 /\ p = N + 1 => Final(q, p)' = new
      <4>1. p \in Parts => Final(q, p)' = Final(q, p)
        BY <1>2, <1>5, <1>7, <1>8 DEF Final
      <4>2. ASSUME p = N + 1, done[q] # Len(mutations)
            PROVE  RowAfter(mutations[Len(mutations)], p, new, Current) = new
        <5>1. Len(mutations) \in 1..Len(mutations)
          BY <1>1, <4>2 DEF RowsType
        <5>2. p > mutations[Len(mutations)].upto
          BY <1>5, <1>14, <4>2, <5>1
        <5>3. mutations[Len(mutations)].upto \in Nat /\ p \in Nat
          BY <1>5, <1>14, <4>2, <5>1
        <5> QED BY <5>2, <5>3 DEF RowAfter
      <4>3. p = N + 1 => Final(q, p)' = new
        BY <1>2, <1>7, <1>8, <4>2 DEF Final
      <4> QED BY <4>1, <4>3
    <3> QED BY <1>10, <3>1, <3>2, HereIsCopy
  <2> QED BY <2>1, <2>2, <2>3, <2>4 DEF PendingInv
<1>22. ASSUME NEW y \in Active, Good(y)
       PROVE  Good(y)'
  <2>1. StepInv(y)'
    BY <1>7, <1>22 DEF Good, StepInv, Materializes
  <2>2. SeenInv(y)'
    <3>1. SeenInv(y) /\ y.seen[1] \in Nat
      BY <1>22 DEF Good, Active
    <3>2. y.seen[1] <= N + 1
      BY <1>5, <3>1 DEF SeenInv, N
    <3> QED BY <1>2, <1>7, <1>9, <3>1, <3>2 DEF SeenInv, LoadedColumn, Origin
  <2>3. CheckedInv(y)'
    <3>1. y.op \in AlterOps /\ y.op # "add" => stored # Missing
      <4>1. y.op \in AlterOps /\ y.op # "add" =>
              Current.exists /\ alters[1].column.default_kind # "ALIAS"
        BY <1>22 DEF Good, SeenInv
      <4> QED BY <1>1, <1>3, <4>1, AliasOrNone
    <3>2. CheckedInv(y)
      BY <1>22 DEF Good
    <3>3. y.op \in DefaultOps \/ y.op = "set not null" => y.op \in AlterOps /\ y.op # "add"
      BY DEF DefaultOps, AlterOps
    <3>4. y.op \in DefaultOps \/ y.op = "set not null" =>
            \A p \in Parts' : StoredAt(Here, p)' = Missing => p \in Parts /\ StoredAt(Here, p) = Missing
      BY <1>10, <1>17, <1>18, <3>1, <3>3, HereIsCopy
    <3> QED BY <1>7, <3>2, <3>4 DEF CheckedInv
  <2>4. AloneInv(y)'
    <3>1. y.seen[1] <= N /\ y.seen[1] \in Nat
      BY <1>22 DEF Good, SeenInv, Active, N
    <3>2. Version'[1] = N + 1
      BY <1>9 DEF Version
    <3>3. y.seen # Version'
      BY <1>5, <3>1, <3>2
    <3> QED BY <3>3, AloneVacuous
  <2> QED BY <2>1, <2>2, <2>3, <2>4 DEF Good
<1>23. SessionsType' /\ \A t \in Sessions : SessionInv(t)'
  BY <1>2, <1>22, SessionsSame
<1> QED BY <1>12, <1>13, <1>16, <1>20, <1>21, <1>23 DEF Inv, TypeInv

LEMMA RowAfterSame ==
    ASSUME NEW m, NEW n, n.kind = m.kind, n.upto = m.upto, n.value = m.value,
           NEW p, NEW row, NEW column
    PROVE  RowAfter(n, p, row, column) = RowAfter(m, p, row, column)
BY DEF RowAfter

\* A mutation finds the column.
LEMMA MutationFindsColumn ==
    ASSUME TypeInv, LogInv, MutationsInv, NEW r \in Copies, Ready(r)
    PROVE  /\ done[r] + 1 \in 1..Len(mutations) /\ NextMutation(r) \in MutationType
           /\ ColumnAt(r).exists /\ ColumnAt(r) \in Column
           /\ NextMutation(r).after >= 2 \/ alters[1].column.exists
<1>1. done[r] \in Nat /\ done[r] < Len(mutations) /\ Len(mutations) \in Nat
  BY Lengths DEF TypeInv, RowsType, Ready
<1>2. done[r] + 1 \in 1..Len(mutations)
  BY <1>1
<1>3. NextMutation(r) \in MutationType
  BY <1>2 DEF TypeInv, RowsType, NextMutation
<1>4. applied[r] \in 1..Len(alters) /\ ColumnAt(r) \in Column
  BY Columns DEF TypeInv
<1> DEFINE after == NextMutation(r).after
<1>5. /\ after \in Nat /\ 1 <= after /\ after <= applied[r] /\ applied[r] \in Nat
      /\ alters[after].column.exists
  BY <1>2, <1>3, <1>4 DEF MutationsInv, NextMutation, MutationType, Ready
<1> HIDE DEF after
<1>6. applied[r] >= 2 => alters[applied[r]].column.exists
  BY <1>4 DEF LogInv
<1>7. ColumnAt(r).exists
  <2>1. CASE applied[r] >= 2
    BY <1>6, <2>1 DEF ColumnAt
  <2>2. CASE ~(applied[r] >= 2)
    <3>1. after = applied[r]
      BY <1>5, <2>2
    <3> QED BY <1>5, <3>1 DEF ColumnAt
  <2> QED BY <2>1, <2>2
<1>8. after >= 2 \/ alters[1].column.exists
  <2>1. after = 1 \/ after >= 2
    BY <1>5
  <2> QED BY <1>5, <2>1
<1> QED BY <1>2, <1>3, <1>4, <1>7, <1>8 DEF after

LEMMA MutateInv ==
    ASSUME Inv, NEW r \in Copies, Mutate(r)
    PROVE  Inv'
<1> DEFINE k == done[r] + 1
           m == NextMutation(r)
           N == Len(rows[Here])
           changed == Cardinality({p \in Visible(r) \cap Matching(r, m.kind, m.value) : p <= m.upto})
<1>1. /\ TypeInv /\ AltersType /\ RowsType /\ LogInv /\ MutationsInv /\ PartsInv /\ PendingInv
  BY DEF Inv, TypeInv
<1>2. /\ Ready(r) /\ ~Fails(m, r)
      /\ rows' = [rows EXCEPT ![r] = [p \in Parts |-> Rewritten(m, r, p)]]
      /\ done' = [done EXCEPT ![r] = k]
      /\ mutations' = IF r = Here THEN [mutations EXCEPT ![k].changed = changed] ELSE mutations
      /\ UNCHANGED <<engine, alters, applied, sessions>>
  BY DEF Mutate
<1>3. /\ k \in 1..Len(mutations) /\ m \in MutationType /\ m = mutations[k]
      /\ ColumnAt(r).exists /\ ColumnAt(r) \in Column
      /\ m.after >= 2 \/ alters[1].column.exists
  BY <1>1, <1>2, MutationFindsColumn DEF NextMutation
<1>4. N \in Nat /\ Parts = 1..N /\ Len(mutations) \in Nat
  BY <1>1, Lengths
<1>5. changed \in Nat
  <2>1. {p \in Visible(r) \cap Matching(r, m.kind, m.value) : p <= m.upto} \subseteq Parts
    BY DEF Visible
  <2> QED BY <1>1, <2>1, PartsFinite
<1> HIDE DEF k, m, changed
<1>6. /\ mutations' \in Seq(MutationType) /\ Len(mutations') = Len(mutations)
      /\ \A j \in 1..Len(mutations) : j # k \/ r # Here => mutations'[j] = mutations[j]
      /\ r = Here => mutations'[k] = [m EXCEPT !.changed = changed]
  <2>1. mutations \in Seq(MutationType)
    BY <1>1 DEF RowsType
  <2>2. [m EXCEPT !.changed = changed] \in MutationType
    BY <1>3, <1>5 DEF MutationType
  <2>3. CASE r = Here
    <3>1. mutations' = [mutations EXCEPT ![k] = [m EXCEPT !.changed = changed]]
      BY <1>2, <1>3, <2>3
    <3> HIDE DEF MutationType
    <3> QED BY <1>3, <2>1, <2>2, <2>3, <3>1
  <2>4. CASE r # Here
    BY <1>2, <2>1, <2>4
  <2> QED BY <2>3, <2>4
<1>7. \A j \in 1..Len(mutations) :
        /\ mutations'[j].kind = mutations[j].kind /\ mutations'[j].value = mutations[j].value
        /\ mutations'[j].upto = mutations[j].upto /\ mutations'[j].after = mutations[j].after
        /\ mutations'[j].raced = mutations[j].raced /\ mutations'[j].count = mutations[j].count
  <2> SUFFICES ASSUME NEW j \in 1..Len(mutations), j = k, r = Here
               PROVE  /\ mutations'[j].kind = m.kind /\ mutations'[j].value = m.value
                      /\ mutations'[j].upto = m.upto /\ mutations'[j].after = m.after
                      /\ mutations'[j].raced = m.raced /\ mutations'[j].count = m.count
    BY <1>3, <1>6
  <2>1. mutations'[j] = [m EXCEPT !.changed = changed]
    BY <1>6
  <2> QED BY <1>3, <2>1 DEF MutationType
<1>8. \A p \in Parts : Rewritten(m, r, p) = RowAfter(m, p, rows[r][p], ColumnAt(r))
  BY <1>1, <1>3, RewrittenIsRowAfter
<1>9. \A q \in Copies : rows[q] \in Seq(Row) /\ Len(rows[q]) = N
  BY <1>1 DEF RowsType
<1>10. /\ \A p \in Parts : rows'[r][p] = RowAfter(m, p, rows[r][p], ColumnAt(r))
       /\ rows'[r] = [p \in Parts |-> Rewritten(m, r, p)]
       /\ \A q \in Copies : q # r => rows'[q] = rows[q]
  BY <1>1, <1>2, <1>8 DEF RowsType
<1>11. \A q \in Copies, p \in Parts : rows[q][p] \in Row /\ p \in Nat
  BY <1>4, <1>9
<1>12. \A p \in Parts : rows'[r][p] \in Row
  BY <1>3, <1>10, <1>11, RowAfterCases
<1>13. /\ rows' \in [Copies -> Seq(Row)] /\ \A q \in Copies : Len(rows'[q]) = N
       /\ Parts' = Parts
  <2>1. rows'[r] \in Seq(Row) /\ Len(rows'[r]) = N /\ DOMAIN rows'[r] = Parts
    <3>1. rows'[r] \in [1..N -> Row]
      BY <1>4, <1>10, <1>12
    <3> QED BY <1>4, <3>1
  <2>2. \A q \in Copies : rows'[q] \in Seq(Row) /\ Len(rows'[q]) = N /\ DOMAIN rows'[q] = Parts
    BY <1>4, <1>9, <1>10, <2>1
  <2> QED BY <1>1, <1>2, <2>2, HereIsCopy DEF RowsType, Parts
<1>14. /\ Copies' = Copies /\ Current' = Current /\ MergeTree' = MergeTree
       /\ Replicated' = Replicated /\ Len(rows'[Here]) = N /\ alters' = alters
  BY <1>2, <1>13, HereIsCopy DEF Copies, Current, MergeTree, Replicated
<1>15. EverRaced' = EverRaced
  <2>1. DOMAIN mutations' = 1..Len(mutations) /\ DOMAIN mutations = 1..Len(mutations)
    BY <1>1, <1>6 DEF RowsType
  <2> QED BY <1>2, <1>7, <2>1 DEF EverRaced
<1>16. /\ done' \in [Copies -> Nat] /\ done'[r] = k
       /\ \A q \in Copies : /\ q # r => done'[q] = done[q]
                            /\ done'[q] >= done[q] /\ done'[q] <= Len(mutations)
  <2>1. done \in [Copies -> Nat] /\ \A q \in Copies : done[q] <= Len(mutations)
    BY <1>1 DEF RowsType
  <2>2. k \in Nat /\ k >= done[r] /\ k <= Len(mutations)
    BY <1>3, <1>4, <2>1 DEF k
  <2> QED BY <1>2, <1>4, <2>1, <2>2
<1>17. RowsType'
  BY <1>6, <1>13, <1>14, <1>16, HereIsCopy DEF RowsType
<1>18. AltersType' /\ LogInv'
  BY <1>1, <1>2, <1>14 DEF AltersType, LogInv, Origin
<1>19. MutationsInv'
  BY <1>1, <1>6, <1>7, <1>14 DEF MutationsInv, N
\* Missing parts only become fewer.
<1>20. \A q \in Copies, p \in Parts :
         /\ StoredAt(q, p)' = Missing => StoredAt(q, p) = Missing
         /\ q = r /\ StoredAt(q, p)' = Missing =>
              ~(m.kind \in {"store", "update"} /\ p <= m.upto)
         /\ q = r /\ StoredAt(q, p) = Missing /\ StoredAt(q, p)' # Missing =>
              m.kind \in {"store", "update"} /\ p <= m.upto
  <2> SUFFICES ASSUME NEW p \in Parts
               PROVE  /\ rows'[r][p].stored = Missing => rows[r][p].stored = Missing
                      /\ rows'[r][p].stored = Missing =>
                           ~(m.kind \in {"store", "update"} /\ p <= m.upto)
                      /\ rows[r][p].stored = Missing /\ rows'[r][p].stored # Missing =>
                           m.kind \in {"store", "update"} /\ p <= m.upto
    BY <1>10 DEF StoredAt
  <2> DEFINE row == rows[r][p]
             now == Reads(row.stored, ColumnAt(r))
  <2>1. row \in Row /\ p \in Nat
    BY <1>11
  <2>2. now \in Held /\ now # Missing
    BY <1>3, <2>1, ReadsHeld, MissingNotHeld DEF Row
  <2>3. NullIf(now, m.value) # Missing
    BY <2>2, MissingNotHeld DEF NullIf, Held
  <2>4. m.upto \in Nat /\ m.kind \in Kinds
    BY <1>3 DEF MutationType
  <2> DEFINE after == rows'[r][p]
  <2>5. /\ p > m.upto => after = row
        /\ p <= m.upto /\ m.kind = "store" => after.stored = now
        /\ p <= m.upto /\ m.kind = "convert" =>
             after.stored = IF row.stored = Missing THEN Missing ELSE now
        /\ p <= m.upto /\ m.kind = "update" => after.stored = NullIf(now, m.value)
        /\ m.kind = "delete" => after.stored = row.stored
    <3>1. after = RowAfter(m, p, row, ColumnAt(r))
      BY <1>10
    <3>2. m \in MutationType /\ ColumnAt(r) \in Column
      BY <1>3
    <3> HIDE DEF row, after
    <3> QED BY <2>1, <3>1, <3>2, RowAfterCases
  <2> HIDE DEF row, now, after
  <2>6. /\ after.stored = Missing => row.stored = Missing
        /\ after.stored = Missing => ~(m.kind \in {"store", "update"} /\ p <= m.upto)
        /\ row.stored = Missing /\ after.stored # Missing =>
             m.kind \in {"store", "update"} /\ p <= m.upto
    BY <2>1, <2>2, <2>3, <2>4, <2>5 DEF Kinds
  <2> QED BY <2>6 DEF row, after
<1>21. Current.exists
  <2>1. mutations # <<>>
    BY <1>3
  <2> QED BY <1>1, <2>1 DEF PartsInv, NothingInv
<1>22. PartsInv'
  <2>0. \A j \in 1..Len(mutations) : Stores(j)' <=> Stores(j)
    BY <1>7 DEF Stores
  <2>1. NothingInv'
    BY <1>14, <1>21 DEF NothingInv
  <2>2. StoredInv'
    <3> SUFFICES ASSUME NEW q \in Copies, NEW j \in 1..done'[q], Stores(j),
                        NEW p \in Parts, p <= mutations[j].upto
                 PROVE  StoredAt(q, p)' # Missing
      <4>1. \A q \in Copies : \A j \in 1..done'[q] : j \in 1..Len(mutations)
        BY <1>16
      <4> QED BY <1>7, <1>13, <1>14, <2>0, <4>1 DEF StoredInv
    <3>1. CASE j <= done[q]
      <4>1. j \in 1..done[q]
        BY <1>1, <3>1 DEF RowsType
      <4>2. StoredAt(q, p) # Missing
        BY <1>1, <4>1 DEF PartsInv, StoredInv
      <4> QED BY <1>20, <4>2
    <3>2. CASE ~(j <= done[q])
      <4>1. q = r /\ j = k
        BY <1>1, <1>16, <3>2 DEF RowsType, k
      <4> QED BY <1>3, <1>20, <4>1 DEF Stores
    <3> QED BY <3>1, <3>2
  <2>3. SameMissing'
    <3> SUFFICES ASSUME NEW q \in Copies, NEW u \in Copies, NEW p \in Parts,
                        StoredAt(q, p)' = Missing, StoredAt(u, p)' # Missing
                 PROVE  \E j \in done'[q] + 1 .. Len(mutations) :
                            Stores(j) /\ p <= mutations[j].upto
      <4>1. \A q \in Copies : \A j \in done'[q] + 1 .. Len(mutations) : j \in 1..Len(mutations)
        BY <1>16
      <4> QED BY <1>6, <1>7, <1>13, <1>14, <2>0, <4>1 DEF SameMissing
    <3>1. StoredAt(q, p) = Missing /\ q # u
      BY <1>20
    <3>2. CASE StoredAt(u, p) # Missing
      <4>1. PICK j \in done[q] + 1 .. Len(mutations) : Stores(j) /\ p <= mutations[j].upto
        BY <1>1, <3>1, <3>2 DEF PartsInv, SameMissing
      <4>2. q = r => j # k
        BY <1>3, <1>20, <4>1 DEF Stores
      <4>3. j \in done'[q] + 1 .. Len(mutations)
        BY <1>1, <1>16, <4>2 DEF RowsType, k
      <4> QED BY <4>1, <4>3
    <3>3. CASE StoredAt(u, p) = Missing
      <4>1. u = r
        BY <1>10, <3>3 DEF StoredAt
      <4>2. Stores(k) /\ p <= mutations[k].upto
        BY <1>3, <1>20, <3>3, <4>1 DEF Stores
      <4>3. ~(k \in 1..done[q])
        BY <1>1, <3>1, <4>2 DEF PartsInv, StoredInv
      <4>4. k \in done'[q] + 1 .. Len(mutations)
        BY <1>1, <1>3, <1>4, <1>16, <3>1, <4>1, <4>3 DEF RowsType
      <4> QED BY <4>2, <4>4
    <3> QED BY <3>2, <3>3
  <2>4. DefaultInv'
    BY <1>1, <1>13, <1>14, <1>20, HereIsCopy DEF PartsInv, DefaultInv
  <2>5. MemoryInv'
    BY <1>1, <1>13, <1>14, <1>20, HereIsCopy DEF PartsInv, MemoryInv
  <2>6. AddInv'
    <3> SUFFICES ASSUME NEW i \in 1..Len(alters), NEW q \in Copies, alters[i].op = "add",
                        applied[q] < i, NEW p \in Parts, p <= alters[i].upto
                 PROVE  StoredAt(q, p)' = Missing
      BY <1>2, <1>13, <1>14 DEF AddInv
    <3>1. StoredAt(q, p) = Missing
      BY <1>1 DEF PartsInv, AddInv
    <3>2. q # r
      <4>1. i = 2 /\ ~alters[1].column.exists
        BY <1>1 DEF LogInv
      <4>2. m.after >= 2 /\ applied[r] >= m.after
        BY <1>2, <1>3, <4>1 DEF Ready, m
      <4>3. applied[q] \in Nat /\ applied[r] \in Nat /\ m.after \in Nat
        BY <1>1, <1>3 DEF AltersType, MutationType
      <4> QED BY <4>1, <4>2, <4>3
    <3> QED BY <1>10, <3>1, <3>2 DEF StoredAt
  <2>7. KeepInv'
    <3> SUFFICES ASSUME NEW i \in 2..Len(alters), NEW q \in Copies, ~alters[i].raced,
                        alters[i - 1].column.exists, applied[q] < i,
                        NEW p \in Parts, StoredAt(q, p)' = Missing
                 PROVE  Absent(alters[i].column) = Absent(alters[i - 1].column)
      BY <1>2, <1>13, <1>14 DEF KeepInv
    <3>1. StoredAt(q, p) = Missing
      BY <1>20
    <3> QED BY <1>1, <3>1 DEF PartsInv, KeepInv
  <2> QED BY <2>1, <2>2, <2>3, <2>4, <2>5, <2>6, <2>7 DEF PartsInv
<1>a. ASSUME NEW p \in Parts, p > m.upto \/ m.kind = "delete"
       PROVE  rows'[r][p].stored = rows[r][p].stored
  <2>1. rows[r][p] \in Row /\ p \in Nat
    BY <1>11
  <2>2. /\ p > m.upto => rows'[r][p] = rows[r][p]
        /\ m.kind = "delete" => rows'[r][p].stored = rows[r][p].stored
    BY <1>3, <1>10, <2>1, RowAfterCases
  <2> QED BY <1>a, <2>2
<1>23. NullInv'
  <2> SUFFICES ASSUME ~Current.nullable, NEW p \in Parts, StoredAt(Here, p)' = Null
               PROVE  \E j \in done'[Here] + 1 .. Len(mutations) :
                          mutations[j].kind = "convert" /\ p <= mutations[j].upto
    <3>1. \A j \in done'[Here] + 1 .. Len(mutations) : j \in 1..Len(mutations)
      BY <1>16, HereIsCopy
    <3> QED BY <1>6, <1>7, <1>13, <1>14, <3>1 DEF NullInv
  <2>1. CASE r # Here
    BY <1>1, <1>10, <1>16, <1>21, <2>1, HereIsCopy DEF PendingInv, NullInv, StoredAt
  <2>2. CASE r = Here
    <3>1. ColumnAt(r) = Current
      BY <1>1, <2>2, Columns
    <3>2. m.kind # "delete" => ~(p <= m.upto)
      <4>1. m.kind # "delete" /\ p <= m.upto => Rewritten(m, r, p).stored # Null
        BY <1>2, <3>1 DEF Fails
      <4>2. rows'[r][p] = Rewritten(m, r, p)
        BY <1>10
      <4> QED BY <2>2, <4>1, <4>2 DEF StoredAt
    <3>3. p \in Nat /\ m.upto \in Nat
      BY <1>3, <1>11 DEF MutationType
    <3>4. p > m.upto \/ m.kind = "delete"
      BY <3>2, <3>3
    <3>5. rows'[r][p].stored = rows[r][p].stored
      BY <1>a, <3>4
    <3>6. PICK j \in done[Here] + 1 .. Len(mutations) :
                 mutations[j].kind = "convert" /\ p <= mutations[j].upto
      BY <1>1, <1>21, <2>2, <3>5 DEF PendingInv, NullInv, StoredAt
    <3>7. j # k
      BY <1>3, <3>2, <3>6
    <3>8. j \in done'[Here] + 1 .. Len(mutations)
      BY <1>1, <1>16, <2>2, <3>6, <3>7 DEF RowsType, k
    <3> QED BY <3>6, <3>8
  <2> QED BY <2>1, <2>2
<1>24. CountInv'
  <2> SUFFICES ASSUME NEW i \in 1..Len(mutations), mutations[i].kind \in {"update", "delete"},
                      ~mutations[i].raced
               PROVE  IF i <= done'[Here] THEN mutations[i].count = mutations'[i].changed
                      ELSE mutations[i].count = Cardinality(Affected(mutations[i])')
    <3>1. \A i \in 1..Len(mutations) : Affected(mutations[i])' =
             {p \in Parts : /\ p <= mutations[i].upto
                            /\ ~rows'[Here][p].masked
                            /\ mutations[i].kind = "delete" =>
                                 Reads(StoredAt(Here, p)', Current) = mutations[i].value}
      BY <1>7, <1>13, <1>14 DEF Affected, StoredAt
    <3> QED BY <1>6, <1>7 DEF CountInv
  <2>0. IF i <= done[Here] THEN mutations[i].count = mutations[i].changed
        ELSE mutations[i].count = Cardinality(Affected(mutations[i]))
    BY <1>1 DEF PendingInv, CountInv
  <2>1. CASE r # Here
    <3>1. mutations'[i] = mutations[i] /\ done'[Here] = done[Here] /\ rows'[Here] = rows[Here]
      BY <1>6, <1>10, <1>16, <2>1, HereIsCopy
    <3>2. Affected(mutations[i])' = Affected(mutations[i])
      BY <1>13, <1>14, <3>1 DEF Affected, StoredAt
    <3> QED BY <2>0, <3>1, <3>2
  <2>2. CASE r = Here
    <3>0. done[Here] \in Nat /\ k = done[Here] + 1 /\ done'[Here] = k
      BY <1>1, <1>16, <2>2 DEF RowsType, k
    <3>1. CASE i < k
      <4>1. i <= done[Here] /\ i <= done'[Here] /\ i # k
        BY <3>0, <3>1
      <4> QED BY <1>6, <2>0, <4>1
    <3>2. CASE i = k
      <4>1. ~(i <= done[Here]) /\ i <= done'[Here]
        BY <3>0, <3>2
      <4>2. m.count = Cardinality(Affected(m))
        BY <1>3, <2>0, <3>2, <4>1
      <4>3. {p \in Visible(r) \cap Matching(r, m.kind, m.value) : p <= m.upto} = Affected(m)
        <5>1. \A p \in Parts : ReadAt(r, p) = Reads(StoredAt(Here, p), Current)
          BY <1>21, <2>2, HereReads
        <5> QED BY <2>2, <5>1 DEF Visible, Matching, Affected
      <4>4. changed = Cardinality(Affected(m))
        BY <4>3 DEF changed
      <4>5. mutations'[k].changed = changed
        <5>1. mutations'[k] = [m EXCEPT !.changed = changed]
          BY <1>6, <2>2
        <5> QED BY <1>3, <5>1 DEF MutationType
      <4> QED BY <1>3, <3>2, <4>1, <4>2, <4>4, <4>5
    <3>3. CASE i > k
      <4>1. done[Here] >= i - 1
        BY <1>1, HereIsCopy DEF PendingInv, UnracedInv
      <4> QED BY <3>0, <3>3, <4>1
    <3>4. i < k \/ i = k \/ i > k
      BY <3>0
    <3> QED BY <3>1, <3>2, <3>3, <3>4
  <2> QED BY <2>1, <2>2
<1>25. \A i \in 1..Len(mutations) : \A p, row, column :
         RowAfter(mutations'[i], p, row, column) = RowAfter(mutations[i], p, row, column)
  BY <1>7, RowAfterSame
<1>26. UnracedInv'
  <2> SUFFICES ASSUME NEW i \in 1..Len(mutations), ~mutations[i].raced, NEW q \in Copies
               PROVE  /\ done'[q] >= i - 1
                      /\ done'[q] < i /\ mutations[i].after = Len(alters) /\ (q = Here \/ ~EverRaced) =>
                           Passes(mutations[i], q)'
    BY <1>6, <1>7, <1>14, <1>15 DEF UnracedInv
  <2>1. done[q] >= i - 1 /\ done[q] \in Nat
    BY <1>1 DEF PendingInv, UnracedInv, RowsType
  <2>2. done'[q] >= i - 1
    BY <1>16, <2>1
  <2>3. CASE q = r
    <3>1. ~(done'[q] < i)
      BY <1>16, <2>1, <2>3 DEF k
    <3> QED BY <2>2, <3>1
  <2>4. CASE q # r
    <3>1. done'[q] = done[q] /\ rows'[q] = rows[q]
      BY <1>10, <1>16, <2>4
    <3>2. done'[q] < i /\ mutations[i].after = Len(alters) /\ (q = Here \/ ~EverRaced) =>
            Passes(mutations[i], q)
      BY <1>1, <3>1 DEF PendingInv, UnracedInv
    <3>3. Passes(mutations[i], q) => Passes(mutations[i], q)'
      <4>1. \A p : RowAfter(mutations'[i], p, rows'[q][p], Current') =
                    RowAfter(mutations[i], p, rows[q][p], Current)
        BY <1>14, <1>25, <3>1
      <4>2. /\ mutations'[i].kind = mutations[i].kind /\ mutations'[i].upto = mutations[i].upto
            /\ Parts' = Parts /\ Current' = Current
        BY <1>7, <1>13, <1>14
      <4> QED BY <4>1, <4>2, Zenon DEF Passes
    <3> QED BY <2>2, <3>2, <3>3
  <2> QED BY <2>3, <2>4
<1>27. ReplicasInv'
  <2> DEFINE L == Len(mutations)
  <2> SUFFICES ASSUME ~EverRaced, NEW q \in Copies
               PROVE  /\ done'[q] < L => mutations'[L].after = Len(alters)
                      /\ \A p \in Parts : Final(q, p)' = Final(Here, p)'
    BY <1>6, <1>13, <1>14, <1>15 DEF ReplicasInv
  <2>0. L \in 1..Len(mutations) /\ L \in Nat
    BY <1>3, <1>4
  <2>1. ~mutations[L].raced
    <3>1. L \in DOMAIN mutations
      BY <1>1, <2>0 DEF RowsType
    <3> QED BY <3>1 DEF EverRaced
  <2>2. k = L /\ done[r] < L /\ done[r] # L
    <3>1. done[r] >= L - 1 /\ done[r] \in Nat
      BY <1>1, <2>0, <2>1 DEF PendingInv, UnracedInv, RowsType
    <3> QED BY <1>3, <2>0, <3>1 DEF k
  <2>3. mutations[L].after = Len(alters) /\ \A u \in Copies, p \in Parts : Final(u, p) = Final(Here, p)
    BY <1>1, <2>2 DEF PendingInv, ReplicasInv
  <2>4. ColumnAt(r) = Current
    <3>1. applied[r] >= Len(alters)
      BY <1>2, <1>3, <2>2, <2>3 DEF Ready, m
    <3>2. applied[r] = Len(alters)
      BY <1>1, <3>1, Columns, Lengths
    <3> QED BY <3>2 DEF ColumnAt, Current
  <2>5. ASSUME NEW u \in Copies, NEW p \in Parts
        PROVE  Final(u, p)' = Final(u, p)
    <3>1. CASE u = r
      <4>1. Final(u, p)' = rows'[r][p]
        BY <1>6, <1>16, <2>2, <3>1 DEF Final
      <4>2. Final(u, p) = RowAfter(mutations[L], p, rows[r][p], Current)
        BY <2>2, <3>1 DEF Final
      <4> QED BY <1>3, <1>10, <2>2, <2>4, <4>1, <4>2
    <3>2. CASE u # r
      <4>1. done'[u] = done[u] /\ rows'[u] = rows[u]
        BY <1>10, <1>16, <3>2
      <4>2. RowAfter(mutations'[L], p, rows[u][p], Current) = RowAfter(mutations[L], p, rows[u][p], Current)
        BY <1>25, <2>0
      <4> QED BY <1>6, <1>14, <4>1, <4>2 DEF Final
    <3> QED BY <3>1, <3>2
  <2>6. mutations'[L].after = Len(alters)
    BY <1>7, <2>0, <2>3
  <2> QED BY <2>3, <2>5, <2>6, HereIsCopy
<1>28. ASSUME NEW y \in Active, Good(y)
       PROVE  Good(y)'
  <2>1. StepInv(y)'
    BY <1>14, <1>28 DEF Good, StepInv, Materializes
  <2>2. SeenInv(y)'
    BY <1>6, <1>14, <1>28 DEF Good, SeenInv, LoadedColumn, Origin, N
  <2>3. CheckedInv(y)'
    BY <1>13, <1>14, <1>20, <1>28, HereIsCopy DEF Good, CheckedInv
  <2>4. AloneInv(y)'
    <3>1. Version' = Version
      BY <1>6, <1>14 DEF Version, N
    <3>2. CASE ~(y.settled /\ y.seen = Version)
      BY <3>1, <3>2 DEF AloneInv
    <3>3. CASE y.settled /\ y.seen = Version
      <4>1. AloneInv(y) /\ StepInv(y)
        BY <1>28 DEF Good
      <4>2. ~Settled
        <5>1. done[r] # Len(mutations)
          BY <1>1, <1>2 DEF Ready, RowsType
        <5> QED BY <5>1 DEF Settled
      <4>3. /\ y.pc = "wait" /\ y.mutation = Len(mutations)
            /\ \A q \in Copies : applied[q] = Len(alters)
        BY <3>3, <4>1, <4>2 DEF AloneInv
      <4> QED BY <1>2, <1>6, <1>14, <4>3 DEF AloneInv
    <3> QED BY <3>2, <3>3
  <2> QED BY <2>1, <2>2, <2>3, <2>4 DEF Good
<1>29. SessionsType' /\ \A t \in Sessions : SessionInv(t)'
  BY <1>2, <1>28, SessionsSame
<1> QED BY <1>17, <1>18, <1>19, <1>22, <1>23, <1>24, <1>26, <1>27, <1>29 DEF Inv, TypeInv, PendingInv

\* Likewise where it moves one session on to z.
LEMMA SessionMoves ==
    ASSUME Inv, NEW s \in Sessions, NEW z \in Active, sessions' = [sessions EXCEPT ![s] = z],
           Good(z)', \A y \in Active : Good(y) => Good(y)'
    PROVE  SessionsType' /\ \A t \in Sessions : SessionInv(t)'
<1>1. SessionsType'
  BY DEF Inv, TypeInv, SessionsType
<1>2. ASSUME NEW t \in Sessions
      PROVE  SessionInv(t)'
  <2>1. CASE t = s
    <3>1. sessions'[t] = z
      BY <2>1 DEF Inv, TypeInv, SessionsType
    <3> QED BY <3>1, ZenonT(60) DEF Good, SessionInv, StepInv, SeenInv, CheckedInv, AloneInv,
                        LoadedColumn, Materializes, AffectedBy
  <2>2. CASE t # s
    <3>1. sessions'[t] = sessions[t]
      BY <2>2 DEF Inv, TypeInv, SessionsType
    <3> QED BY <3>1, OthersKept
  <2> QED BY <2>1, <2>2
<1> QED BY <1>1, <1>2

\* A statement that is not raced knows that nothing is under way.
LEMMA NotRaced ==
    ASSUME Inv, NEW s \in Sessions, ~At(s, "idle"), ~At(s, "wait"), ~Raced(s)
    PROVE  /\ sessions[s].settled /\ sessions[s].seen = Version
           /\ \A r \in Copies : done[r] = Len(mutations) /\ applied[r] = Len(alters)
<1>1. sessions[s].settled /\ sessions[s].seen = Version
  BY DEF Raced
<1>2. Settled
  BY <1>1, ActiveFacts DEF AloneInv, At
<1> QED BY <1>1, <1>2 DEF Settled

\* Where nothing is under way and no statement was raced, replicas are equal.
LEMMA SettledEqual ==
    ASSUME Inv, ~EverRaced, \A r \in Copies : done[r] = Len(mutations)
    PROVE  \A r \in Copies, p \in Parts : rows[r][p] = rows[Here][p]
BY HereIsCopy DEF Inv, PendingInv, ReplicasInv, Final

\* Where nothing is under way, a NOT NULL column reads as NULL nowhere.
LEMMA SettledNotNull ==
    ASSUME Inv, Current.exists, ~Current.nullable, done[Here] = Len(mutations)
    PROVE  \A p \in Parts : Reads(StoredAt(Here, p), Current) # Null
<1>1. \A p \in Parts : StoredAt(Here, p) # Null
  BY Lengths DEF Inv, PendingInv, NullInv
<1>2. Current.default_kind # "" => Current.default # Null
  BY Lengths DEF Inv, LogInv, Current
<1>3. Absent(Current) # Null
  BY <1>2 DEF Absent, Null
<1> QED BY <1>1, <1>3 DEF Reads

LEMMA NewMutation ==
    ASSUME Inv, NEW s \in Sessions, ~At(s, "idle"), NEW kind \in Kinds, NEW after \in Nat
    PROVE  LET n == Mutation(s, kind, after) IN
           /\ n \in MutationType /\ n.kind = kind /\ n.upto = Len(rows[Here]) /\ n.after = after
           /\ n.raced = Raced(s) /\ n.count = sessions[s].count
           /\ kind \in {"update", "delete"} => n.value = sessions[s].arg
<1> DEFINE value == IF kind \in {"update", "delete"} THEN sessions[s].arg ELSE Null
<1>1. sessions[s] \in Active
  BY ActiveFacts
<1>2. value \in Arguments /\ sessions[s].count \in Nat
  BY <1>1 DEF Active, Arguments
<1>3. Raced(s) \in BOOLEAN
  BY DEF Raced
<1>4. Len(rows[Here]) \in Nat
  BY Lengths DEF Inv
<1>5. Mutation(s, kind, after) =
        [kind |-> kind, value |-> value, upto |-> Len(rows[Here]), after |-> after,
         raced |-> Raced(s), count |-> sessions[s].count, changed |-> 0]
  BY DEF Mutation
<1>6. kind \in {"update", "delete"} => value = sessions[s].arg
  OBVIOUS
<1> HIDE DEF value
<1> QED BY <1>2, <1>3, <1>4, <1>5, <1>6 DEF MutationType

\* A mutation that session s sends once it has checked what it has to.
LEMMA SendKeeps ==
    ASSUME Inv, NEW s \in Sessions, NEW kind \in {"store", "update", "delete"},
           kind = "store" => At(s, "store"),
           kind # "store" => At(s, "execute") /\ sessions[s].op = kind,
           mutations' = Append(mutations, Mutation(s, kind, Len(alters))),
           UNCHANGED <<engine, alters, applied, done, rows>>
    PROVE  /\ AltersType' /\ RowsType' /\ LogInv' /\ MutationsInv' /\ PartsInv' /\ PendingInv'
           /\ \A y \in Active : Good(y) => Good(y)'
<1> DEFINE x == sessions[s]
           n == Mutation(s, kind, Len(alters))
           M == Len(mutations)
           N == Len(rows[Here])
<1>1. /\ TypeInv /\ AltersType /\ RowsType /\ LogInv /\ MutationsInv /\ PartsInv /\ PendingInv
  BY DEF Inv, TypeInv
<1>2. ~At(s, "idle") /\ ~At(s, "wait")
  BY DEF At
<1>3. StepInv(x) /\ SeenInv(x) /\ AloneInv(x)
  BY <1>2, ActiveFacts
<1>4. Current.exists
  <2>1. x.op # "add"
    BY <1>3 DEF StepInv, At, DefaultOps
  <2> QED BY <1>3, <2>1 DEF SeenInv
<1>5. /\ n \in MutationType /\ n.kind = kind /\ n.upto = N /\ n.after = Len(alters)
      /\ n.raced = Raced(s) /\ n.count = x.count
      /\ kind \in {"update", "delete"} => n.value = x.arg
  <2>1. Len(alters) \in Nat /\ kind \in Kinds
    BY <1>1, Lengths DEF Kinds
  <2> HIDE DEF n
  <2> QED BY <1>2, <2>1, NewMutation DEF n
<1>6. ~n.raced => /\ x.settled /\ x.seen = Version
                  /\ \A r \in Copies : done[r] = M /\ applied[r] = Len(alters)
  BY <1>2, <1>5, NotRaced
<1> HIDE DEF n, x
<1>7. M \in Nat /\ N \in Nat /\ Parts = 1..N /\ Len(alters) \in 1..Len(alters)
  BY <1>1, Lengths
<1>8. /\ mutations' \in Seq(MutationType) /\ Len(mutations') = M + 1
      /\ \A j \in 1..M : mutations'[j] = mutations[j]
      /\ mutations'[M + 1] = n
  BY <1>1, <1>5, <1>7 DEF RowsType, n
<1>9. \A j \in 1..M + 1 : j \in 1..M \/ j = M + 1
  BY <1>7
<1>10. /\ Copies' = Copies /\ Current' = Current /\ MergeTree' = MergeTree /\ Parts' = Parts
       /\ Replicated' = Replicated
  BY DEF Copies, Current, MergeTree, Replicated, Parts
<1>11. \A r \in Copies : done[r] \in Nat /\ done[r] <= M
  BY <1>1 DEF RowsType
<1>12. EverRaced' <=> EverRaced \/ n.raced
  <2>1. DOMAIN mutations = 1..M /\ DOMAIN mutations' = 1..M + 1
    BY <1>1, <1>8 DEF RowsType
  <2>2. 1..M \subseteq 1..M + 1 /\ M + 1 \in 1..M + 1
    BY <1>7
  <2> QED BY <1>8, <1>9, <2>1, <2>2 DEF EverRaced
<1> HIDE DEF M, N
<1>13. AltersType' /\ LogInv'
  BY <1>1, <1>10 DEF AltersType, LogInv, Origin
<1>14. RowsType'
  <2>1. \A r \in Copies : done[r] <= Len(mutations')
    BY <1>7, <1>8, <1>11
  <2> QED BY <1>1, <1>8, <1>10, <2>1 DEF RowsType
<1>15. MutationsInv'
  <2>1. \A j \in 1..M : /\ 1 <= mutations[j].after /\ mutations[j].after <= Len(alters)
                        /\ alters[mutations[j].after].column.exists
                        /\ mutations[j].upto <= N
    BY <1>1 DEF MutationsInv, M, N
  <2>2. 1 <= n.after /\ n.after <= Len(alters) /\ n.upto <= N
    BY <1>5, <1>7
  <2>3. alters[n.after].column.exists
    BY <1>4, <1>5 DEF Current
  <2>4. \A i \in 1..Len(alters) : alters[i].upto <= N
    BY <1>1 DEF MutationsInv, N
  <2>5. ASSUME NEW j \in 1..M + 1
        PROVE  /\ 1 <= mutations'[j].after /\ mutations'[j].after <= Len(alters)
               /\ alters[mutations'[j].after].column.exists
               /\ mutations'[j].upto <= N
    <3>1. CASE j \in 1..M
      BY <1>8, <2>1, <3>1
    <3>2. CASE j = M + 1
      BY <1>8, <2>2, <2>3, <3>2
    <3> QED BY <1>9, <3>1, <3>2
  <2> QED BY <1>8, <2>4, <2>5 DEF MutationsInv, N
<1>16. PartsInv'
  <2>0. \A j \in 1..M : Stores(j)' <=> Stores(j)
    BY <1>8 DEF Stores
  <2>1. NothingInv'
    BY <1>4, <1>10 DEF NothingInv
  <2>2. StoredInv'
    <3>1. \A r \in Copies : \A j \in 1..done[r] : j \in 1..M
      BY <1>7, <1>11
    <3> QED BY <1>1, <1>8, <1>10, <2>0, <3>1 DEF PartsInv, StoredInv, StoredAt
  <2>3. SameMissing'
    <3> SUFFICES ASSUME NEW r \in Copies', NEW q \in Copies', NEW p \in Parts',
                        StoredAt(r, p)' = Missing, StoredAt(q, p)' # Missing
                 PROVE  \E j \in done'[r] + 1 .. Len(mutations') :
                            Stores(j)' /\ p <= mutations'[j].upto
      BY DEF SameMissing
    <3>0. r \in Copies /\ q \in Copies /\ p \in Parts /\ done'[r] = done[r]
      BY <1>10
    <3>1. PICK j \in done[r] + 1 .. M : Stores(j) /\ p <= mutations[j].upto
      BY <1>1, <3>0 DEF PartsInv, SameMissing, StoredAt, M
    <3>2. done[r] \in Nat /\ M \in Nat
      BY <1>7, <1>11, <3>0
    <3>3. j \in 1..M /\ j \in done'[r] + 1 .. Len(mutations')
      BY <1>8, <3>0, <3>2
    <3> QED BY <1>8, <2>0, <3>1, <3>3
  <2>4. DefaultInv' /\ MemoryInv' /\ AddInv' /\ KeepInv'
    <3>1. alters' = alters /\ applied' = applied /\ rows' = rows
      OBVIOUS
    <3>2. DefaultInv' /\ MemoryInv'
      BY <1>1, <1>10, <3>1 DEF PartsInv, DefaultInv, MemoryInv, StoredAt
    <3>3. AddInv' /\ KeepInv'
      BY <1>1, <1>10, <3>1 DEF PartsInv, AddInv, KeepInv, StoredAt
    <3> QED BY <3>2, <3>3
  <2> QED BY <2>1, <2>2, <2>3, <2>4 DEF PartsInv
<1>17. NullInv'
  <2> SUFFICES ASSUME ~Current.nullable, NEW p \in Parts, StoredAt(Here, p) = Null
               PROVE  \E j \in done[Here] + 1 .. M + 1 :
                          mutations'[j].kind = "convert" /\ p <= mutations'[j].upto
    BY <1>8, <1>10 DEF NullInv, StoredAt
  <2>1. PICK j \in done[Here] + 1 .. M : mutations[j].kind = "convert" /\ p <= mutations[j].upto
    BY <1>1, <1>4 DEF PendingInv, NullInv, M
  <2>2. done[Here] \in Nat /\ M \in Nat
    BY <1>7, <1>11, HereIsCopy
  <2>3. j \in 1..M /\ j \in done[Here] + 1 .. M + 1
    BY <2>2
  <2> QED BY <1>8, <2>1, <2>3
<1>18. CountInv'
  <2>1. \A j \in 1..M : Affected(mutations[j])' = Affected(mutations[j])
    BY <1>8, <1>10 DEF Affected, StoredAt
  <2>2. ASSUME NEW i \in 1..M + 1, mutations'[i].kind \in {"update", "delete"}, ~mutations'[i].raced
        PROVE  IF i <= done[Here] THEN mutations'[i].count = mutations'[i].changed
               ELSE mutations'[i].count = Cardinality(Affected(mutations[i])')
    <3>1. CASE i \in 1..M
      <4>1. mutations'[i] = mutations[i] /\ Affected(mutations[i])' = Affected(mutations[i])
        BY <1>8, <2>1, <3>1
      <4>2. IF i <= done[Here] THEN mutations[i].count = mutations[i].changed
            ELSE mutations[i].count = Cardinality(Affected(mutations[i]))
        BY <1>1, <2>2, <3>1, <4>1 DEF PendingInv, CountInv, M
      <4> QED BY <4>1, <4>2
    <3>2. CASE i = M + 1
      <4>1. mutations'[i] = n /\ kind \in {"update", "delete"} /\ ~n.raced
        BY <1>5, <1>8, <2>2, <3>2
      <4>2. ~(i <= done[Here])
        BY <1>7, <1>11, <3>2, HereIsCopy
      <4>3. x.pc = "execute" /\ x.op = kind /\ x.settled /\ x.seen = Version
        BY <1>6, <4>1 DEF At, x
      <4>4. x.count = Cardinality(AffectedBy(x))
        BY <1>3, <4>3 DEF AloneInv
      <4>5. Affected(mutations[i])' = AffectedBy(x)
        <5>1. n.value = x.arg /\ n.kind = x.op /\ n.upto = N
          BY <1>5, <4>1, <4>3
        <5>2. \A p \in Parts : p <= N
          BY <1>7
        <5> QED BY <1>10, <4>1, <5>1, <5>2 DEF Affected, AffectedBy, StoredAt
      <4> QED BY <1>5, <4>1, <4>2, <4>4, <4>5
    <3> QED BY <1>9, <3>1, <3>2
  <2> QED BY <1>8, <2>2 DEF CountInv
\* A mutation that was not raced passes the checks its statement made.
<1>19. ASSUME ~n.raced, NEW r \in Copies, r = Here \/ ~EverRaced, kind # "delete",
              ~Current.nullable, NEW p \in Parts
       PROVE  RowAfter(n, p, rows[r][p], Current).stored # Null
  <2>1. rows[r][p] = rows[Here][p]
    BY <1>6, <1>19, SettledEqual DEF M
  <2>2. rows[Here][p] \in Row /\ p \in Nat /\ p <= n.upto
    BY <1>1, <1>5, <1>7, HereIsCopy DEF RowsType, N
  <2>3. Current \in Column
    BY <1>1, Columns
  <2>4. CASE kind = "store"
    <3>1. RowAfter(n, p, rows[Here][p], Current).stored = Reads(StoredAt(Here, p), Current)
      BY <1>5, <2>2, <2>3, <2>4, RowAfterCases, SMTT(30) DEF StoredAt
    <3>2. Reads(StoredAt(Here, p), Current) # Null
      BY <1>4, <1>6, <1>19, SettledNotNull, HereIsCopy DEF M
    <3> QED BY <2>1, <3>1, <3>2
  <2>5. CASE kind = "update"
    <3>1. RowAfter(n, p, rows[Here][p], Current).stored =
            NullIf(Reads(StoredAt(Here, p), Current), x.arg)
      BY <1>5, <2>2, <2>3, <2>5, RowAfterCases DEF StoredAt
    <3>2. x.pc = "execute" /\ x.op = "update"
      BY <2>5 DEF At, x
    <3>3. NullIf(Reads(StoredAt(Here, p), Current), x.arg) # Null
      BY <1>3, <1>6, <1>19, <3>2 DEF AloneInv
    <3> QED BY <2>1, <3>1, <3>3
  <2> QED BY <1>19, <2>4, <2>5
<1>20. UnracedInv'
  <2> SUFFICES ASSUME NEW i \in 1..M + 1, ~mutations'[i].raced, NEW r \in Copies
               PROVE  /\ done[r] >= i - 1
                      /\ done[r] < i /\ mutations'[i].after = Len(alters) /\ (r = Here \/ ~EverRaced') =>
                           Passes(mutations[i], r)'
    BY <1>8, <1>10 DEF UnracedInv
  <2>1. CASE i \in 1..M
    <3>1. mutations'[i] = mutations[i]
      BY <1>8, <2>1
    <3>2. /\ done[r] >= i - 1
          /\ done[r] < i /\ mutations[i].after = Len(alters) /\ (r = Here \/ ~EverRaced) =>
               Passes(mutations[i], r)
      BY <1>1, <2>1, <3>1 DEF PendingInv, UnracedInv, M
    <3>3. Passes(mutations[i], r) => Passes(mutations[i], r)'
      BY <1>10, <3>1 DEF Passes
    <3> QED BY <1>12, <3>1, <3>2, <3>3
  <2>2. CASE i = M + 1
    <3>1. mutations'[i] = n
      BY <1>8, <2>2
    <3>2. done[r] >= i - 1
      BY <1>6, <1>7, <2>2, <3>1
    <3>3. (r = Here \/ ~EverRaced') => r = Here \/ ~EverRaced
      BY <1>12
    <3>4. r = Here \/ ~EverRaced' => Passes(mutations[i], r)'
      BY <1>5, <1>10, <1>19, <3>1, <3>3 DEF Passes
    <3> QED BY <3>2, <3>4
  <2> QED BY <1>9, <2>1, <2>2
<1>21. ReplicasInv'
  <2> SUFFICES ASSUME ~EverRaced', NEW r \in Copies
               PROVE  /\ mutations'[M + 1].after = Len(alters)
                      /\ \A p \in Parts : Final(r, p)' = Final(Here, p)'
    BY <1>8, <1>10 DEF ReplicasInv
  <2>1. ~EverRaced /\ ~n.raced
    BY <1>12
  <2>2. mutations'[M + 1].after = Len(alters)
    BY <1>5, <1>8
  <2>3. ASSUME NEW q \in Copies, NEW p \in Parts
        PROVE  Final(q, p)' = RowAfter(n, p, rows[Here][p], Current)
    <3>1. done[q] # M + 1
      BY <1>7, <1>11
    <3>2. rows[q][p] = rows[Here][p]
      BY <1>6, <2>1, SettledEqual DEF M
    <3> QED BY <1>8, <1>10, <3>1, <3>2 DEF Final
  <2> QED BY <2>2, <2>3, HereIsCopy
<1>22. ASSUME NEW y \in Active, Good(y)
       PROVE  Good(y)'
  <2>1. StepInv(y)'
    BY <1>10, <1>22 DEF Good, StepInv, Materializes
  <2>2. y.seen[2] \in Nat /\ y.seen[2] <= M
    BY <1>22 DEF Good, SeenInv, Active, M
  <2>3. SeenInv(y)'
    <3>1. y.seen[2] <= Len(mutations')
      BY <1>7, <1>8, <2>2
    <3> QED BY <1>10, <1>22, <3>1 DEF Good, SeenInv, LoadedColumn, Origin
  <2>4. CheckedInv(y)'
    BY <1>10, <1>22 DEF Good, CheckedInv, StoredAt
  <2>5. AloneInv(y)'
    <3>1. Version'[2] = M + 1
      BY <1>8 DEF Version
    <3>2. y.seen # Version'
      BY <1>7, <2>2, <3>1
    <3> QED BY <3>2, AloneVacuous
  <2> QED BY <2>1, <2>3, <2>4, <2>5 DEF Good
<1> QED BY <1>13, <1>14, <1>15, <1>16, <1>17, <1>18, <1>20, <1>21, <1>22 DEF PendingInv

LEMMA ExecuteInv ==
    ASSUME Inv, NEW s \in Sessions, Execute(s)
    PROVE  Inv'
<1> DEFINE kind == sessions[s].op
<1>1. At(s, "execute") /\ ~At(s, "idle")
  BY DEF Execute, At
<1>2. kind \in {"update", "delete"}
  BY <1>1, ActiveFacts DEF StepInv, At
<1>3. /\ mutations' = Append(mutations, Mutation(s, kind, Len(alters)))
      /\ UNCHANGED <<engine, alters, applied, done, rows>>
  BY DEF Execute, Send
<1>4. sessions' = [sessions EXCEPT ![s] = Idle]
  BY DEF Execute, Goto
<1> DEFINE Kept == /\ AltersType' /\ RowsType' /\ LogInv' /\ MutationsInv' /\ PartsInv' /\ PendingInv'
                   /\ \A y \in Active : Good(y) => Good(y)'
<1>5. ASSUME NEW k \in {"update", "delete"}, k = kind
      PROVE  Kept
  <2>1. mutations' = Append(mutations, Mutation(s, k, Len(alters)))
    BY <1>3, <1>5
  <2>2. k \in {"store", "update", "delete"} /\ k # "store" /\ sessions[s].op = k
    BY <1>5
  <2> HIDE DEF kind
  <2> QED BY <1>1, <1>3, <2>1, <2>2, SendKeeps
<1>6. Kept
  BY <1>2, <1>5
<1>7. SessionsType' /\ \A t \in Sessions : SessionInv(t)'
  BY <1>4, <1>6, SessionEnds
<1> QED BY <1>6, <1>7 DEF Inv, TypeInv

LEMMA StoreInv ==
    ASSUME Inv, NEW s \in Sessions, StoreInEveryPart(s)
    PROVE  Inv'
<1> DEFINE M == Len(mutations)
<1>1. At(s, "store") /\ ~At(s, "idle") /\ ~At(s, "wait")
  BY DEF StoreInEveryPart, At
<1>2. PICK x \in Active : x = sessions[s]
  BY <1>1, ActiveFacts
<1>3. x.pc = "store" /\ StepInv(x) /\ SeenInv(x) /\ AloneInv(x)
  BY <1>1, <1>2, ActiveFacts DEF At
<1>4. /\ mutations' = Append(mutations, Mutation(s, "store", Len(alters)))
      /\ UNCHANGED <<engine, alters, applied, done, rows>>
  BY DEF StoreInEveryPart, Send
<1>5. /\ AltersType' /\ RowsType' /\ LogInv' /\ MutationsInv' /\ PartsInv' /\ PendingInv'
      /\ \A y \in Active : Good(y) => Good(y)'
  BY <1>1, <1>4, SendKeeps
<1>6. M \in Nat /\ Len(mutations') = M + 1
  BY <1>4, Lengths DEF Inv, TypeInv, RowsType
<1>7. PICK z : z = [x EXCEPT !.pc = "wait", !.mutation = M + 1,
                             !.seen = <<x.seen[1], x.seen[2] + 1, x.seen[3]>>]
  OBVIOUS
<1>8. sessions' = [sessions EXCEPT ![s] = z]
  <2>1. sessions' = [sessions EXCEPT ![s] =
            [sessions[s] EXCEPT !.pc = "wait", !.mutation = Len(mutations'),
                                !.seen = <<sessions[s].seen[1], sessions[s].seen[2] + 1,
                                           sessions[s].seen[3]>>]]
    BY DEF StoreInEveryPart
  <2> QED BY <1>2, <1>6, <1>7, <2>1
<1>9. x.seen \in Nat \X Nat \X Nat
  BY DEF Active
<1>10. /\ z \in Active /\ z.pc = "wait" /\ z.op = x.op /\ z.arg = x.arg /\ z.sync = x.sync
       /\ z.settled = x.settled /\ z.mutation = M + 1
       /\ z.seen = <<x.seen[1], x.seen[2] + 1, x.seen[3]>>
  <2>0. x.seen[1] \in Nat /\ x.seen[2] + 1 \in Nat /\ x.seen[3] \in Nat
    BY <1>9
  <2>1. PICK v \in Nat \X Nat \X Nat : v = <<x.seen[1], x.seen[2] + 1, x.seen[3]>>
    <3>1. <<x.seen[1], x.seen[2] + 1, x.seen[3]>> \in Nat \X Nat \X Nat
      BY <2>0
    <3> QED BY <3>1, Zenon
  <2>2. PICK k \in Nat : k = M + 1
    BY <1>6
  <2>3. z = [x EXCEPT !.pc = "wait", !.mutation = k, !.seen = v]
    BY <1>7, <2>1, <2>2
  <2>4. "wait" \in Steps
    BY DEF Steps
  <2> HIDE DEF Steps
  <2> QED BY <2>1, <2>2, <2>3, <2>4 DEF Active
<1> HIDE DEF M
<1>11. z.seen[1] = x.seen[1] /\ z.seen[2] = x.seen[2] + 1 /\ z.seen[3] = x.seen[3]
  BY <1>10
<1>12. /\ Copies' = Copies /\ Current' = Current /\ MergeTree' = MergeTree
       /\ Replicated' = Replicated
  BY <1>4 DEF Copies, Current, MergeTree, Replicated
<1>13. x.op \in DefaultOps /\ Materializes(x)
  BY <1>3 DEF StepInv
<1>14. StepInv(z)'
  <2>1. Materializes(z)'
    BY <1>10, <1>12, <1>13 DEF Materializes
  <2> QED BY <1>3, <1>10, <1>13, <2>1 DEF StepInv, DefaultOps
<1>15. SeenInv(z)'
  <2>1. z.seen[2] <= Len(mutations')
    BY <1>3, <1>6, <1>9, <1>11 DEF SeenInv, M
  <2> QED BY <1>3, <1>4, <1>10, <1>11, <1>12, <2>1 DEF SeenInv, LoadedColumn, Origin
<1>16. CheckedInv(z)'
  BY <1>10 DEF CheckedInv
<1>17. AloneInv(z)'
  <2>1. z.op \notin {"add", "set not null", "update"}
    BY <1>10, <1>13 DEF DefaultOps
  <2>2. ASSUME z.settled, z.seen = Version'
        PROVE  z.mutation = Len(mutations') /\ \A r \in Copies : applied[r] = Len(alters)
    <3>1. Version' = <<Len(rows[Here]), M + 1, Len(alters)>>
      BY <1>4, <1>6 DEF Version
    <3>2. x.seen[1] = Len(rows[Here]) /\ x.seen[2] = M /\ x.seen[3] = Len(alters)
      BY <1>6, <1>9, <1>11, <2>2, <3>1
    <3>3. x.seen = Version
      BY <1>9, <3>2 DEF Version, M
    <3>4. Settled
      BY <1>3, <1>10, <2>2, <3>3 DEF AloneInv
    <3> QED BY <1>6, <1>10, <3>4 DEF Settled
  <2> QED BY <1>4, <1>10, <1>12, <2>1, <2>2 DEF AloneInv
<1>18. Good(z)'
  BY <1>14, <1>15, <1>16, <1>17 DEF Good
<1>19. SessionsType' /\ \A t \in Sessions : SessionInv(t)'
  BY <1>5, <1>8, <1>10, <1>18, SessionMoves
<1> QED BY <1>5, <1>19 DEF Inv, TypeInv

-----------------------------------------------------------------------------
(* ALTER.                                                                  *)

ConvertOps == {"set not null", "drop not null", "type"}

\* Column c is what session x makes of a column that it loaded as `loaded`.
AlterOf(c, x, column, loaded) ==
    /\ x.op = "set default" => c = [column EXCEPT !.default_kind = "DEFAULT", !.default = x.arg]
    /\ x.op = "drop default" => c = [column EXCEPT !.default_kind = "", !.default = Null]
    /\ x.op \in {"set not null", "drop not null"} =>
         c = [column EXCEPT !.type = loaded.type, !.nullable = (x.op = "drop not null")]
    /\ x.op = "type" => c = [column EXCEPT !.type = x.arg, !.nullable = loaded.nullable]

AlterResult(c, x, column, loaded) ==
    /\ c.exists = column.exists
    /\ x.op = "set default" => c.default_kind = "DEFAULT" /\ c.default = x.arg
    /\ x.op = "drop default" => c.default_kind = "" /\ c.default = Null
    /\ x.op \in ConvertOps => c.default_kind = column.default_kind /\ c.default = column.default
    /\ x.op \in DefaultOps => c.type = column.type /\ c.nullable = column.nullable
    /\ x.op \in {"set not null", "drop not null"} => c.type = loaded.type
    /\ x.op = "set not null" => c.nullable = FALSE
    /\ x.op = "drop not null" => c.nullable = TRUE
    /\ x.op = "type" => c.type = x.arg /\ c.nullable = loaded.nullable

LEMMA AlteredColumn ==
    ASSUME NEW column \in Column, NEW loaded \in Column, NEW x \in Active, StepInv(x),
           NEW c, x.op \in AlterOps, x.op # "add", AlterOf(c, x, column, loaded)
    PROVE  c \in Column /\ AlterResult(c, x, column, loaded)
<1> USE DEF DefaultOps, ConvertOps, AlterOf, AlterResult
<1>1. CASE x.op = "set default"
  <2>1. c = [column EXCEPT !.default_kind = "DEFAULT", !.default = x.arg]
    BY <1>1
  <2>2. x.arg \in Values
    BY <1>1 DEF StepInv
  <2>3. c \in Column
    <3>1. PICK text \in DefaultKinds : text = "DEFAULT"
      BY DEF DefaultKinds
    <3>2. PICK value \in Values \cup {Null} : value = x.arg
      BY <2>2
    <3>3. c = [column EXCEPT !.default_kind = text, !.default = value]
      BY <2>1, <3>1, <3>2
    <3> QED BY <3>3 DEF Column
  <2>4. /\ c.exists = column.exists /\ c.type = column.type /\ c.nullable = column.nullable
        /\ c.default_kind = "DEFAULT" /\ c.default = x.arg
    BY <2>1 DEF Column
  <2> QED BY <1>1, <2>3, <2>4
<1>2. CASE x.op = "drop default"
  <2>1. c = [column EXCEPT !.default_kind = "", !.default = Null]
    BY <1>2
  <2>3. c \in Column
    <3>1. PICK text \in DefaultKinds : text = ""
      BY DEF DefaultKinds
    <3>2. PICK value \in Values \cup {Null} : value = Null
      OBVIOUS
    <3>3. c = [column EXCEPT !.default_kind = text, !.default = value]
      BY <2>1, <3>1, <3>2
    <3> QED BY <3>3 DEF Column
  <2>4. /\ c.exists = column.exists /\ c.type = column.type /\ c.nullable = column.nullable
        /\ c.default_kind = "" /\ c.default = Null
    BY <2>1 DEF Column
  <2> QED BY <1>2, <2>3, <2>4
<1>3. CASE x.op = "set not null"
  <2>1. c = [column EXCEPT !.type = loaded.type, !.nullable = FALSE]
    BY <1>3
  <2>2. loaded.type \in ColumnType
    BY DEF Column
  <2> QED BY <1>3, <2>1, <2>2 DEF Column
<1>4. CASE x.op = "drop not null"
  <2>1. c = [column EXCEPT !.type = loaded.type, !.nullable = TRUE]
    BY <1>4
  <2>2. loaded.type \in ColumnType
    BY DEF Column
  <2> QED BY <1>4, <2>1, <2>2 DEF Column
<1>5. CASE x.op = "type"
  <2>1. c = [column EXCEPT !.type = x.arg, !.nullable = loaded.nullable]
    BY <1>5
  <2>2. x.arg \in ColumnType /\ loaded.nullable \in BOOLEAN
    BY <1>5, TypesAssumption DEF StepInv, Column
  <2> QED BY <1>5, <2>1, <2>2 DEF Column
<1> QED BY <1>1, <1>2, <1>3, <1>4, <1>5 DEF AlterOps

\* What the ALTER of session s does to the column.
LEMMA ModifiedColumn ==
    ASSUME Inv, NEW s \in Sessions, At(s, "modify"), Accepts(sessions[s].op), Current.exists
    PROVE  LET x == sessions[s]
               c == Modified(x)
               loaded == LoadedColumn(x)
           IN /\ x.op # "add"
              /\ x.seen[3] \in 1..Len(alters) /\ loaded = alters[x.seen[3]].column
              /\ loaded \in Column /\ loaded.exists
              /\ c \in Column /\ c.exists = TRUE
              /\ x.op = "set default" => c.default_kind = "DEFAULT" /\ c.default \in Values
              /\ x.op = "drop default" => c.default_kind = "" /\ c.default = Null
              /\ x.op \in ConvertOps =>
                   c.default_kind = Current.default_kind /\ c.default = Current.default
              /\ x.op \in DefaultOps => c.type = Current.type /\ c.nullable = Current.nullable
              /\ x.op = "set not null" => c.nullable = FALSE
              /\ x.op = "drop not null" => c.nullable = TRUE
              /\ x.op = "type" => c.nullable = loaded.nullable
              /\ Fits(Origin, c.type)
<1>1. PICK x \in Active : x = sessions[s]
  BY ActiveFacts DEF At
<1>2. StepInv(x) /\ SeenInv(x) /\ x.op \in AlterOps
  BY <1>1, ActiveFacts DEF At, StepInv
<1>3. x.op # "add"
  BY <1>1 DEF Accepts
<1>4. PICK column \in Column : column = Current
  BY Columns DEF Inv, TypeInv
<1>5. x.seen[3] \in 1..Len(alters)
  <2>1. x.seen[3] \in Nat
    BY DEF Active
  <2>2. Len(alters) \in Nat
    BY Lengths DEF Inv
  <2> QED BY <1>2, <2>1, <2>2 DEF SeenInv
<1>6. PICK loaded \in Column : loaded = LoadedColumn(x)
  BY <1>5, Columns DEF Inv, TypeInv, LoadedColumn
<1>7. loaded.exists /\ loaded = alters[x.seen[3]].column
  BY <1>2, <1>3, <1>6 DEF SeenInv, LoadedColumn
<1>8. PICK c : c = Modified(x)
  OBVIOUS
<1>9. AlterOf(c, x, column, loaded)
  <2>1. x.op = "set default" => Modified(x) = [Current EXCEPT !.default_kind = "DEFAULT", !.default = x.arg]
    BY DEF Modified
  <2>2. x.op = "drop default" => Modified(x) = [Current EXCEPT !.default_kind = "", !.default = Null]
    BY DEF Modified
  <2>3. x.op \in {"set not null", "drop not null"} =>
          Modified(x) = [Current EXCEPT !.type = LoadedColumn(x).type,
                                        !.nullable = (x.op = "drop not null")]
    BY DEF Modified
  <2>4. x.op = "type" =>
          Modified(x) = [Current EXCEPT !.type = x.arg, !.nullable = LoadedColumn(x).nullable]
    BY DEF Modified
  <2> QED BY <1>4, <1>6, <1>8, <2>1, <2>2, <2>3, <2>4 DEF AlterOf
<1>a. c \in Column /\ AlterResult(c, x, column, loaded)
  BY <1>2, <1>3, <1>9, AlteredColumn
<1>10. /\ c \in Column /\ c.exists = column.exists
       /\ x.op = "set default" => c.default_kind = "DEFAULT" /\ c.default = x.arg
       /\ x.op = "drop default" => c.default_kind = "" /\ c.default = Null
       /\ x.op \in ConvertOps =>
            c.default_kind = column.default_kind /\ c.default = column.default
       /\ x.op \in DefaultOps => c.type = column.type /\ c.nullable = column.nullable
       /\ x.op \in {"set not null", "drop not null"} => c.type = loaded.type
       /\ x.op = "set not null" => c.nullable = FALSE
       /\ x.op = "drop not null" => c.nullable = TRUE
       /\ x.op = "type" => c.type = x.arg /\ c.nullable = loaded.nullable
  BY <1>a DEF AlterResult
<1>11. c.exists = TRUE
  BY <1>4, <1>10 DEF Column
<1>12. Fits(Origin, c.type)
  <2>1. Len(alters) \in 1..Len(alters)
    BY Lengths DEF Inv
  <2>2. Fits(Origin, column.type)
    BY <1>4, <2>1 DEF Inv, LogInv, Current
  <2>3. Fits(Origin, loaded.type)
    BY <1>5, <1>7 DEF Inv, LogInv
  <2>4. x.op = "type" => Fits(Origin, x.arg)
    BY <1>2 DEF SeenInv
  <2> QED BY <1>2, <1>3, <1>10, <2>2, <2>3, <2>4 DEF AlterOps, DefaultOps
<1>13. x.op = "set default" => x.arg \in Values
  BY <1>2 DEF StepInv
<1> QED BY <1>1, <1>3, <1>4, <1>5, <1>6, <1>7, <1>8, <1>10, <1>11, <1>12, <1>13

\* An ALTER of a column that is there changes what no part of `Here` reads as,
\* raced or not: parts once stored stay stored, and those that are not were
\* checked.
LEMMA ModifiedKeepsAbsent ==
    ASSUME Inv, NEW s \in Sessions, At(s, "modify"), Accepts(sessions[s].op), Current.exists,
           NEW p \in Parts, StoredAt(Here, p) = Missing
    PROVE  Absent(Modified(sessions[s])) = Absent(Current)
<1>1. PICK x : x = sessions[s]
  OBVIOUS
<1>2. PICK c : c = Modified(x)
  OBVIOUS
<1>3. PICK column \in Column : column = Current
  BY Columns DEF Inv, TypeInv
<1>4. PICK loaded : loaded = LoadedColumn(x)
  OBVIOUS
<1>5. x.op \in AlterOps /\ x.pc = "modify" /\ CheckedInv(x)
  BY <1>1, ActiveFacts DEF At, StepInv
<1>6. /\ x.op # "add"
      /\ x.seen[3] \in 1..Len(alters) /\ loaded = alters[x.seen[3]].column
      /\ loaded \in Column /\ loaded.exists
      /\ x.op \in ConvertOps =>
           c.default_kind = column.default_kind /\ c.default = column.default
      /\ x.op = "set not null" => c.nullable = FALSE
      /\ x.op = "drop not null" => c.nullable = TRUE
      /\ x.op = "type" => c.nullable = loaded.nullable
  BY <1>1, <1>2, <1>3, <1>4, ModifiedColumn
<1>7. x.op \notin DefaultOps
  BY <1>5 DEF CheckedInv
<1>8. c.default_kind = column.default_kind /\ c.default = column.default
  BY <1>5, <1>6, <1>7 DEF AlterOps, DefaultOps, ConvertOps
<1>9. CASE column.default_kind # ""
  BY <1>2, <1>1, <1>3, <1>8, <1>9 DEF Absent
<1>10. CASE column.default_kind = ""
  <2>1. \A i \in 1..Len(alters) : alters[i].column.exists => alters[i].column.nullable
    BY <1>3, <1>10 DEF Inv, PartsInv, DefaultInv
  <2>2. column.nullable
    <3>1. Len(alters) \in 1..Len(alters)
      BY Lengths DEF Inv
    <3> QED BY <1>3, <2>1, <3>1 DEF Current
  <2>3. loaded.nullable
    BY <1>6, <2>1
  <2>4. x.op # "set not null"
    BY <1>3, <1>5, <1>10 DEF CheckedInv
  <2>5. c.nullable
    BY <1>5, <1>6, <1>7, <2>3, <2>4 DEF AlterOps, DefaultOps
  <2> QED BY <1>1, <1>2, <1>3, <1>8, <1>10, <2>2, <2>5 DEF Absent
<1> QED BY <1>9, <1>10

\* The log with one more entry.
LEMMA LogGrows ==
    ASSUME AltersType, NEW e \in Alter, alters' = Append(alters, e), UNCHANGED engine,
           applied' = [applied EXCEPT ![Here] = Len(alters')]
    PROVE  /\ AltersType' /\ Len(alters') = Len(alters) + 1
           /\ \A i \in 1..Len(alters) : alters'[i] = alters[i]
           /\ alters'[Len(alters) + 1] = e /\ Current' = e.column /\ Copies' = Copies
           /\ \A i \in 1..Len(alters) + 1 : i \in 1..Len(alters) \/ i = Len(alters) + 1
           /\ \A r \in Copies : /\ applied'[r] >= applied[r]
                                /\ r # Here => applied'[r] = applied[r]
           /\ applied'[Here] = Len(alters) + 1
<1>1. alters \in Seq(Alter) /\ Len(alters) \in Nat /\ Len(alters) >= 1
  BY DEF AltersType
<1>2. /\ alters' \in Seq(Alter) /\ Len(alters') = Len(alters) + 1
      /\ \A i \in 1..Len(alters) : alters'[i] = alters[i]
      /\ alters'[Len(alters) + 1] = e
  BY <1>1
<1>3. Copies' = Copies
  BY DEF Copies, Replicated
<1>4. \A r \in Copies : /\ applied[r] \in Nat /\ 1 <= applied[r] /\ applied[r] <= Len(alters)
                        /\ applied'[r] = IF r = Here THEN Len(alters) + 1 ELSE applied[r]
  BY <1>2 DEF AltersType
<1>5. applied' \in [Copies -> Nat]
  <2>1. PICK k \in Nat : k = Len(alters')
    BY <1>1, <1>2
  <2>2. applied \in [Copies -> Nat]
    BY DEF AltersType
  <2>3. applied' = [applied EXCEPT ![Here] = k]
    BY <2>1
  <2> QED BY <2>2, <2>3
<1>6. \A r \in Copies : /\ 1 <= applied'[r] /\ applied'[r] <= Len(alters')
                        /\ applied'[r] >= applied[r]
                        /\ r # Here => applied'[r] = applied[r]
  BY <1>1, <1>2, <1>4
<1>7. applied'[Here] = Len(alters) + 1
  BY <1>4, HereIsCopy
<1>8. AltersType'
  <2>1. Len(alters') >= 1 /\ applied'[Here] = Len(alters')
    BY <1>1, <1>2, <1>7
  <2>2. \A r \in Copies' : 1 <= applied'[r] /\ applied'[r] <= Len(alters')
    BY <1>3, <1>6
  <2>3. applied' \in [Copies' -> Nat]
    BY <1>3, <1>5
  <2> QED BY <1>2, <2>1, <2>2, <2>3, Zenon DEF AltersType
<1>9. Current' = e.column
  BY <1>2 DEF Current
<1>10. \A i \in 1..Len(alters) + 1 : i \in 1..Len(alters) \/ i = Len(alters) + 1
  BY <1>1
<1> QED BY <1>2, <1>3, <1>6, <1>7, <1>8, <1>9, <1>10

LEMMA ModifyEntry ==
    ASSUME Inv, NEW s \in Sessions, At(s, "modify"), Modified(sessions[s]) \in Column
    PROVE  LET e == [op |-> sessions[s].op, column |-> Modified(sessions[s]),
                     upto |-> Len(rows[Here]), raced |-> Raced(s)]
           IN /\ e \in Alter /\ e.op = sessions[s].op /\ e.column = Modified(sessions[s])
              /\ e.upto = Len(rows[Here]) /\ e.raced = Raced(s)
<1>1. sessions[s].op \in AlterOps
  BY ActiveFacts DEF At, StepInv
<1>2. Len(rows[Here]) \in Nat
  BY Lengths DEF Inv
<1>3. Raced(s) \in BOOLEAN
  BY DEF Raced
<1> QED BY <1>1, <1>2, <1>3 DEF Alter

\* ADD COLUMN.
LEMMA ModifyAddInv ==
    ASSUME Inv, NEW s \in Sessions, Modify(s), ~Current.exists
    PROVE  Inv'
<1> DEFINE N == Len(rows[Here])
<1>1. /\ TypeInv /\ AltersType /\ RowsType /\ LogInv /\ MutationsInv /\ PartsInv /\ PendingInv
  BY DEF Inv, TypeInv
<1>2. At(s, "modify") /\ ~At(s, "idle") /\ Accepts(sessions[s].op)
  BY DEF Modify, At
<1>3. PICK x \in Active : x = sessions[s]
  BY <1>2, ActiveFacts
<1>4. StepInv(x) /\ SeenInv(x) /\ AloneInv(x) /\ x.pc = "modify"
  BY <1>2, <1>3, ActiveFacts DEF At
<1>5. x.op = "add" /\ x.arg \in Values \cup {Null}
  BY <1>4 DEF SeenInv, StepInv
<1>6. PICK c : c = Modified(x)
  OBVIOUS
<1>7. /\ c \in Column /\ c.exists = TRUE /\ c.nullable = TRUE /\ c.default = x.arg
      /\ c.default_kind = IF x.arg = Null THEN "" ELSE "DEFAULT"
  <2>1. PICK kind \in DefaultKinds : kind = IF x.arg = Null THEN "" ELSE "DEFAULT"
    BY DEF DefaultKinds
  <2>2. PICK type : type = IntegerType(32, TRUE)
    OBVIOUS
  <2>3. type \in ColumnType
    BY <2>2 DEF IntegerType, ColumnType
  <2>4. Modified(x) = [exists |-> TRUE, type |-> type, nullable |-> TRUE, in_key |-> FALSE,
                       default_kind |-> kind, default |-> x.arg]
    BY <1>5, <2>1, <2>2 DEF Modified
  <2>5. c = [exists |-> TRUE, type |-> type, nullable |-> TRUE, in_key |-> FALSE,
             default_kind |-> kind, default |-> x.arg]
    BY <1>6, <2>4
  <2>6. c \in Column
    BY <1>5, <2>3, <2>5 DEF Column
  <2> QED BY <2>1, <2>5, <2>6
<1>8. PICK e \in Alter : e = [op |-> x.op, column |-> Modified(x), upto |-> N, raced |-> Raced(s)]
  BY <1>2, <1>3, <1>6, <1>7, ModifyEntry
<1>9. e.op = "add" /\ e.column = c /\ e.upto = N /\ e.raced = Raced(s)
  BY <1>2, <1>3, <1>5, <1>6, <1>7, <1>8, ModifyEntry
<1>10. /\ alters' = Append(alters, e) /\ applied' = [applied EXCEPT ![Here] = Len(alters')]
       /\ UNCHANGED <<engine, done, mutations>>
       /\ sessions' = [sessions EXCEPT ![s] = Idle]
  BY <1>3, <1>5, <1>8 DEF Modify, Goto
<1>11. Len(alters) = 1 /\ alters[1].column = NoColumn
  BY <1>1, NoColumnYet DEF LogInv
<1>12. NoColumn.exists = FALSE /\ NoColumn.default_kind = ""
  BY DEF NoColumn
<1>13. /\ AltersType' /\ Len(alters') = 2 /\ alters'[1] = alters[1] /\ alters'[2] = e
       /\ Current' = c /\ Copies' = Copies /\ applied'[Here] = 2
       /\ \A r \in Copies : r # Here => applied'[r] = applied[r]
  BY <1>1, <1>9, <1>10, <1>11, LogGrows
<1>14. /\ mutations = <<>> /\ mutations' = <<>> /\ Len(mutations) = 0
       /\ \A r \in Copies : \A p \in Parts : rows[r][p].stored = Missing /\ ~rows[r][p].masked
  BY <1>1, <1>10 DEF PartsInv, NothingInv
<1>15. \A r \in Copies : done[r] = 0 /\ done'[r] = 0
  BY <1>1, <1>10, <1>14 DEF RowsType
<1>16. /\ MergeTree' = MergeTree /\ Replicated' = Replicated
       /\ ~MergeTree => Copies = {Here}
  BY <1>10 DEF MergeTree, Replicated, Copies
<1>17. N \in Nat /\ Parts = 1..N
  BY <1>1, Lengths
<1>18. /\ rows' \in [Copies -> Seq(Row)] /\ Parts' = Parts
       /\ \A r \in Copies : Len(rows'[r]) = N
       /\ MergeTree => rows' = rows
       /\ ~MergeTree => \A p \in Parts : rows'[Here][p].stored = Null
       /\ \A r \in Copies : r # Here => rows'[r] = rows[r]
  <2>0. rows \in [Copies -> Seq(Row)] /\ \A r \in Copies : Len(rows[r]) = N
    BY <1>1 DEF RowsType
  <2>1. CASE MergeTree
    <3>1. rows' = rows
      BY <2>1 DEF Modify
    <3> QED BY <2>0, <2>1, <3>1, HereIsCopy DEF Parts
  <2>2. CASE ~MergeTree
    <3> DEFINE new == [p \in Parts |-> [rows[Here][p] EXCEPT !.stored = Null]]
    <3>1. rows' = [rows EXCEPT ![Here] = new]
      BY <1>3, <1>5, <2>2 DEF Modify
    <3>2. \A p \in Parts : rows[Here][p] \in Row
      BY <1>17, <2>0, HereIsCopy
    <3>3. \A p \in Parts : new[p] \in Row /\ new[p].stored = Null
      BY <3>2 DEF Row, Held
    <3>4. new \in [1..N -> Row]
      BY <1>17, <3>3
    <3>5. new \in Seq(Row) /\ Len(new) = N /\ DOMAIN new = Parts
      BY <1>17, <3>4
    <3> HIDE DEF new
    <3>6. rows'[Here] = new /\ \A r \in Copies : r # Here => rows'[r] = rows[r]
      BY <2>0, <3>1, HereIsCopy
    <3>7. rows' \in [Copies -> Seq(Row)]
      BY <2>0, <3>1, <3>5
    <3>8. \A r \in Copies : Len(rows'[r]) = N
      BY <2>0, <3>5, <3>6
    <3>9. Parts' = Parts
      BY <3>5, <3>6 DEF Parts
    <3> QED BY <2>2, <3>3, <3>6, <3>7, <3>8, <3>9
  <2> QED BY <2>1, <2>2
<1> HIDE DEF N
<1>19. Len(rows'[Here]) = N
  BY <1>18, HereIsCopy
<1>20. RowsType'
  <2>1. \A r \in Copies : Len(rows'[r]) = Len(rows'[Here])
    BY <1>18, <1>19
  <2>2. mutations \in Seq(MutationType) /\ done \in [Copies -> Nat]
    BY <1>1 DEF RowsType
  <2>3. \A r \in Copies : done[r] <= Len(mutations)
    BY <1>1 DEF RowsType
  <2> QED BY <1>10, <1>13, <1>18, <2>1, <2>2, <2>3 DEF RowsType
<1>21. \A i \in 1..2 : i = 1 \/ i = 2
  OBVIOUS
<1>22. alters[1].op # "add"
  <2>1. 1 \in 1..Len(alters)
    BY <1>11
  <2>2. alters[1].op = "add" => 1 = 2
    BY <1>1, <2>1 DEF LogInv
  <2> QED BY <2>2
<1>b. \A i \in 2..2 : i = 2 /\ i - 1 = 1
  OBVIOUS
<1>c. /\ alters'[1].column = NoColumn /\ ~alters'[1].column.exists
      /\ alters'[1].column.default_kind = "" /\ alters'[1].op # "add" /\ alters'[2].column = c
  BY <1>9, <1>11, <1>12, <1>13, <1>22
<1>23. LogInv'
  <2>1. Origin' = c.type
    <3>1. ~alters'[1].column.exists /\ alters'[2].column = c
      BY <1>9, <1>11, <1>12, <1>13
    <3> QED BY <3>1 DEF Origin
  <2>2. Fits(c.type, c.type)
    BY DEF Fits
  <2>3. c.default_kind # "" => c.default # Null
    BY <1>7
  <2>4. c.default_kind # "ALIAS" /\ (c.default_kind = "" => c.default = Null)
    BY <1>7
  <2>5. ASSUME NEW i \in 1..2
        PROVE  LET column == alters'[i].column IN
               /\ i >= 2 => column.exists
               /\ column.exists => Fits(Origin', column.type)
               /\ column.default_kind # "" => column.default # Null
               /\ alters'[i].op = "add" =>
                    /\ i = 2 /\ ~alters'[1].column.exists
                    /\ column.nullable
                    /\ column.default_kind = "" => column.default = Null
    <3>1. CASE i = 1
      <4>1. /\ ~alters'[i].column.exists /\ alters'[i].column.default_kind = ""
            /\ alters'[i].op # "add"
        BY <1>c, <3>1, Zenon
      <4>2. ~(i >= 2)
        BY <3>1
      <4> QED BY <4>1, <4>2
    <3>2. CASE i = 2
      BY <1>7, <1>9, <1>11, <1>12, <1>13, <2>1, <2>2, <2>3, <2>4, <3>2
    <3> QED BY <1>21, <3>1, <3>2
  <2>6. alters'[1].column = NoColumn /\ alters'[1].column.default_kind # "ALIAS"
    BY <1>11, <1>12, <1>13
  <2>7. \A i \in 2..2 : alters'[i].column.default_kind # "ALIAS"
    BY <1>b, <1>c, <2>4
  <2> QED BY <1>13, <2>5, <2>6, <2>7 DEF LogInv
<1>24. MutationsInv'
  <2>1. alters[1].upto <= N
    BY <1>1, <1>11 DEF MutationsInv, N
  <2>2. e.upto <= N
    BY <1>9, <1>17
  <2>3. \A i \in 1..2 : alters'[i].upto <= N
    BY <1>13, <1>21, <2>1, <2>2
  <2> QED BY <1>13, <1>14, <1>19, <2>3 DEF MutationsInv
<1>25. PartsInv'
  <2>1. NothingInv'
    BY <1>7, <1>13 DEF NothingInv
  <2>2. StoredInv'
    BY <1>13, <1>15 DEF StoredInv
  <2>3. \A r \in Copies, p \in Parts : MergeTree \/ r # Here => StoredAt(r, p)' = Missing
    BY <1>14, <1>18 DEF StoredAt
  <2>4. SameMissing'
    <3> SUFFICES ASSUME NEW r \in Copies', NEW q \in Copies', NEW p \in Parts',
                        StoredAt(r, p)' = Missing, StoredAt(q, p)' # Missing
                 PROVE  FALSE
      BY DEF SameMissing
    <3>1. CASE MergeTree
      BY <1>13, <1>18, <2>3, <3>1
    <3>2. CASE ~MergeTree
      BY <1>13, <1>16, <3>2
    <3> QED BY <3>1, <3>2
  <2>5. DefaultInv'
    <3> SUFFICES ASSUME NEW i \in 1..2, alters'[i].column.exists, ~alters'[i].column.nullable
                 PROVE  FALSE
      BY <1>13 DEF DefaultInv
    <3>1. i = 2
      BY <1>11, <1>12, <1>13, <1>21
    <3> QED BY <1>7, <1>9, <1>13, <3>1
  <2>6. MemoryInv'
    <3>1. ~MergeTree => \A p \in Parts : StoredAt(Here, p)' # Missing
      BY <1>18 DEF StoredAt, Null, Missing
    <3> QED BY <1>16, <1>18, <3>1 DEF MemoryInv
  <2>7. AddInv'
    <3> SUFFICES ASSUME NEW i \in 1..2, NEW r \in Copies, alters'[i].op = "add", applied'[r] < i,
                        NEW p \in Parts
                 PROVE  StoredAt(r, p)' = Missing
      BY <1>13, <1>18 DEF AddInv
    <3>1. r # Here
      BY <1>13
    <3> QED BY <2>3, <3>1
  <2>8. KeepInv'
    <3>1. \A i \in 2..2 : ~alters'[i - 1].column.exists
      BY <1>b, <1>c
    <3> QED BY <1>13, <3>1 DEF KeepInv
  <2> QED BY <2>1, <2>2, <2>4, <2>5, <2>6, <2>7, <2>8 DEF PartsInv
<1>26. PendingInv'
  <2>1. NullInv'
    BY <1>7, <1>13 DEF NullInv
  <2>2. CountInv' /\ UnracedInv'
    BY <1>14 DEF CountInv, UnracedInv
  <2>3. ReplicasInv'
    <3> SUFFICES ASSUME ~EverRaced', NEW r \in Copies
                 PROVE  \A p \in Parts : rows'[r][p] = rows'[Here][p]
      BY <1>13, <1>14, <1>15, <1>18, HereIsCopy DEF ReplicasInv, Final
    <3>1. CASE ~MergeTree
      BY <1>16, <3>1
    <3>2. CASE MergeTree
      <4>1. ~EverRaced
        <5>1. DOMAIN alters = {1} /\ 1 \in DOMAIN alters'
          BY <1>1, <1>11, <1>13 DEF AltersType
        <5> QED BY <1>13, <1>14, <5>1 DEF EverRaced
      <4>2. \A q \in Copies : done[q] = Len(mutations)
        BY <1>14, <1>15
      <4> QED BY <1>18, <3>2, <4>1, <4>2, SettledEqual
    <3> QED BY <3>1, <3>2
  <2> QED BY <2>1, <2>2, <2>3 DEF PendingInv
<1>27. ASSUME NEW y \in Active, Good(y)
       PROVE  Good(y)'
  <2>0. y.op = "add" /\ y.seen[3] \in Nat
    BY <1>27 DEF Good, SeenInv, Active
  <2>1. StepInv(y)'
    BY <1>16, <1>27 DEF Good, StepInv, Materializes
  <2>2. SeenInv(y)'
    <3>1. /\ y.seen[1] <= N /\ y.seen[2] <= Len(mutations)
          /\ 1 <= y.seen[3] /\ y.seen[3] <= 1
      BY <1>11, <1>27 DEF Good, SeenInv, N
    <3>2. y.seen[3] <= Len(alters')
      BY <1>13, <2>0, <3>1
    <3>3. alters'[1].column.default_kind # "ALIAS"
      BY <1>11, <1>12, <1>13
    <3> QED BY <1>10, <1>19, <2>0, <3>1, <3>2, <3>3 DEF SeenInv
  <2>3. CheckedInv(y)'
    BY <2>0 DEF CheckedInv, DefaultOps
  <2>4. AloneInv(y)'
    <3>1. Version'[3] = 2
      BY <1>13 DEF Version
    <3>2. y.seen[3] <= 1
      BY <1>11, <1>27 DEF Good, SeenInv
    <3>3. y.seen # Version'
      BY <2>0, <3>1, <3>2
    <3> QED BY <3>3, AloneVacuous
  <2> QED BY <2>1, <2>2, <2>3, <2>4 DEF Good
<1>28. SessionsType' /\ \A t \in Sessions : SessionInv(t)'
  BY <1>10, <1>27, SessionEnds
<1> QED BY <1>13, <1>20, <1>23, <1>24, <1>25, <1>26, <1>28 DEF Inv, TypeInv

HasColumn == Current.exists

\* The other forms of ALTER.
LEMMA ModifyOtherInv ==
    ASSUME Inv, NEW s \in Sessions, Modify(s), HasColumn
    PROVE  Inv'
<1> DEFINE N == Len(rows[Here])
           M == Len(mutations)
           A == Len(alters)
<1>1. /\ TypeInv /\ AltersType /\ RowsType /\ LogInv /\ MutationsInv /\ PartsInv /\ PendingInv
  BY DEF Inv, TypeInv
<1>2. At(s, "modify") /\ ~At(s, "idle") /\ ~At(s, "wait") /\ Accepts(sessions[s].op)
  BY DEF Modify, At
<1>3. PICK x \in Active : x = sessions[s]
  BY <1>2, ActiveFacts
<1>4. /\ StepInv(x) /\ SeenInv(x) /\ CheckedInv(x) /\ AloneInv(x) /\ x.pc = "modify"
      /\ x.op \in AlterOps
  BY <1>2, <1>3, ActiveFacts DEF At, StepInv
<1>5. PICK c : c = Modified(x)
  OBVIOUS
<1>6. /\ x.op # "add" /\ c \in Column /\ c.exists = TRUE /\ Fits(Origin, c.type)
      /\ x.seen[3] \in 1..A /\ LoadedColumn(x) = alters[x.seen[3]].column
      /\ LoadedColumn(x) \in Column /\ LoadedColumn(x).exists
  BY <1>2, <1>3, <1>5, ModifiedColumn DEF HasColumn
<1>7. /\ x.op = "set default" => c.default_kind = "DEFAULT" /\ c.default \in Values
      /\ x.op = "drop default" => c.default_kind = "" /\ c.default = Null
      /\ x.op \in ConvertOps =>
           c.default_kind = Current.default_kind /\ c.default = Current.default
      /\ x.op \in DefaultOps => c.type = Current.type /\ c.nullable = Current.nullable
      /\ x.op = "set not null" => c.nullable = FALSE
      /\ x.op = "drop not null" => c.nullable = TRUE
      /\ x.op = "type" => c.nullable = LoadedColumn(x).nullable
  BY <1>2, <1>3, <1>5, ModifiedColumn DEF HasColumn
<1>8. PICK e \in Alter : e = [op |-> x.op, column |-> Modified(x), upto |-> N, raced |-> Raced(s)]
  BY <1>2, <1>3, <1>5, <1>6, ModifyEntry
<1>9. e.op = x.op /\ e.column = c /\ e.upto = N /\ e.raced = Raced(s)
  BY <1>2, <1>3, <1>5, <1>6, <1>8, ModifyEntry
<1>10. /\ alters' = Append(alters, e) /\ applied' = [applied EXCEPT ![Here] = Len(alters')]
       /\ UNCHANGED <<engine, done>>
       /\ sessions' = [sessions EXCEPT ![s] = Idle]
  BY <1>3, <1>8 DEF Modify, Goto
<1>11. rows' = rows
  BY <1>3, <1>6 DEF Modify
<1>12. /\ AltersType' /\ Len(alters') = A + 1
       /\ \A i \in 1..A : alters'[i] = alters[i]
       /\ alters'[A + 1] = e /\ Current' = c /\ Copies' = Copies
       /\ \A i \in 1..A + 1 : i \in 1..A \/ i = A + 1
       /\ \A r \in Copies : applied'[r] >= applied[r] /\ (r # Here => applied'[r] = applied[r])
       /\ applied'[Here] = A + 1
  BY <1>1, <1>9, <1>10, LogGrows
<1>13. /\ A \in Nat /\ A >= 1 /\ M \in Nat /\ N \in Nat /\ Parts = 1..N
       /\ 1 \in 1..A /\ A \in 1..A /\ (A # 1 => 2 \in 1..A)
  BY <1>1, Lengths
<1>14. /\ Parts' = Parts /\ MergeTree' = MergeTree /\ Replicated' = Replicated
       /\ Len(rows'[Here]) = N
  BY <1>10, <1>11 DEF Parts, MergeTree, Replicated
<1>15. PICK n : n = Mutation(s, "convert", A + 1)
  OBVIOUS
<1>16. /\ n \in MutationType /\ n.kind = "convert" /\ n.upto = N /\ n.after = A + 1
       /\ n.raced = e.raced
  <2>1. A + 1 \in Nat /\ "convert" \in Kinds
    BY <1>13 DEF Kinds
  <2> HIDE DEF A
  <2> QED BY <1>2, <1>9, <1>15, <2>1, NewMutation
<1>17. /\ x.op \in ConvertOps => mutations' = Append(mutations, n)
       /\ x.op \notin ConvertOps => mutations' = mutations
  <2>1. x.op \in ConvertOps => mutations' = Append(mutations, Mutation(s, "convert", A + 1))
    BY <1>3, <1>12 DEF Modify, Send, ConvertOps
  <2>2. x.op \notin ConvertOps => mutations' = mutations
    BY <1>3 DEF Modify, ConvertOps
  <2> QED BY <1>15, <2>1, <2>2
<1>18. /\ mutations' \in Seq(MutationType) /\ Len(mutations') \in {M, M + 1}
       /\ \A j \in 1..M : mutations'[j] = mutations[j]
       /\ x.op \in ConvertOps => Len(mutations') = M + 1 /\ mutations'[M + 1] = n
       /\ x.op \notin ConvertOps => Len(mutations') = M
  <2>1. mutations \in Seq(MutationType)
    BY <1>1 DEF RowsType
  <2>2. CASE x.op \in ConvertOps
    <3>1. mutations' = Append(mutations, n)
      BY <1>17, <2>2
    <3> HIDE DEF MutationType
    <3> QED BY <1>16, <2>1, <2>2, <3>1
  <2>3. CASE x.op \notin ConvertOps
    BY <1>17, <2>1, <2>3
  <2> QED BY <2>2, <2>3
<1>19. \A j \in 1..Len(mutations') : j \in 1..M \/ (x.op \in ConvertOps /\ j = M + 1)
  BY <1>13, <1>18
<1>20. \A j \in 1..M : j \in 1..Len(mutations')
  BY <1>13, <1>18
<1>21. \A r \in Copies : done[r] \in Nat /\ done[r] <= M /\ done'[r] = done[r]
  BY <1>1, <1>10 DEF RowsType
<1>22. ~e.raced => /\ x.settled /\ x.seen = Version
                   /\ \A r \in Copies : done[r] = M /\ applied[r] = A
  BY <1>2, <1>3, <1>9, NotRaced
<1>23. EverRaced' <=> EverRaced \/ e.raced
  <2>1. DOMAIN mutations = 1..M /\ DOMAIN mutations' = 1..Len(mutations')
    BY <1>1, <1>18 DEF RowsType
  <2>2. DOMAIN alters = 1..A /\ DOMAIN alters' = 1..A + 1 /\ A + 1 \in 1..A + 1 /\ 1..A \subseteq 1..A + 1
    BY <1>1, <1>12, <1>13 DEF AltersType
  <2>3. (\E i \in DOMAIN alters' : alters'[i].raced) <=> (\E i \in DOMAIN alters : alters[i].raced) \/ e.raced
    BY <1>12, <2>2
  <2>4. (\E i \in DOMAIN mutations : mutations[i].raced) => \E i \in DOMAIN mutations' : mutations'[i].raced
    BY <1>18, <1>20, <2>1
  <2>5. (\E i \in DOMAIN mutations' : mutations'[i].raced) =>
          (\E i \in DOMAIN mutations : mutations[i].raced) \/ e.raced
    BY <1>16, <1>18, <1>19, <2>1
  <2> QED BY <2>3, <2>4, <2>5 DEF EverRaced
\* No part of Here reads differently.
<1>24. \A p \in Parts : StoredAt(Here, p) = Missing => Absent(c) = Absent(Current)
  BY <1>2, <1>3, <1>5, ModifiedKeepsAbsent DEF HasColumn
<1>25. \A p \in Parts : Reads(StoredAt(Here, p), c) = Reads(StoredAt(Here, p), Current)
  BY <1>24 DEF Reads
<1>26. \A r, p : StoredAt(r, p)' = StoredAt(r, p)
  BY <1>11 DEF StoredAt
<1> HIDE DEF A, M, N
<1>27. RowsType'
  <2>1. \A r \in Copies : done'[r] <= Len(mutations')
    BY <1>13, <1>18, <1>21
  <2> QED BY <1>1, <1>10, <1>11, <1>12, <1>18, <2>1 DEF RowsType
<1>28. Origin' = Origin
  <2>1. alters'[1] = alters[1] /\ (A # 1 => alters'[2] = alters[2])
    BY <1>12, <1>13
  <2>2. A = 1 => alters[1].column.exists
    BY DEF A, HasColumn, Current
  <2> QED BY <2>1, <2>2 DEF Origin
<1>29. /\ alters[1].column.default_kind # "ALIAS"
       /\ \A i \in 1..A : alters[i].column.default_kind # "ALIAS"
       /\ c.default_kind # "ALIAS"
  <2>1. alters[1].column.default_kind # "ALIAS"
    BY <1>4 DEF SeenInv
  <2>2. \A i \in 2..A : alters[i].column.default_kind # "ALIAS"
    BY <1>1 DEF LogInv, A
  <2>3. \A i \in 1..A : i = 1 \/ i \in 2..A
    BY <1>13
  <2>4. \A i \in 1..A : alters[i].column.default_kind # "ALIAS"
    BY <2>1, <2>2, <2>3
  <2>5. Current.default_kind # "ALIAS"
    BY <1>13, <2>4 DEF Current, A
  <2>6. c.default_kind # "ALIAS"
    BY <1>4, <1>6, <1>7, <2>5 DEF AlterOps, ConvertOps
  <2> QED BY <2>1, <2>4, <2>6
<1>30. LogInv'
  <2>1. c.default_kind # "" => c.default # Null
    <3>1. Current.default_kind # "" => Current.default # Null
      BY <1>1, <1>13 DEF LogInv, Current, A
    <3>2. Null \notin Values
      BY ValuesAssumption
    <3> QED BY <1>4, <1>6, <1>7, <3>1, <3>2 DEF AlterOps, ConvertOps
  <2>2. ASSUME NEW i \in 1..A + 1
        PROVE  LET column == alters'[i].column IN
               /\ i >= 2 => column.exists
               /\ column.exists => Fits(Origin', column.type)
               /\ column.default_kind # "" => column.default # Null
               /\ alters'[i].op = "add" =>
                    /\ i = 2 /\ ~alters'[1].column.exists
                    /\ column.nullable
                    /\ column.default_kind = "" => column.default = Null
    <3>1. CASE i \in 1..A
      <4>1. alters'[i] = alters[i] /\ alters'[1] = alters[1]
        BY <1>12, <1>13, <3>1
      <4> QED BY <1>1, <1>28, <3>1, <4>1 DEF LogInv, A
    <3>2. CASE i = A + 1
      <4>1. alters'[i] = e /\ e.op # "add"
        BY <1>6, <1>9, <1>12, <3>2
      <4> QED BY <1>6, <1>9, <1>28, <2>1, <4>1
    <3> QED BY <1>12, <3>1, <3>2
  <2>3. ASSUME NEW i \in 2..A + 1
        PROVE  alters'[i].column.default_kind # "ALIAS"
    <3>1. i \in 1..A \/ i = A + 1
      BY <1>13
    <3>2. CASE i \in 1..A
      BY <1>12, <1>29, <3>2
    <3>3. CASE i = A + 1
      BY <1>9, <1>12, <1>29, <3>3
    <3> QED BY <3>1, <3>2, <3>3
  <2>4. alters'[1] = alters[1]
    BY <1>12, <1>13
  <2>5. ~alters[1].column.exists => alters[1].column = NoColumn
    BY <1>1 DEF LogInv
  <2>6. \A i \in 1..Len(alters') :
         LET column == alters'[i].column IN
         /\ i >= 2 => column.exists
         /\ column.exists => Fits(Origin', column.type)
         /\ column.default_kind # "" => column.default # Null
         /\ alters'[i].op = "add" =>
              /\ i = 2 /\ ~alters'[1].column.exists
              /\ column.nullable
              /\ column.default_kind = "" => column.default = Null
    BY <1>12, <2>2
  <2>7. \A i \in 2..Len(alters') : alters'[i].column.default_kind # "ALIAS"
    BY <1>12, <2>3
  <2>8. alters'[1].column.default_kind # "ALIAS"
    BY <1>29, <2>4
  <2>9. ~alters'[1].column.exists => alters'[1].column = NoColumn
    BY <2>4, <2>5
  <2> QED BY <2>6, <2>7, <2>8, <2>9 DEF LogInv
<1>31. MutationsInv'
  <2>1. \A j \in 1..M : /\ 1 <= mutations[j].after /\ mutations[j].after <= A
                        /\ alters[mutations[j].after].column.exists
                        /\ mutations[j].upto <= N /\ mutations[j].after \in 1..A
    <3>0. \A j \in 1..M : mutations[j] \in MutationType
      BY <1>1 DEF RowsType, M
    <3>1. \A j \in 1..M : mutations[j].after \in Nat
      BY <3>0 DEF MutationType
    <3> QED BY <1>1, <1>13, <3>1 DEF MutationsInv, M, N, A
  <2>2. ASSUME NEW j \in 1..Len(mutations')
        PROVE  /\ 1 <= mutations'[j].after /\ mutations'[j].after <= A + 1
               /\ alters'[mutations'[j].after].column.exists
               /\ mutations'[j].upto <= N
    <3>1. CASE j \in 1..M
      <4>1. mutations'[j] = mutations[j] /\ alters'[mutations[j].after] = alters[mutations[j].after]
        BY <1>12, <1>18, <2>1, <3>1
      <4>2. mutations[j].after <= A + 1
        BY <1>13, <2>1, <3>1
      <4> QED BY <2>1, <3>1, <4>1, <4>2
    <3>2. CASE x.op \in ConvertOps /\ j = M + 1
      <4>1. mutations'[j] = n
        BY <1>18, <3>2
      <4>2. alters'[A + 1].column.exists
        BY <1>6, <1>9, <1>12
      <4>3. 1 <= A + 1 /\ A + 1 <= A + 1 /\ N <= N
        BY <1>13
      <4> QED BY <1>16, <4>1, <4>2, <4>3
    <3> QED BY <1>19, <3>1, <3>2
  <2>3. ASSUME NEW i \in 1..A + 1
        PROVE  alters'[i].upto <= N
    <3>1. CASE i \in 1..A
      BY <1>1, <1>12, <3>1 DEF MutationsInv, A, N
    <3>2. CASE i = A + 1
      BY <1>9, <1>12, <1>13, <3>2
    <3> QED BY <1>12, <3>1, <3>2
  <2> QED BY <1>12, <1>14, <2>2, <2>3 DEF MutationsInv
<1>32. PartsInv'
  <2>0. \A j \in 1..M : Stores(j)' <=> Stores(j)
    BY <1>18 DEF Stores
  <2>1. NothingInv'
    BY <1>6, <1>12 DEF NothingInv
  <2>2. StoredInv'
    <3> SUFFICES ASSUME NEW r \in Copies', NEW j \in 1..done'[r], Stores(j)', NEW p \in Parts',
                        p <= mutations'[j].upto
                 PROVE  StoredAt(r, p)' # Missing
      BY DEF StoredInv
    <3>0. r \in Copies /\ p \in Parts /\ done'[r] = done[r]
      BY <1>12, <1>14, <1>21
    <3>1. j \in 1..M /\ j \in 1..done[r]
      BY <1>13, <1>21, <3>0
    <3>2. StoredAt(r, p) # Missing
      BY <1>1, <1>18, <2>0, <3>0, <3>1 DEF PartsInv, StoredInv
    <3> QED BY <1>26, <3>2
  <2>3. SameMissing'
    <3> SUFFICES ASSUME NEW r \in Copies', NEW q \in Copies', NEW p \in Parts',
                        StoredAt(r, p)' = Missing, StoredAt(q, p)' # Missing
                 PROVE  \E j \in done'[r] + 1 .. Len(mutations') :
                            Stores(j)' /\ p <= mutations'[j].upto
      BY DEF SameMissing
    <3>0. r \in Copies /\ q \in Copies /\ p \in Parts /\ done'[r] = done[r]
      BY <1>12, <1>14, <1>21
    <3>1. PICK j \in done[r] + 1 .. M : Stores(j) /\ p <= mutations[j].upto
      BY <1>1, <1>26, <3>0 DEF PartsInv, SameMissing, M
    <3>2. done[r] \in Nat /\ M \in Nat
      BY <1>13, <1>21, <3>0
    <3>3. j \in 1..M /\ j \in done'[r] + 1 .. Len(mutations')
      BY <1>18, <3>0, <3>2
    <3> QED BY <1>18, <2>0, <3>1, <3>3
  <2>4. DefaultInv'
    <3> SUFFICES ASSUME NEW i \in 1..A + 1, alters'[i].column.exists, ~alters'[i].column.nullable,
                        NEW p \in Parts, StoredAt(Here, p) = Missing
                 PROVE  c.default_kind # ""
      BY <1>12, <1>14, <1>26 DEF DefaultInv
    <3>1. \A k \in 1..A : alters[k].column.exists /\ ~alters[k].column.nullable =>
            Current.default_kind # ""
      BY <1>1 DEF PartsInv, DefaultInv, A
    <3>2. CASE x.op \in {"drop not null", "type"}
      <4>1. c.default_kind = Current.default_kind
        BY <1>7, <3>2 DEF ConvertOps
      <4>2. CASE i \in 1..A
        BY <1>12, <3>1, <4>1, <4>2
      <4>3. CASE i = A + 1
        <5>1. ~c.nullable
          BY <1>9, <1>12, <4>3
        <5>2. ~LoadedColumn(x).nullable
          BY <1>7, <3>2, <5>1
        <5> QED BY <1>6, <3>1, <4>1, <5>2
      <4> QED BY <1>12, <4>2, <4>3
    <3>3. CASE x.op = "set not null"
      BY <1>4, <1>7, <3>3 DEF CheckedInv, ConvertOps
    <3>4. CASE x.op = "set default"
      BY <1>7, <3>4
    <3>5. CASE x.op = "drop default"
      BY <1>4, <3>5 DEF CheckedInv, DefaultOps
    <3> QED BY <1>4, <1>6, <3>2, <3>3, <3>4, <3>5 DEF AlterOps
  <2>5. MemoryInv'
    <3>1. alters'[1] = alters[1]
      BY <1>12, <1>13
    <3>2. MemoryInv /\ Current.exists
      BY <1>1 DEF PartsInv, HasColumn
    <3> QED BY <1>14, <1>26, <3>1, <3>2 DEF MemoryInv
  <2>6. AddInv'
    <3> SUFFICES ASSUME NEW i \in 1..A + 1, NEW r \in Copies, alters'[i].op = "add", applied'[r] < i,
                        NEW p \in Parts, p <= alters'[i].upto
                 PROVE  StoredAt(r, p) = Missing
      BY <1>12, <1>14, <1>26 DEF AddInv
    <3>1. i \in 1..A /\ alters'[i] = alters[i]
      BY <1>6, <1>9, <1>12
    <3>2. applied[r] < i
      <4>1. applied[r] \in Nat /\ applied'[r] \in Nat /\ applied'[r] >= applied[r]
        BY <1>1, <1>12 DEF AltersType
      <4> QED BY <4>1
    <3> QED BY <1>1, <3>1, <3>2 DEF PartsInv, AddInv, A
  <2>7. KeepInv'
    <3> SUFFICES ASSUME NEW i \in 2..A + 1, NEW r \in Copies, ~alters'[i].raced,
                        alters'[i - 1].column.exists, applied'[r] < i,
                        NEW p \in Parts, StoredAt(r, p) = Missing
                 PROVE  Absent(alters'[i].column) = Absent(alters'[i - 1].column)
      BY <1>12, <1>14, <1>26 DEF KeepInv
    <3>0. i - 1 \in 1..A /\ (i \in 2..A \/ i = A + 1)
      BY <1>13
    <3>1. CASE i \in 2..A
      <4>1. alters'[i] = alters[i] /\ alters'[i - 1] = alters[i - 1]
        <5>1. i \in 1..A
          BY <1>13, <3>1
        <5> QED BY <1>12, <3>0, <5>1
      <4>2. applied[r] < i
        <5>1. applied[r] \in Nat /\ applied'[r] \in Nat /\ applied'[r] >= applied[r]
          BY <1>1, <1>12 DEF AltersType
        <5> QED BY <5>1
      <4> QED BY <1>1, <3>1, <4>1, <4>2 DEF PartsInv, KeepInv, A
    <3>2. CASE i = A + 1
      <4>1. alters'[i] = e /\ alters'[i - 1].column = Current
        <5>1. i - 1 = A
          BY <1>13, <3>2
        <5> QED BY <1>12, <1>13, <3>2, <5>1 DEF Current, A
      <4>2. done[r] = M
        BY <1>22, <4>1
      <4>3. ~(\E j \in done[r] + 1 .. M : Stores(j) /\ p <= mutations[j].upto)
        BY <1>13, <4>2
      <4>4. StoredAt(Here, p) = Missing
        BY <1>1, <4>3, HereIsCopy DEF PartsInv, SameMissing, M
      <4> QED BY <1>9, <1>24, <4>1, <4>4
    <3> QED BY <3>0, <3>1, <3>2
  <2> QED BY <2>1, <2>2, <2>3, <2>4, <2>5, <2>6, <2>7 DEF PartsInv
<1>33. NullInv'
  <2> SUFFICES ASSUME ~c.nullable, NEW p \in Parts, StoredAt(Here, p) = Null
               PROVE  \E j \in done[Here] + 1 .. Len(mutations') :
                          mutations'[j].kind = "convert" /\ p <= mutations'[j].upto
    BY <1>12, <1>14, <1>21, <1>26, HereIsCopy DEF NullInv
  <2>0. done[Here] \in Nat /\ done[Here] <= M
    BY <1>21, HereIsCopy
  <2>1. CASE x.op \in ConvertOps
    <3>1. M + 1 \in done[Here] + 1 .. Len(mutations')
      BY <1>13, <1>18, <2>0, <2>1
    <3>2. mutations'[M + 1] = n /\ p <= n.upto
      BY <1>13, <1>16, <1>18, <2>1
    <3> QED BY <1>16, <3>1, <3>2
  <2>2. CASE x.op \notin ConvertOps
    <3>1. ~Current.nullable
      BY <1>4, <1>6, <1>7, <2>2 DEF AlterOps, ConvertOps, DefaultOps
    <3>2. PICK j \in done[Here] + 1 .. M : mutations[j].kind = "convert" /\ p <= mutations[j].upto
      BY <1>1, <3>1 DEF PendingInv, NullInv, HasColumn, M
    <3>3. j \in 1..M /\ j \in done[Here] + 1 .. Len(mutations')
      BY <1>13, <1>18, <2>0, <2>2
    <3> QED BY <1>18, <3>2, <3>3
  <2> QED BY <2>1, <2>2
<1>34. CountInv'
  <2>1. ASSUME NEW j \in 1..M
        PROVE  Affected(mutations[j])' = Affected(mutations[j])
    <3>1. PICK m : m = mutations[j]
      OBVIOUS
    <3>2. mutations'[j] = m
      BY <1>18, <3>1
    <3>3. {p \in Parts : /\ p <= m.upto
                         /\ ~rows[Here][p].masked
                         /\ m.kind = "delete" => Reads(StoredAt(Here, p), c) = m.value}
          = {p \in Parts : /\ p <= m.upto
                           /\ ~rows[Here][p].masked
                           /\ m.kind = "delete" => Reads(StoredAt(Here, p), Current) = m.value}
      BY <1>25
    <3>4. Affected(mutations[j])' =
            {p \in Parts : /\ p <= m.upto
                           /\ ~rows[Here][p].masked
                           /\ m.kind = "delete" => Reads(StoredAt(Here, p), c) = m.value}
      BY <1>11, <1>12, <1>14, <1>26, <3>2 DEF Affected
    <3> QED BY <3>1, <3>3, <3>4 DEF Affected
  <2>2. ASSUME NEW i \in 1..Len(mutations'), mutations'[i].kind \in {"update", "delete"},
               ~mutations'[i].raced
        PROVE  IF i <= done[Here] THEN mutations'[i].count = mutations'[i].changed
               ELSE mutations'[i].count = Cardinality(Affected(mutations[i])')
    <3>1. i \in 1..M
      <4>1. i = M + 1 /\ x.op \in ConvertOps => FALSE
        BY <1>16, <1>18, <2>2
      <4> QED BY <1>19, <4>1
    <3>2. mutations'[i] = mutations[i] /\ Affected(mutations[i])' = Affected(mutations[i])
      BY <1>18, <2>1, <3>1
    <3>3. IF i <= done[Here] THEN mutations[i].count = mutations[i].changed
          ELSE mutations[i].count = Cardinality(Affected(mutations[i]))
      BY <1>1, <2>2, <3>1, <3>2 DEF PendingInv, CountInv, M
    <3> QED BY <3>2, <3>3
  <2>3. done'[Here] = done[Here]
    BY <1>21, HereIsCopy
  <2> QED BY <2>2, <2>3 DEF CountInv
\* A conversion that was not raced meets no NULL it cannot hold.
<1>35. ASSUME ~e.raced, NEW r \in Copies, r = Here \/ ~EverRaced, x.op \in ConvertOps,
              ~c.nullable, NEW p \in Parts
       PROVE  RowAfter(n, p, rows[r][p], c).stored # Null
  <2>1. rows[r][p] = rows[Here][p]
    BY <1>22, <1>35, SettledEqual DEF M
  <2>2. rows[Here][p] \in Row /\ p \in Nat /\ p <= n.upto
    BY <1>1, <1>13, <1>16, HereIsCopy DEF RowsType, N
  <2>3. StoredAt(Here, p) # Null
    <3>1. CASE x.op = "set not null"
      <4>1. Reads(StoredAt(Here, p), Current) # Null
        BY <1>4, <1>22, <1>35, <3>1 DEF AloneInv
      <4> QED BY <4>1 DEF Reads, Missing, Null
    <3>2. CASE x.op = "type"
      <4>1. x.seen[3] = A
        BY <1>1, <1>22, <1>35, VersionType DEF A
      <4>2. ~Current.nullable
        BY <1>6, <1>7, <1>35, <3>2, <4>1 DEF Current, A
      <4>3. Reads(StoredAt(Here, p), Current) # Null
        BY <1>22, <1>35, <4>2, SettledNotNull, HereIsCopy DEF HasColumn, M
      <4> QED BY <4>3 DEF Reads, Missing, Null
    <3>3. x.op # "drop not null"
      BY <1>7, <1>35
    <3> QED BY <1>35, <3>1, <3>2, <3>3 DEF ConvertOps
  <2>4. RowAfter(n, p, rows[Here][p], c).stored =
          IF StoredAt(Here, p) = Missing THEN Missing ELSE Reads(StoredAt(Here, p), c)
    BY <1>6, <1>16, <2>2, RowAfterCases DEF StoredAt
  <2> QED BY <2>1, <2>3, <2>4 DEF Reads, Missing, Null
<1>36. UnracedInv'
  <2> SUFFICES ASSUME NEW i \in 1..Len(mutations'), ~mutations'[i].raced, NEW r \in Copies
               PROVE  /\ done[r] >= i - 1
                      /\ mutations'[i].after = A + 1 /\ (r = Here \/ ~EverRaced') =>
                           Passes(mutations[i], r)'
    BY <1>12, <1>21 DEF UnracedInv
  <2>1. CASE i \in 1..M
    <3>1. mutations'[i] = mutations[i]
      BY <1>18, <2>1
    <3>2. done[r] >= i - 1
      BY <1>1, <2>1, <3>1 DEF PendingInv, UnracedInv, M
    <3>3. mutations[i].after \in Nat /\ mutations[i].after <= A
      <4>1. mutations[i] \in MutationType
        BY <1>1, <2>1 DEF RowsType, M
      <4>2. mutations[i].after \in Nat
        BY <4>1 DEF MutationType
      <4> QED BY <1>1, <2>1, <4>2 DEF MutationsInv, M, A
    <3>4. mutations'[i].after # A + 1
      BY <1>13, <3>1, <3>3
    <3> QED BY <3>2, <3>4
  <2>2. CASE x.op \in ConvertOps /\ i = M + 1
    <3>1. mutations'[i] = n /\ ~e.raced
      BY <1>16, <1>18, <2>2
    <3>2. done[r] >= i - 1
      BY <1>13, <1>22, <2>2, <3>1
    <3>3. (r = Here \/ ~EverRaced') => r = Here \/ ~EverRaced
      BY <1>23
    <3>4. r = Here \/ ~EverRaced' => Passes(mutations[i], r)'
      BY <1>11, <1>12, <1>14, <1>35, <2>2, <3>1, <3>3 DEF Passes
    <3> QED BY <3>2, <3>4
  <2> QED BY <1>19, <2>1, <2>2
<1>37. ReplicasInv'
  <2> SUFFICES ASSUME ~EverRaced', NEW r \in Copies
               PROVE  /\ done[r] < Len(mutations') => mutations'[Len(mutations')].after = A + 1
                      /\ \A p \in Parts : Final(r, p)' = Final(Here, p)'
    BY <1>12, <1>14, <1>21 DEF ReplicasInv
  <2>1. ~EverRaced /\ ~e.raced
    BY <1>23
  <2>2. /\ \A q \in Copies : done[q] = M
        /\ \A q \in Copies, p \in Parts : rows[q][p] = rows[Here][p]
    BY <1>22, <2>1, SettledEqual DEF M
  <2>3. CASE x.op \in ConvertOps
    <3>1. Len(mutations') = M + 1 /\ mutations'[M + 1] = n /\ n.after = A + 1 /\ M # M + 1
      BY <1>13, <1>16, <1>18, <2>3
    <3>2. ASSUME NEW q \in Copies, NEW p \in Parts
          PROVE  Final(q, p)' = RowAfter(n, p, rows[Here][p], c)
      <4>1. done'[q] = M /\ rows'[q][p] = rows[Here][p]
        BY <1>11, <1>21, <2>2
      <4> QED BY <1>12, <3>1, <4>1 DEF Final
    <3> QED BY <3>1, <3>2, HereIsCopy
  <2>4. CASE x.op \notin ConvertOps
    <3>1. Len(mutations') = M
      BY <1>18, <2>4
    <3>2. ASSUME NEW q \in Copies, NEW p \in Parts
          PROVE  Final(q, p)' = rows[Here][p]
      <4>1. done'[q] = M /\ rows'[q][p] = rows[Here][p]
        BY <1>11, <1>21, <2>2
      <4> QED BY <3>1, <4>1 DEF Final
    <3>3. ~(done[r] < Len(mutations'))
      BY <1>13, <2>2, <3>1
    <3> QED BY <3>2, <3>3, HereIsCopy
  <2> QED BY <2>3, <2>4
<1>38. ASSUME NEW y \in Active, Good(y)
       PROVE  Good(y)'
  <2>0. y.seen \in Nat \X Nat \X Nat /\ y.seen[3] \in Nat /\ y.seen[2] \in Nat
    BY DEF Active
  <2>1. StepInv(y)'
    BY <1>14, <1>38 DEF Good, StepInv, Materializes
  <2>2. /\ y.seen[1] <= N /\ y.seen[2] <= M /\ 1 <= y.seen[3] /\ y.seen[3] <= A
        /\ y.op # "add" => LoadedColumn(y).exists
        /\ y.op \in AlterOps => alters[1].column.default_kind # "ALIAS"
        /\ y.op = "type" => Fits(Origin, y.arg)
    BY <1>38 DEF Good, SeenInv, N, M, A
  <2>3. SeenInv(y)'
    <3>1. y.seen[2] <= Len(mutations') /\ y.seen[3] <= Len(alters')
      BY <1>12, <1>13, <1>18, <2>0, <2>2
    <3>2. alters'[1] = alters[1] /\ alters'[y.seen[3]] = alters[y.seen[3]]
      <4>1. y.seen[3] \in 1..A
        BY <1>13, <2>0, <2>2
      <4> QED BY <1>12, <1>13, <4>1
    <3>3. LoadedColumn(y)' = LoadedColumn(y)
      BY <3>2 DEF LoadedColumn
    <3> QED BY <1>6, <1>12, <1>14, <1>28, <2>2, <3>1, <3>2, <3>3 DEF SeenInv
  <2>4. CheckedInv(y)'
    <3>1. CheckedInv(y)
      BY <1>38 DEF Good
    <3>2. \A p \in Parts : StoredAt(Here, p) = Missing /\ Current.default_kind # "" =>
            c.default_kind # ""
      <4>1. x.op = "drop default" => \A p \in Parts : StoredAt(Here, p) # Missing
        BY <1>4 DEF CheckedInv, DefaultOps
      <4> QED BY <1>4, <1>6, <1>7, <4>1 DEF AlterOps, ConvertOps
    <3> QED BY <1>12, <1>14, <1>26, <3>1, <3>2 DEF CheckedInv
  <2>5. AloneInv(y)'
    <3>1. Version'[3] = A + 1
      BY <1>12 DEF Version
    <3>2. y.seen # Version'
      BY <1>13, <2>0, <2>2, <3>1
    <3> QED BY <3>2, AloneVacuous
  <2> QED BY <2>1, <2>3, <2>4, <2>5 DEF Good
<1>39. SessionsType' /\ \A t \in Sessions : SessionInv(t)'
  BY <1>10, <1>38, SessionEnds
<1>40. PendingInv'
  BY <1>33, <1>34, <1>36, <1>37 DEF PendingInv
<1> QED BY <1>12, <1>27, <1>30, <1>31, <1>32, <1>39, <1>40 DEF Inv, TypeInv

-----------------------------------------------------------------------------
(* The invariant.                                                          *)

LEMMA InitInv == Init => Inv
<1> SUFFICES ASSUME Init
             PROVE  Inv
  OBVIOUS
<1>1. PICK table \in Tables :
        alters = <<[op |-> "create", column |-> table.column, upto |-> 0, raced |-> FALSE]>>
  BY DEF Init
<1>2. PICK column \in Column : /\ column = table.column
                               /\ column.default_kind # "" => column.default # Null
                               /\ ~column.exists => column = NoColumn
  BY TablesAssumption
<1>3. PICK e : e = [op |-> "create", column |-> column, upto |-> 0, raced |-> FALSE]
  OBVIOUS
<1>4. e \in Alter /\ e.op = "create" /\ e.column = column /\ e.upto = 0 /\ e.raced = FALSE
  BY <1>3 DEF Alter
<1>5. alters = <<e>>
  BY <1>1, <1>2, <1>3
<1>6. alters \in Seq(Alter) /\ Len(alters) = 1 /\ alters[1] = e
  BY <1>4, <1>5
<1>7. /\ applied = [r \in Copies |-> 1] /\ mutations = <<>> /\ done = [r \in Copies |-> 0]
      /\ rows = [r \in Copies |-> <<>>] /\ sessions = [s \in Sessions |-> Idle]
  BY DEF Init
<1>8. Parts = {} /\ Len(rows[Here]) = 0 /\ Len(mutations) = 0
  BY <1>7, HereIsCopy DEF Parts
<1>9. AltersType
  <2>1. applied \in [Copies -> Nat] /\ applied[Here] = 1 /\ \A r \in Copies : applied[r] = 1
    BY <1>7, HereIsCopy
  <2> QED BY <1>6, <2>1 DEF AltersType
<1>10. RowsType
  <2>1. <<>> \in Seq(Row) /\ <<>> \in Seq(MutationType)
    OBVIOUS
  <2> QED BY <1>7, <2>1, HereIsCopy DEF RowsType
<1>11. SessionsType
  BY <1>7 DEF SessionsType
<1>12. Current = column /\ (column.exists => Origin = column.type)
  BY <1>4, <1>6 DEF Current, Origin
<1>13. LogInv
  <2>1. \A i \in 1..Len(alters) : i = 1 /\ ~(i >= 2) /\ alters[i] = e
    BY <1>6
  <2>2. Fits(column.type, column.type)
    BY DEF Fits
  <2>3. \A i \in 2..Len(alters) : FALSE
    BY <1>6
  <2> QED BY <1>2, <1>4, <1>6, <1>12, <2>1, <2>2, <2>3 DEF LogInv
<1>14. MutationsInv
  <2>1. \A i \in 1..Len(alters) : alters[i].upto = 0
    BY <1>4, <1>6
  <2> QED BY <1>8, <2>1 DEF MutationsInv
<1>15. PartsInv
  <2>1. NothingInv /\ StoredInv /\ SameMissing /\ DefaultInv /\ MemoryInv /\ AddInv
    BY <1>7, <1>8 DEF NothingInv, StoredInv, SameMissing, DefaultInv, MemoryInv, AddInv
  <2>2. KeepInv
    BY <1>8 DEF KeepInv
  <2> QED BY <2>1, <2>2 DEF PartsInv
<1>16. PendingInv
  <2>1. NullInv
    BY <1>8 DEF NullInv
  <2>2. CountInv /\ UnracedInv
    BY <1>8 DEF CountInv, UnracedInv
  <2>3. ReplicasInv
    BY <1>7, <1>8 DEF ReplicasInv
  <2> QED BY <2>1, <2>2, <2>3 DEF PendingInv
<1>17. \A s \in Sessions : SessionInv(s)
  BY <1>7 DEF SessionInv, At, Idle
<1> QED BY <1>9, <1>10, <1>11, <1>13, <1>14, <1>15, <1>16, <1>17 DEF Inv, TypeInv

LEMMA ModifyInv ==
    ASSUME Inv, NEW s \in Sessions, Modify(s)
    PROVE  Inv'
<1>1. CASE Current.exists
  BY <1>1, ModifyOtherInv DEF HasColumn
<1>2. CASE ~Current.exists
  BY <1>2, ModifyAddInv
<1> QED BY <1>1, <1>2

LEMMA NextInv ==
    ASSUME Inv, [Next]_vars
    PROVE  Inv'
<1>1. ASSUME NEW s \in Sessions, Statement(s)
      PROVE  Inv'
  BY <1>1, BeginsInv, CountRowsInv, CountPartsInv, CountStoredRowsInv, StoreInv, RecountInv,
     ModifyInv, CheckNullsInv, CountAffectedInv, ExecuteInv, WaitInv, FailInv DEF Statement
<1>2. ASSUME NEW value \in Values \cup {Null}, Insert(value)
      PROVE  Inv'
  BY <1>2, InsertInv
<1>3. ASSUME NEW r \in Copies, Mutate(r) \/ ApplyAlter(r)
      PROVE  Inv'
  BY <1>3, MutateInv, ApplyAlterInv
<1>4. CASE UNCHANGED vars
  <2>1. UNCHANGED server /\ sessions' = sessions
    BY <1>4 DEF vars
  <2>2. \A y \in Active : Good(y) => Good(y)'
    BY <2>1, ServerUnchanged DEF Good
  <2>3. SessionsType' /\ \A t \in Sessions : SessionInv(t)'
    BY <2>1, <2>2, SessionsSame
  <2>4. /\ LogInv' /\ MutationsInv' /\ PartsInv' /\ PendingInv' /\ AltersType' /\ RowsType'
    BY <2>1, ServerUnchanged DEF Inv, TypeInv
  <2> QED BY <2>3, <2>4 DEF Inv, TypeInv
<1> QED BY <1>1, <1>2, <1>3, <1>4 DEF Next

LEMMA InvHolds == Spec => []Inv
<1>1. Inv /\ [Next]_vars => Inv'
  BY NextInv
<1> QED BY <1>1, InitInv, PTL DEF Spec

-----------------------------------------------------------------------------
(* The properties.                                                         *)

LEMMA StuckFromInv == Inv => StuckOnlyWhenRaced
<1> SUFFICES ASSUME Inv, NEW r \in Copies, Stuck(r), ~NextMutation(r).raced,
                    ~(Len(alters) > NextMutation(r).after), r = Here \/ ~EverRaced
             PROVE  FALSE
  BY DEF StuckOnlyWhenRaced
<1>1. PICK m : m = NextMutation(r)
  OBVIOUS
<1>2. Ready(r) /\ Fails(m, r)
  BY <1>1 DEF Stuck
<1>3. /\ done[r] + 1 \in 1..Len(mutations) /\ m \in MutationType /\ m = mutations[done[r] + 1]
      /\ ColumnAt(r).exists /\ ColumnAt(r) \in Column
  BY <1>1, <1>2, MutationFindsColumn DEF Inv, NextMutation
<1>4. m.after = Len(alters)
  <2>1. m.after \in Nat /\ Len(alters) \in Nat
    BY <1>3, Lengths DEF Inv, MutationType
  <2>2. m.after <= Len(alters)
    BY <1>3 DEF Inv, MutationsInv
  <2> QED BY <1>1, <2>1, <2>2
<1>5. ColumnAt(r) = Current
  <2>1. applied[r] >= Len(alters)
    BY <1>1, <1>2, <1>4 DEF Ready
  <2>2. applied[r] \in 1..Len(alters) /\ Len(alters) \in Nat
    BY Columns, Lengths DEF Inv, TypeInv
  <2>3. applied[r] = Len(alters)
    BY <2>1, <2>2
  <2> QED BY <2>3 DEF ColumnAt, Current
<1>6. Passes(m, r)
  <2>1. done[r] < done[r] + 1
    BY <1>3 DEF Inv, TypeInv, RowsType
  <2>2. UnracedInv /\ ~mutations[done[r] + 1].raced
    BY <1>1, <1>3 DEF Inv, PendingInv
  <2> QED BY <1>3, <1>4, <2>1, <2>2 DEF UnracedInv
<1>7. PICK p \in Parts : p <= m.upto /\ Rewritten(m, r, p).stored = Null
  BY <1>2 DEF Fails
<1>8. Rewritten(m, r, p) = RowAfter(m, p, rows[r][p], Current)
  BY <1>3, <1>5, RewrittenIsRowAfter DEF Inv, TypeInv
<1>9. m.kind # "delete" /\ ~Current.nullable
  BY <1>2, <1>5 DEF Fails
<1> QED BY <1>6, <1>7, <1>8, <1>9 DEF Passes

\* A mutation that can never finish was raced, or a later ALTER changed the
\* column, or it stands on another replica after an earlier race: what SET NOT
\* NULL and UPDATE check before they send a mutation is enough otherwise.
THEOREM StuckMutationsWereRaced == Spec => []StuckOnlyWhenRaced
BY InvHolds, StuckFromInv, PTL

LEMMA CountFromInv == Inv => CountIsAffected
<1> SUFFICES ASSUME Inv, NEW i \in 1..done[Here], mutations[i].kind \in {"update", "delete"},
                    ~mutations[i].raced
             PROVE  mutations[i].count = mutations[i].changed
  BY DEF CountIsAffected
<1>1. done[Here] \in Nat /\ done[Here] <= Len(mutations)
  BY HereIsCopy DEF Inv, TypeInv, RowsType
<1>2. i \in 1..Len(mutations) /\ i <= done[Here]
  BY <1>1, Lengths DEF Inv
<1> QED BY <1>2 DEF Inv, PendingInv, CountInv

\* The count that an UPDATE or DELETE returns, taken before the statement was
\* sent, is the number of rows its mutation changed, unless it was raced.
THEOREM CountsAreRowsChanged == Spec => []CountIsAffected
BY InvHolds, CountFromInv, PTL

\* ReadIsReads in the next state.
LEMMA ReadIsReadsNext ==
    ASSUME AltersType', LogInv', NEW r \in Copies', NEW p, ColumnAt(r)'.exists
    PROVE  ReadAt(r, p)' = Reads(StoredAt(r, p)', ColumnAt(r)')
<1>1. applied'[r] \in 1..Len(alters')
  BY DEF AltersType
<1>2. Fits(Origin', ColumnAt(r)'.type)
  BY <1>1 DEF LogInv, ColumnAt
<1>3. \A v : Converted(v, ColumnAt(r))' = v
  BY <1>2 DEF Converted
<1> QED BY <1>3 DEF ReadAt, Reads, Absent, StoredAt

\* The steps at which a replica applies a change of the column.
LEMMA AppliesCases ==
    ASSUME Inv, [Next]_vars, NEW r \in Copies, Applies(r)
    PROVE  ApplyAlter(r) \/ (r = Here /\ \E s \in Sessions : Modify(s))
<1>1. applied \in [Copies -> Nat] /\ applied[r] \in Nat
  BY DEF Inv, TypeInv, AltersType
<1>2. applied' # applied
  BY <1>1 DEF Applies
<1>3. ASSUME NEW s \in Sessions, Statement(s), ~Modify(s)
      PROVE  FALSE
  <2> USE DEF server, Begin
  <2>1. CASE \E default \in Values \cup {Null} : AddColumn(s, default)
    BY <1>2, <2>1 DEF AddColumn
  <2>2. CASE \E sync \in Syncs : \/ \E default \in Values : SetDefault(s, "set default", default, sync)
                                 \/ SetDefault(s, "drop default", Null, sync)
    BY <1>2, <2>2 DEF SetDefault
  <2>3. CASE SetNotNull(s) \/ DropNotNull(s)
    BY <1>2, <2>3 DEF SetNotNull, DropNotNull
  <2>4. CASE \E target \in Types : ChangeType(s, target)
    BY <1>2, <2>4 DEF ChangeType
  <2>5. CASE (\E value \in Values : Update(s, value)) \/ (\E value \in Values \cup {Null} : Delete(s, value))
    BY <1>2, <2>5 DEF Update, Delete
  <2>6. CASE CountRows(s) \/ CountPartsWithout(s) \/ CountStoredRows(s) \/ Recount(s) \/ CheckNulls(s)
    BY <1>2, <2>6 DEF CountRows, CountPartsWithout, CountStoredRows, Recount, CheckNulls
  <2>7. CASE StoreInEveryPart(s) \/ CountAffected(s) \/ Execute(s) \/ Wait(s) \/ Fail(s)
    BY <1>2, <2>7 DEF StoreInEveryPart, CountAffected, Execute, Wait, Fail
  <2> QED BY <1>3, <2>1, <2>2, <2>3, <2>4, <2>5, <2>6, <2>7 DEF Statement
<1>4. ASSUME NEW s \in Sessions, Modify(s)
      PROVE  r = Here
  <2>1. applied' = [applied EXCEPT ![Here] = Len(alters')]
    BY <1>4 DEF Modify
  <2>2. r # Here => applied'[r] = applied[r]
    BY <1>1, <2>1
  <2> QED BY <1>1, <2>2 DEF Applies
<1>5. ASSUME NEW value \in Values \cup {Null}, Insert(value)
      PROVE  FALSE
  BY <1>2, <1>5 DEF Insert
<1>6. ASSUME NEW q \in Copies, Mutate(q)
      PROVE  FALSE
  BY <1>2, <1>6 DEF Mutate
<1>7. ASSUME NEW q \in Copies, ApplyAlter(q)
      PROVE  q = r
  <2>1. applied' = [applied EXCEPT ![q] = applied[q] + 1]
    BY <1>7 DEF ApplyAlter
  <2>2. q # r => applied'[r] = applied[r]
    BY <1>1, <2>1
  <2> QED BY <1>1, <2>2 DEF Applies
<1>8. ~UNCHANGED vars
  BY <1>2 DEF vars, server
<1>9. CASE \E s \in Sessions : Statement(s)
  BY <1>3, <1>4, <1>9
<1>10. CASE \E q \in Copies : Mutate(q) \/ ApplyAlter(q)
  BY <1>6, <1>7, <1>10
<1> QED BY <1>5, <1>8, <1>9, <1>10 DEF Next

\* What the next change of the column is to a replica.
LEMMA NextChange ==
    ASSUME Inv, NEW r \in Copies, ApplyAlter(r)
    PROVE  LET i == applied[r] + 1 IN
           /\ i \in 2..Len(alters) /\ i \in 1..Len(alters) /\ applied[r] < i /\ i - 1 = applied[r]
           /\ alters' = alters /\ rows' = rows /\ Copies' = Copies /\ applied'[r] = i
           /\ ColumnAt(r)' = alters[i].column /\ alters[i].column.exists
<1>1. /\ applied \in [Copies -> Nat] /\ applied[r] \in Nat /\ 1 <= applied[r]
      /\ applied[r] < Len(alters)
  BY DEF Inv, TypeInv, AltersType, ApplyAlter
<1>2. Len(alters) \in Nat
  BY Lengths DEF Inv
<1>3. PICK i \in Nat : i = applied[r] + 1
  BY <1>1
<1>4. i \in 2..Len(alters) /\ i \in 1..Len(alters) /\ applied[r] < i /\ i - 1 = applied[r] /\ i >= 2
  BY <1>1, <1>2, <1>3
<1>5. alters' = alters /\ rows' = rows /\ Copies' = Copies /\ applied'[r] = i
  BY <1>1, <1>3 DEF ApplyAlter, Copies, Replicated
<1>6. ColumnAt(r)' = alters[i].column
  BY <1>5 DEF ColumnAt
<1>7. alters[i].column.exists
  BY <1>4 DEF Inv, LogInv
<1> QED BY <1>3, <1>4, <1>5, <1>6, <1>7

LEMMA KeepsValuesStep ==
    ASSUME Inv, [Next]_vars, NEW r \in Copies, Applies(r), ~AppliedAlter(r).raced,
           ColumnAt(r).exists, NEW p \in Parts
    PROVE  ReadAt(r, p)' = ReadAt(r, p)
<1>1. Inv' /\ AltersType' /\ LogInv'
  BY NextInv DEF Inv, TypeInv
<1>2. ReadAt(r, p) = Reads(StoredAt(r, p), ColumnAt(r))
  BY ReadIsReads DEF Inv, TypeInv
<1>3. CASE ApplyAlter(r)
  <2>1. PICK i : i = applied[r] + 1
    OBVIOUS
  <2>2. /\ i \in 2..Len(alters) /\ i \in 1..Len(alters) /\ applied[r] < i /\ i - 1 = applied[r]
        /\ alters' = alters /\ rows' = rows /\ Copies' = Copies /\ applied'[r] = i
        /\ ColumnAt(r)' = alters[i].column /\ alters[i].column.exists
    BY <1>3, <2>1, NextChange
  <2>3. ReadAt(r, p)' = Reads(StoredAt(r, p), alters[i].column)
    <3>1. r \in Copies' /\ ColumnAt(r)'.exists /\ StoredAt(r, p)' = StoredAt(r, p)
      BY <2>2 DEF StoredAt
    <3> QED BY <1>1, <2>2, <3>1, ReadIsReadsNext
  <2>4. ~alters[i].raced /\ alters[i - 1].column = ColumnAt(r)
    BY <2>2 DEF AppliedAlter, ColumnAt
  <2>5. StoredAt(r, p) = Missing => Absent(alters[i].column) = Absent(ColumnAt(r))
    BY <2>2, <2>4 DEF Inv, PartsInv, KeepInv
  <2> QED BY <1>2, <2>3, <2>5 DEF Reads
<1>4. ASSUME r = Here, NEW s \in Sessions, Modify(s)
      PROVE  ReadAt(r, p)' = ReadAt(r, p)
  <2>1. Current.exists /\ ColumnAt(r) = Current
    BY <1>4, Columns DEF Inv, TypeInv
  <2>2. At(s, "modify") /\ Accepts(sessions[s].op)
    BY <1>4 DEF Modify
  <2>3. Modified(sessions[s]).exists /\ sessions[s].op # "add"
    BY <2>1, <2>2, ModifiedColumn
  <2>4. rows' = rows
    BY <1>4, <2>3 DEF Modify
  <2>5. Len(alters) \in Nat /\ alters \in Seq(Alter)
    BY DEF Inv, TypeInv, AltersType
  <2>6. alters'[Len(alters')].column = Modified(sessions[s])
    <3>1. PICK e : /\ e.column = Modified(sessions[s])
                   /\ alters' = Append(alters, e)
      BY <1>4 DEF Modify
    <3>2. alters'[Len(alters')] = e
      BY <2>5, <3>1
    <3> QED BY <3>1, <3>2
  <2>7. ColumnAt(r)' = Modified(sessions[s]) /\ Copies' = Copies
    <3>1. applied'[Here] = Len(alters')
      BY <1>1 DEF AltersType
    <3> QED BY <1>4, <2>6, <3>1 DEF ColumnAt, Modify, Copies, Replicated
  <2>8. ReadAt(r, p)' = Reads(StoredAt(r, p), Modified(sessions[s]))
    <3>1. r \in Copies' /\ ColumnAt(r)'.exists /\ StoredAt(r, p)' = StoredAt(r, p)
      BY <2>3, <2>4, <2>7 DEF StoredAt
    <3> QED BY <1>1, <2>7, <3>1, ReadIsReadsNext
  <2>9. StoredAt(r, p) = Missing => Absent(Modified(sessions[s])) = Absent(Current)
    BY <1>4, <2>1, <2>2, ModifiedKeepsAbsent
  <2> QED BY <1>2, <2>1, <2>8, <2>9 DEF Reads
<1> QED BY <1>3, <1>4, AppliesCases

\* No ALTER COLUMN that was not raced changes what a stored row reads as, on any
\* replica.
THEOREM AltersKeepWhatRowsRead == Spec => AlterKeepsValues
<1>1. Inv /\ [Next]_vars =>
        [\A r \in Copies : Applies(r) /\ ~AppliedAlter(r).raced /\ ColumnAt(r).exists =>
            \A p \in Parts : ReadAt(r, p)' = ReadAt(r, p)]_vars
  BY KeepsValuesStep
<1> QED BY <1>1, InvHolds, PTL DEF Spec, AlterKeepsValues

LEMMA GivesDefaultStep ==
    ASSUME Inv, [Next]_vars, NEW r \in Copies, Applies(r), ~AppliedAlter(r).raced,
           AppliedAlter(r).op = "add", NEW p \in Parts, p <= AppliedAlter(r).upto
    PROVE  ReadAt(r, p)' = AppliedAlter(r).column.default
<1>1. Inv' /\ AltersType' /\ LogInv'
  BY NextInv DEF Inv, TypeInv
<1>2. PICK k : k = applied'[r]
  OBVIOUS
<1>3. r \in Copies' /\ k \in 1..Len(alters')
  <2>1. Copies' = Copies
    <3>1. engine' = engine
      BY AppliesCases DEF ApplyAlter, Modify
    <3> QED BY <3>1 DEF Copies, Replicated
  <2>2. r \in Copies'
    BY <2>1
  <2> QED BY <1>1, <1>2, <2>2 DEF AltersType
<1>4. PICK c : c = AppliedAlter(r).column
  OBVIOUS
<1>5. /\ c = ColumnAt(r)' /\ c.exists /\ c.nullable
      /\ c.default_kind = "" => c.default = Null
  <2>1. c = alters'[k].column /\ c = ColumnAt(r)'
    BY <1>2, <1>4 DEF AppliedAlter, ColumnAt
  <2>2. alters'[k].op = "add"
    BY <1>2 DEF AppliedAlter
  <2>3. k = 2
    BY <1>1, <1>3, <2>2 DEF LogInv
  <2>4. k >= 2
    BY <2>3
  <2>5. /\ k >= 2 => alters'[k].column.exists
        /\ alters'[k].column.nullable
        /\ alters'[k].column.default_kind = "" => alters'[k].column.default = Null
    BY <1>1, <1>3, <2>2 DEF LogInv
  <2> QED BY <2>1, <2>4, <2>5, Zenon
<1>6. ReadAt(r, p)' = Reads(StoredAt(r, p)', c)
  BY <1>1, <1>3, <1>5, ReadIsReadsNext
<1>7. Absent(c) = c.default
  BY <1>5 DEF Absent
<1>8. CASE ApplyAlter(r)
  <2>1. StoredAt(r, p)' = Missing
    <3>1. /\ k \in 1..Len(alters) /\ applied[r] < k /\ alters' = alters /\ rows' = rows
      BY <1>2, <1>8, NextChange
    <3>2. alters[k].op = "add" /\ p <= alters[k].upto
      BY <1>2, <3>1 DEF AppliedAlter
    <3>3. StoredAt(r, p) = Missing
      BY <3>1, <3>2 DEF Inv, PartsInv, AddInv
    <3> QED BY <3>1, <3>3 DEF StoredAt
  <2> QED BY <1>4, <1>6, <1>7, <2>1 DEF Reads
<1>9. ASSUME r = Here, NEW s \in Sessions, Modify(s)
      PROVE  ReadAt(r, p)' = AppliedAlter(r).column.default
  <2> DEFINE x == sessions[s]
  <2>1. At(s, "modify") /\ ~At(s, "idle") /\ ~At(s, "wait") /\ Accepts(x.op)
    BY <1>9 DEF Modify, At
  <2>2. /\ alters' = Append(alters, [op |-> x.op, column |-> Modified(x),
                                     upto |-> Len(rows[Here]), raced |-> Raced(s)])
        /\ applied' = [applied EXCEPT ![Here] = Len(alters')]
    BY <1>9 DEF Modify
  <2>3. alters'[Len(alters')] = [op |-> x.op, column |-> Modified(x),
                                 upto |-> Len(rows[Here]), raced |-> Raced(s)]
    <3>1. alters \in Seq(Alter)
      BY DEF Inv, TypeInv, AltersType
    <3> HIDE DEF x
    <3> QED BY <2>2, <3>1
  <2>4. AppliedAlter(r) = alters'[Len(alters')]
    <3>1. applied'[Here] = Len(alters')
      BY <1>1 DEF AltersType
    <3> QED BY <1>9, <3>1 DEF AppliedAlter
  <2>5. x.op = "add" /\ ~Raced(s) /\ c = Modified(x)
    BY <1>4, <2>3, <2>4
  <2>6. ~Current.exists
    BY <2>1, <2>5 DEF Accepts
  <2>7. rows[Here][p].stored = Missing /\ ~rows[Here][p].masked
    BY <2>6, HereIsCopy DEF Inv, PartsInv, NothingInv
  <2>8. CASE MergeTree
    <3>1. StoredAt(r, p)' = Missing
      BY <1>9, <2>7, <2>8 DEF Modify, StoredAt
    <3> QED BY <1>4, <1>6, <1>7, <3>1 DEF Reads
  <2>9. CASE ~MergeTree
    <3>1. x.settled /\ x.seen = Version
      BY <2>1, <2>5, NotRaced
    <3>2. AloneInv(x) /\ x.pc = "modify"
      BY <2>1, ActiveFacts DEF At
    <3>3. x.arg # Null => rows[Here][p].masked
      BY <2>5, <2>9, <3>1, <3>2 DEF AloneInv
    <3>4. x.arg = Null
      BY <2>7, <3>3
    <3>5. c.default = Null
      BY <2>5, <3>4 DEF Modified
    <3>6. StoredAt(r, p)' = Null
      <4>1. rows' = [rows EXCEPT ![Here] = [q \in Parts |-> [rows[Here][q] EXCEPT !.stored = Null]]]
        BY <1>9, <2>5, <2>9 DEF Modify
      <4>2. rows'[Here] = [q \in Parts |-> [rows[Here][q] EXCEPT !.stored = Null]]
        BY <4>1, HereIsCopy DEF Inv, TypeInv, RowsType
      <4>3. rows'[Here][p] = [rows[Here][p] EXCEPT !.stored = Null]
        BY <4>2
      <4>4. rows[Here][p] \in Row
        BY Lengths, HereIsCopy DEF Inv, TypeInv, RowsType
      <4>5. rows'[Here][p].stored = Null
        BY <4>3, <4>4 DEF Row
      <4> QED BY <1>9, <4>5 DEF StoredAt
    <3> QED BY <1>4, <1>6, <3>5, <3>6 DEF Reads, Null, Missing
  <2> QED BY <2>8, <2>9
<1> QED BY <1>8, <1>9, AppliesCases

\* An ADD COLUMN that was not raced gives the rows the table held its default,
\* whatever the engine, on every replica.
THEOREM AddedColumnsReadAsDefault == Spec => AddGivesDefault
<1>1. Inv /\ [Next]_vars =>
        [\A r \in Copies : Applies(r) /\ ~AppliedAlter(r).raced /\ AppliedAlter(r).op = "add" =>
            \A p \in Parts : p <= AppliedAlter(r).upto =>
                ReadAt(r, p)' = AppliedAlter(r).column.default]_vars
  BY GivesDefaultStep
<1> QED BY <1>1, InvHolds, PTL DEF Spec, AddGivesDefault
=============================================================================
