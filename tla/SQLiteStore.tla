----------------------------- MODULE SQLiteStore -----------------------------
(***************************************************************************)
(* The tables of a database of the SQLite engine: how an opening migrates  *)
(* them to the schemas it is given, how objects are inserted in batches,   *)
(* updated and deleted, and which of these changes the update hook tells   *)
(* to watchers.                                                            *)
(*                                                                         *)
(* The engine keeps no schema of its own.  It reads the old one back from  *)
(* the tables: the types from the declared types of the columns, and the   *)
(* name of an index from the name of the SQLite index, which is that of    *)
(* the table and that of the index joined by an underscore.  Names of      *)
(* tables and indexes are therefore sequences of the parts between their   *)
(* underscores.                                                            *)
(*                                                                         *)
(* SQLite itself is external: a transaction works on a copy of the file    *)
(* that a commit puts in its place, and a statement either does what its   *)
(* documentation says or fails.  The engine does not quote names, so       *)
(* SQLite takes two that differ in case only for one, and refuses those    *)
(* that mean something else in a statement.  The engine itself compares    *)
(* them with case.                                                         *)
(***************************************************************************)
EXTENDS SchemaChanges, FiniteSets, FiniteSetsExt, SequencesExt

CONSTANTS
  Id,         \* object ids
  Value,      \* values of properties
  Null,
  Schemas,    \* the lists of schemas an application may open with
  Watched,    \* collections with watchers
  Lower(_),   \* a part of a name, or a declared type, in lower case
  Refused,    \* the names, in lower case, that SQLite refuses: keywords, those
              \* it reserves, and for a column that of the id.  A column's name
              \* is a sequence of one.
  MaxParams,  \* SQLite3::MAX_PARAM_COUNT
  MaxObjects, \* bound on the objects of one putAll
  MaxOpens,   \* bound on the openings
  MaxWrites   \* bound on the objects written

DataTypes == {"i32", "text", "json"}

Types == [data : DataTypes, target : {None}] \cup [data : {"object"}, target : STRING]

Column == [name : STRING, type : Types]
Index  == [name : Seq(STRING), props : Seq(STRING), unique : BOOLEAN, hash : BOOLEAN]

OneEach(indexes) == \A i, j \in indexes : i.name = j.name => i = j

\* What IsarSchema::verify asks of a schema.  Nothing calls it when a database
\* is opened; the code generator refuses the same schemas at build time.
Verified(schema) ==
  /\ schema \in [name : Seq(STRING), props : Seq(Column), indexes : SUBSET Index,
                 embedded : BOOLEAN]
  /\ schema.embedded => schema.indexes = {}
  /\ \A m, n \in DOMAIN schema.props : schema.props[m].name = schema.props[n].name => m = n
  /\ OneEach(schema.indexes)
  /\ \A i \in schema.indexes : \A n \in DOMAIN i.props :
       /\ i.props[n] \in Live(schema.props)
       /\ TypeIn(schema.props, i.props[n]).data \notin {"object", "json"}

ASSUME SQLiteStoreAssumption ==
  /\ MaxParams \in Nat /\ MaxObjects \in Nat /\ MaxOpens \in Nat /\ MaxWrites \in Nat
  /\ None \notin STRING /\ None \notin Watched
  /\ \A type \in DataTypes : Lower(type) = type
  \* A list names a collection once: the Dart side makes it from a set.
  /\ \A list \in Schemas :
       /\ Len(list) \in Nat /\ DOMAIN list = 1..Len(list)
       /\ \A m, n \in DOMAIN list : list[m].name = list[n].name => m = n
       /\ \A n \in DOMAIN list : Verified(list[n])

VARIABLES
  disk,     \* the committed database
  work,     \* the database as the open transaction sees it
  phase,    \* "closed", "failed" (to open), "migrating", "open", "write" or "stuck"
  want,     \* the schemas that the database is opened with
  names,    \* the tables that were there when the migration began
  step,     \* the collection in turn
  hook,     \* the collection the update hook of the connection reports to
  told,     \* the <<collection, id>> the change set of the transaction holds
  \* What the application knows, for the properties below.
  wrote,    \* the <<collection, id>> it wrote in this transaction
  meant,    \* what the objects are, as it wrote them one after the other
  kept,     \* what they are when the transaction is undone
  opens, writes

vars == <<disk, work, phase, want, names, step, hook, told, wrote, meant, kept, opens, writes>>

Collection == UNION {{list[n].name : n \in DOMAIN list} : list \in Schemas}

Without(f, S) == [x \in DOMAIN f \ S |-> f[x]]
Set(f, S, v) == [x \in DOMAIN f \cup S |-> IF x \in S THEN v ELSE f[x]]

Empty == [tables |-> <<>>, indexes |-> {}]

Init ==
  /\ disk = Empty /\ work = Empty
  /\ phase = "closed" /\ want = <<>> /\ names = {} /\ step = 0
  /\ hook = None /\ told = {} /\ wrote = {} /\ meant = <<>> /\ kept = <<>>
  /\ opens = 0 /\ writes = 0

-----------------------------------------------------------------------------
(* Statements, on a database.  None of them is reached once one has failed. *)
(* Those of one kind are taken together: they fail if one of them does, and *)
(* touch different columns and indexes in whatever order they come.         *)

\* What a failed statement leaves.
Failed == [failed |-> TRUE]

Fold(name) == [n \in DOMAIN name |-> Lower(name[n])]

NamesIn(d) == DOMAIN d.tables \cup {i.name : i \in d.indexes}

\* What no other table or index can be called.
Taken(d) == Refused \cup {Fold(name) : name \in NamesIn(d)}

\* Columns that a table cannot have.
BadColumns(cols) ==
  \/ \E n \in DOMAIN cols : <<Lower(cols[n].name)>> \in Refused
  \/ \E m, n \in DOMAIN cols : m # n /\ Lower(cols[m].name) = Lower(cols[n].name)

\* No value is equal to a null.
SameKey(row, other, props) ==
  \A n \in DOMAIN props : row[props[n]] # Null /\ row[props[n]] = other[props[n]]

Duplicates(rows, props) ==
  \E x, y \in DOMAIN rows : x # y /\ SameKey(rows[x], rows[y], props)

CreateTable(d, schema) ==
  IF Fold(schema.name) \in Taken(d) \/ BadColumns(schema.props) THEN Failed
  ELSE [d EXCEPT !.tables = Set(@, {schema.name}, [cols |-> schema.props, rows |-> <<>>])]

AddColumn(d, c, cols) ==
  IF d = Failed THEN Failed
  ELSE IF BadColumns(d.tables[c].cols \o cols) THEN Failed
  ELSE [d EXCEPT !.tables[c] =
          [cols |-> @.cols \o cols,
           rows |-> [id \in DOMAIN @.rows |-> Set(@.rows[id], Live(cols), Null)]]]

\* A column that an index is on cannot be dropped.
DropColumn(d, c, gone) ==
  IF d = Failed THEN Failed
  ELSE IF \E i \in d.indexes : i.table = c /\ \E n \in DOMAIN i.props : i.props[n] \in gone
  THEN Failed
  ELSE [d EXCEPT !.tables[c] =
          [cols |-> Named(@.cols, Live(@.cols) \ gone),
           rows |-> [id \in DOMAIN @.rows |-> Without(@.rows[id], gone)]]]

\* index_name: joined by an underscore.
IndexName(c, index) == c \o index

IndexOn(c, i) ==
  [name |-> IndexName(c, i.name), table |-> c, props |-> i.props, unique |-> i.unique]

Distinct(c, indexes) ==
  \A i, j \in indexes : Fold(IndexName(c, i.name)) = Fold(IndexName(c, j.name)) => i = j

CreateIndex(d, c, new) ==
  IF d = Failed THEN Failed
  ELSE IF \/ ~Distinct(c, new)
          \/ \E i \in new : Fold(IndexName(c, i.name)) \in Taken(d)
          \/ \E i \in new : i.unique /\ Duplicates(d.tables[c].rows, i.props)
  THEN Failed
  ELSE [d EXCEPT !.indexes = @ \cup {IndexOn(c, i) : i \in new}]

\* An index that does not exist, or not any more, cannot be dropped.
DropIndex(d, c, gone) ==
  LET stored == {Fold(IndexName(c, i.name)) : i \in gone}
  IN IF d = Failed THEN Failed
     ELSE IF ~Distinct(c, gone) \/ ~(stored \subseteq {Fold(i.name) : i \in d.indexes}) THEN Failed
     ELSE [d EXCEPT !.indexes = {i \in @ : Fold(i.name) \notin stored}]

DropTables(d, gone) ==
  [tables |-> Without(d.tables, gone), indexes |-> {i \in d.indexes : i.table \notin gone}]

-----------------------------------------------------------------------------
(* Migration.                                                              *)

\* The declared type of a column, without the suffix _TEXT, is that of the
\* data type, or the name of the target collection of an embedded object.
DataTypeSql(type) == IF type.data = "object" THEN type.target ELSE type.data

\* Read back, the names of the data types come first, in any case.
SqlDataType(declared) ==
  IF Lower(declared) \in DataTypes THEN [data |-> Lower(declared), target |-> None]
  ELSE [data |-> "object", target |-> declared]

ReadColSchema(d, c) ==
  LET cols == d.tables[c].cols
  IN [props |-> [n \in DOMAIN cols |->
                   [name |-> cols[n].name, type |-> SqlDataType(DataTypeSql(cols[n].type))]],
      indexes |-> {[name |-> <<Last(i.name)>>, props |-> i.props, unique |-> i.unique,
                    hash |-> FALSE, stored |-> i.name] : i \in {x \in d.indexes : x.table = c}}]

\* Mutant: columns are dropped while the indexes on them are there.
UpdateTableColumnsFirst(d, schema) ==
  LET c   == schema.name
      old == ReadColSchema(d, c)
      d1  == DropColumn(d, c, DropProperties(schema, old))
      d2  == DropIndex(d1, c, DropIndexes(schema, old))
      d3  == AddColumn(d2, c, AddProperties(schema, old))
  IN CreateIndex(d3, c, AddIndexes(schema, old))

UpdateTable(d, schema) ==
  LET c   == schema.name
      old == ReadColSchema(d, c)
      d1  == DropIndex(d, c, DropIndexes(schema, old))
      d2  == DropColumn(d1, c, DropProperties(schema, old))
      d3  == AddColumn(d2, c, AddProperties(schema, old))
  IN CreateIndex(d3, c, AddIndexes(schema, old))

NewTable(d, schema) == CreateIndex(CreateTable(d, schema), schema.name, schema.indexes)

Migrated(d, schema) ==
  IF schema.embedded THEN d
  ELSE IF schema.name \in names THEN UpdateTable(d, schema)
  ELSE NewTable(d, schema)

\* The transaction ends and what it did is undone.
Undone == work' = disk /\ meant' = kept /\ wrote' = {} /\ told' = {}

OpenStart ==
  /\ phase \in {"closed", "failed"} /\ opens < MaxOpens
  /\ want' \in Schemas
  /\ names' = DOMAIN disk.tables
  /\ phase' = "migrating" /\ step' = 1 /\ opens' = opens + 1
  /\ UNCHANGED <<disk, work, hook, told, wrote, meant, kept, writes>>

MigrateTable ==
  /\ phase = "migrating" /\ step \in DOMAIN want
  /\ Migrated(work, want[step]) # Failed
  /\ work' = Migrated(work, want[step])
  /\ step' = step + 1
  /\ UNCHANGED <<disk, phase, want, names, hook, told, wrote, meant, kept, opens, writes>>

\* guard rolls back, and the open fails.
OpenFails ==
  /\ phase = "migrating" /\ step \in DOMAIN want
  /\ Migrated(work, want[step]) = Failed
  /\ Undone
  /\ phase' = "failed"
  /\ UNCHANGED <<disk, want, names, step, hook, kept, opens, writes>>

Tables(list) == {list[n].name : n \in {m \in DOMAIN list : ~list[m].embedded}}

SchemaOf(c) == want[CHOOSE n \in DOMAIN want : want[n].name = c]

\* What an application expects of its objects after the migration.
MeantAfter(c) ==
  LET schema == SchemaOf(c)
      old    == [props |-> disk.tables[c].cols]
      stays  == Live(old.props) \ DropProperties(schema, old)
  IN [id \in DOMAIN kept[c] |-> [p \in Live(schema.props) |->
        IF p \in stays THEN kept[c][id][p] ELSE Null]]

\* The tables that are no collection's any more, and the commit.
OpenDone ==
  /\ phase = "migrating" /\ step = Len(want) + 1
  /\ work' = DropTables(work, names \ Tables(want)) /\ disk' = work'
  /\ meant' = [c \in Tables(want) |-> IF c \in names THEN MeantAfter(c) ELSE <<>>]
  /\ kept' = meant'
  /\ phase' = "open"
  /\ UNCHANGED <<want, names, step, hook, told, wrote, opens, writes>>

\* The instance is closed, or the process dies, with or without a
\* transaction under way.
Leave ==
  /\ phase \notin {"closed", "failed"}
  /\ Undone
  /\ phase' = "closed" /\ want' = <<>> /\ names' = {} /\ step' = 0 /\ hook' = None
  /\ UNCHANGED <<disk, kept, opens, writes>>

-----------------------------------------------------------------------------
(* Objects.                                                                *)

\* Mutant: the hook of an earlier operation is left in place.
KeepHook(c) == IF hook = None /\ c \in Watched THEN c ELSE hook

\* monitor_changes replaces the update hook for a collection with watchers,
\* and leaves it alone for others.
MonitorChanges(c) == IF c \in Watched THEN c ELSE hook

\* The hook gets the id of a row, and not its table.
Register(c, ids) ==
  told' = told \cup {<<w, id>> : w \in {MonitorChanges(c)} \ {None}, id \in ids}

\* One row of INSERT OR REPLACE: rows with the same id or the same value in
\* a unique index make way.
Replace(rows, c, object) ==
  LET row  == object[2]
      gone == {x \in DOMAIN rows : \E i \in work.indexes :
                 i.table = c /\ i.unique /\ SameKey(row, rows[x], i.props)}
  IN Set(Without(rows, gone), {object[1]}, row)

InsertRows(rows, c, objects) ==
  LET after[n \in 0..Len(objects)] ==
        IF n = 0 THEN rows ELSE Replace(after[n - 1], c, objects[n])
  IN after[Len(objects)]

\* insert_sql: the rows of one statement.
BatchSize(c, count) == Min({count, MaxParams \div (Len(SchemaOf(c).props) + 1)})

\* A statement and how many objects are left for it and for later ones.
Insert(c, count, rows) ==
  LET size == BatchSize(c, count)
  IN [rows |-> rows, bound |-> <<>>, batch |-> size, remaining |-> count - size]

\* Mutant: the next statement is prepared without executing this one.
SaveForgetsBatch(s, c, object) ==
  IF s = Failed THEN Failed
  ELSE IF s.batch = 0 THEN Failed
  ELSE LET t == [s EXCEPT !.bound = Append(@, object), !.batch = @ - 1]
       IN IF t.batch = 0 /\ t.remaining > 0 THEN Insert(c, t.remaining, t.rows) ELSE t

\* A full statement is executed when there are objects left.
Save(s, c, object) ==
  IF s = Failed THEN Failed
  ELSE IF s.batch = 0 THEN Failed
  ELSE LET t == [s EXCEPT !.bound = Append(@, object), !.batch = @ - 1]
       IN IF t.batch = 0 /\ t.remaining > 0
          THEN Insert(c, t.remaining, InsertRows(t.rows, c, t.bound))
          ELSE t

Saved(c, objects) ==
  LET after[n \in 0..Len(objects)] ==
        IF n = 0 THEN Insert(c, Len(objects), work.tables[c].rows)
        ELSE Save(after[n - 1], c, objects[n])
  IN after[Len(objects)]

BeginWrite ==
  /\ phase = "open" /\ writes < MaxWrites
  /\ phase' = "write"
  /\ UNCHANGED <<disk, work, want, names, step, hook, told, wrote, meant, kept, opens, writes>>

Writing(c) == phase = "write" /\ c \in DOMAIN work.tables /\ writes < MaxWrites

Written(c, ids, count) ==
  /\ wrote' = wrote \cup {<<c, id>> : id \in ids}
  /\ writes' = writes + count
  /\ UNCHANGED <<disk, want, names, step, kept, opens>>

\* The objects an application may give, in the places of its own schema.
Objects(c) == Id \X [Live(SchemaOf(c).props) -> Value \cup {Null}]

\* insert: the hook stays.
PutAll(c, objects) ==
  LET s   == Saved(c, objects)
      ids == {objects[n][1] : n \in DOMAIN objects}
  IN /\ Writing(c) /\ s # Failed
     /\ hook' = MonitorChanges(c)
     /\ work' = [work EXCEPT !.tables[c].rows = InsertRows(s.rows, c, s.bound)]
     /\ Register(c, ids)
     /\ meant' = [meant EXCEPT ![c] = InsertRows(@, c, objects)]
     /\ Written(c, ids, Len(objects))

\* What guard rolls back.  A hook that stays reports to the change set of the
\* transaction that is gone.
RolledBack ==
  /\ Undone
  /\ hook' = None
  /\ writes' = writes + 1
  /\ UNCHANGED <<disk, want, names, step, kept, opens>>

\* No object fits into a statement: save gives an error and putAll drops the
\* transaction, and the write mutex with it (see SQLiteSession).
PutAllFails(c, objects) ==
  /\ Writing(c)
  /\ Saved(c, objects) = Failed
  /\ RolledBack
  /\ phase' = "stuck"

Violates(rows, c) ==
  \E i \in work.indexes : i.table = c /\ i.unique /\ Duplicates(rows, i.props)

\* query_update, here of one object.
Update(c, id, p, value) ==
  LET rows == [work.tables[c].rows EXCEPT ![id][p] = value]
  IN /\ Writing(c) /\ ~Violates(rows, c)
     /\ work' = [work EXCEPT !.tables[c].rows = rows]
     /\ Register(c, {id})
     /\ hook' = None
     /\ meant' = [meant EXCEPT ![c][id][p] = value]
     /\ Written(c, {id}, 1)

\* A value that another row has in a unique index fails the statement.
UpdateFails(c, id, p, value) ==
  /\ Writing(c) /\ Violates([work.tables[c].rows EXCEPT ![id][p] = value], c)
  /\ RolledBack
  /\ phase' = "open"

\* query_delete, here of one object.
Delete(c, id) ==
  /\ Writing(c)
  /\ work' = [work EXCEPT !.tables[c].rows = Without(@, {id})]
  /\ Register(c, {id})
  /\ hook' = None
  /\ meant' = [meant EXCEPT ![c] = Without(@, {id})]
  /\ Written(c, {id}, 1)

\* query_delete without a filter.  SQLite empties the table without calling
\* the hook for its rows.
Clear(c) ==
  /\ Writing(c)
  /\ work' = [work EXCEPT !.tables[c].rows = <<>>]
  /\ hook' = None
  /\ meant' = [meant EXCEPT ![c] = <<>>]
  /\ Written(c, {}, 1)
  /\ UNCHANGED told

Commit ==
  /\ phase = "write"
  /\ disk' = work /\ kept' = meant
  /\ phase' = "open" /\ hook' = None /\ told' = {} /\ wrote' = {}
  /\ UNCHANGED <<work, want, names, step, meant, opens, writes>>

Abort ==
  /\ phase = "write"
  /\ Undone
  /\ phase' = "open" /\ hook' = None
  /\ UNCHANGED <<disk, want, names, step, kept, opens, writes>>

Writes(c) ==
  \/ \E objects \in BoundedSeq(Objects(c), Min({MaxObjects, MaxWrites - writes})) \ {<<>>} :
       (PutAll(c, objects) /\ UNCHANGED phase) \/ PutAllFails(c, objects)
  \/ \E id \in DOMAIN work.tables[c].rows :
       \/ \E p \in Live(SchemaOf(c).props), value \in Value \cup {Null} :
            (Update(c, id, p, value) /\ UNCHANGED phase) \/ UpdateFails(c, id, p, value)
       \/ Delete(c, id) /\ UNCHANGED phase
  \/ Clear(c) /\ UNCHANGED phase

Next ==
  \/ OpenStart \/ MigrateTable \/ OpenFails \/ OpenDone \/ Leave
  \/ BeginWrite \/ Commit \/ Abort
  \/ phase = "write" /\ \E c \in DOMAIN work.tables : Writes(c)

Spec == Init /\ [][Next]_vars

-----------------------------------------------------------------------------
(* Properties.                                                             *)

Misread(type) == SqlDataType(DataTypeSql(type)) # type

\* Objects are what the application made them, one after the other, in the
\* order it gave them: however putAll cuts them into statements, whatever
\* was rolled back, and through every migration, after which a property has
\* the value it had if it kept its type and none otherwise (SQLiteInsert,
\* update_table).  Left out are the properties whose embedded type has the
\* name of a data type: read_col_schema takes them for changed and every
\* opening empties them.
RowsAreMeant ==
  phase \in {"open", "write"} =>
    /\ DOMAIN work.tables = DOMAIN meant
    /\ \A c \in DOMAIN meant :
         LET rows  == work.tables[c].rows
             exact == {p \in Live(SchemaOf(c).props) : ~Misread(TypeIn(SchemaOf(c).props, p))}
         IN /\ DOMAIN rows = DOMAIN meant[c]
            /\ \A id \in DOMAIN rows, p \in exact : rows[id][p] = meant[c][id][p]

AsWanted(d) ==
  /\ DOMAIN d.tables = Tables(want)
  /\ \A c \in Tables(want) :
       /\ Range(d.tables[c].cols) = Range(SchemaOf(c).props)
       /\ {i \in d.indexes : i.table = c} =
            {IndexOn(c, i) : i \in SchemaOf(c).indexes}

\* An open database has the tables, columns and indexes of the schemas it was
\* opened with, whichever it had before, and its unique indexes hold
\* (perform_migration).
TablesAsWanted ==
  phase \in {"open", "write"} =>
    /\ AsWanted(disk) /\ AsWanted(work)
    /\ \A i \in work.indexes : i.unique => ~Duplicates(work.tables[i.table].rows, i.props)

NamesOf(schema) == {schema.name} \cup {IndexName(schema.name, i.name) : i \in schema.indexes}

\* The schemas ask for a name that SQLite refuses, for two columns or two
\* tables or indexes that it cannot tell apart, or for a table or an index
\* that it cannot tell from one that is there: a collection user that is
\* renamed to User, properties name and Name, a property called order.
Unnameable ==
  LET asked == UNION {NamesOf(SchemaOf(c)) : c \in Tables(want)}
  IN \/ \E c \in Tables(want) : BadColumns(SchemaOf(c).props)
     \/ \E x \in asked : Fold(x) \in Refused
     \/ \E x \in asked, y \in asked \cup NamesIn(disk) : x # y /\ Fold(x) = Fold(y)

\* Where SQLite takes the names as the engine does, an opening fails only for
\* objects with equal values under an index that is to be unique.  The order
\* of its statements never makes one of them fail, whatever the tables were
\* like: an index goes before its columns, a column that comes back with
\* another type, or another case, goes before it comes (update_table).
OnlyDuplicatesFail ==
  phase = "failed" =>
    \/ Unnameable
    \/ \E c \in Tables(want) \cap DOMAIN disk.tables : \E i \in SchemaOf(c).indexes :
         LET old == [props |-> disk.tables[c].cols]
         IN /\ i.unique
            /\ Range(i.props) \subseteq Live(old.props) \ DropProperties(SchemaOf(c), old)
            /\ Duplicates(disk.tables[c].rows, i.props)

\* A database that has all that the schemas ask for opens.  The name of an
\* index of several properties has an underscore, read_col_schema reads back
\* the part after the last one, and the opening then drops an index that does
\* not exist.
ReopenSucceeds == phase = "failed" => ~AsWanted(disk)

\* What the transaction wrote in a collection with watchers is in its change
\* set, whichever collections it wrote in between (monitor_changes).  Objects
\* that made way for another one in a unique index, and those of a cleared
\* collection, are not: SQLite does not call the hook for them.
WatchedWritesTold == \A w \in wrote : w[1] \in Watched => w \in told
=============================================================================
