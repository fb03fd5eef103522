--------------------------- MODULE NativeMigration ---------------------------
(***************************************************************************)
(* Opening a native database with a list of schemas (perform_migration),   *)
(* and the objects and index entries of the collections through any        *)
(* number of such openings.                                                *)
(*                                                                         *)
(* A migration is a series of MDBX transactions: one reads the stored      *)
(* schemas, one for each collection merges and saves its schema and opens  *)
(* its databases, the last one deletes the collections that are gone.  The *)
(* process may die, and a transaction may fail, between any two of them.   *)
(*                                                                         *)
(* Objects keep the layout they were written with.  A migration never      *)
(* rewrites them: properties get a slot of their own in the layout and a   *)
(* dropped one leaves its slot behind.                                     *)
(***************************************************************************)
EXTENDS SchemaChanges, IndexKey, FiniteSets

CONSTANTS
  Collection,   \* names of collections
  Property,     \* names of properties
  Id,           \* object ids
  Ints,         \* integers that properties are given
  Strings,      \* strings that properties are given
  Schemas,      \* the lists of schemas an application may open with
  Files,        \* the stored schemas a database may start with
  FileVersion,  \* ISAR_FILE_VERSION
  MaxOpens,     \* bound on the openings
  MaxWrites     \* bound on the writes

Types == {"int", "string"}

Distinct(indexes) == \A i, j \in indexes : i.name = j.name => i = j

\* The second half of IsarSchema::verify.
IndexesVerified(schema) ==
  /\ schema.embedded \in BOOLEAN /\ (schema.embedded => schema.indexes = {})
  /\ Distinct(schema.indexes)
  /\ \A i \in schema.indexes : i.props \in Seq(Live(schema.props))

\* What IsarSchema::verify asks of a schema.  Nothing calls it when a database
\* is opened; the code generator refuses the same schemas at build time.
Verified(schema) ==
  /\ schema.name \in Collection
  /\ schema.props \in Seq([name : Property, type : Types])
  /\ \A m, n \in DOMAIN schema.props : schema.props[m].name = schema.props[n].name => m = n
  /\ IndexesVerified(schema)

\* A schema that was saved may have slots without a name.
Saved(schema) ==
  /\ schema.props \in Seq([name : Property \cup {None}, type : Types])
  /\ \A m, n \in DOMAIN schema.props :
       schema.props[m].name = schema.props[n].name => m = n \/ schema.props[n].name = None
  /\ IndexesVerified(schema)

ASSUME MigrationAssumption ==
  /\ MaxOpens \in Nat /\ MaxWrites \in Nat
  /\ None \notin Property
  /\ Ints \subseteq Nat \ {NullInt} /\ Strings \subseteq Seq(Nat)
  /\ Null \notin Nat \cup Strings
  \* A list names a collection once: the Dart side makes it from a set.
  /\ \A list \in Schemas :
       /\ Len(list) \in Nat /\ DOMAIN list = 1..Len(list)
       /\ \A m, n \in DOMAIN list : list[m].name = list[n].name => m = n
       /\ \A n \in DOMAIN list : Verified(list[n])
  /\ \A stored \in Files :
       DOMAIN stored \subseteq Collection /\ \A c \in DOMAIN stored : Saved(stored[c])

VARIABLES
  info,       \* the stored schema of every collection in the file
  dbs,        \* dbs[c]: the objects of collection c, by id
  entries,    \* entries[<<c, i>>]: the <<key, id>> pairs of index i of c
  phase,      \* "closed", "migrating" or "open"
  want,       \* the schemas that the database is opened with
  existing,   \* the schemas that were stored when it was
  step,       \* the collection in turn
  cols,       \* the NativeCollections made so far
  \* What the application knows, for the properties below.
  truth,      \* truth[c][id][p]: what it last gave property p
  stretched,  \* the <<c, id>> that update gave a larger header
  written,    \* written[<<c, i>>]: ids written since the index was made
  opens, writes

file == <<info, dbs, entries>>
known == <<truth, stretched, written>>
vars == <<info, dbs, entries, phase, want, existing, step, cols, truth, stretched, written,
          opens, writes>>

-----------------------------------------------------------------------------
Without(f, S) == [x \in DOMAIN f \ S |-> f[x]]
Set(f, x, v) == [y \in DOMAIN f \cup {x} |-> IF y = x THEN v ELSE f[y]]

Nothing == <<>>

\* The indexes of collection c, and those of all the stored collections.
Indexes(c, names) == {<<c, i>> : i \in names}
AllIndexes(schemas) == UNION {Indexes(c, Names(schemas[c].indexes)) : c \in DOMAIN schemas}

Init ==
  /\ info \in Files
  /\ dbs = [c \in {d \in DOMAIN info : ~info[d].embedded} |-> Nothing]
  /\ entries = [x \in AllIndexes(info) |-> {}]
  /\ phase = "closed" /\ want = <<>> /\ existing = Nothing /\ step = 0 /\ cols = Nothing
  /\ truth = [c \in DOMAIN info |-> Nothing] /\ stretched = {} /\ written = entries
  /\ opens = 0 /\ writes = 0

\* Nothing of the instance outlives it.
Closed ==
  phase' = "closed" /\ want' = <<>> /\ existing' = Nothing /\ step' = 0 /\ cols' = Nothing

\* The first transaction reads the stored schemas.
OpenStart ==
  /\ phase = "closed" /\ opens < MaxOpens
  /\ want' \in Schemas
  /\ existing' = info
  /\ phase' = "migrating" /\ step' = 1 /\ cols' = Nothing
  /\ opens' = opens + 1
  /\ UNCHANGED <<file, known, writes>>

-----------------------------------------------------------------------------
(* One collection.                                                         *)

\* Mutant: the slot of a dropped property is closed.
MergeWithoutSlots(new, old) ==
  SelectSeq(old.props, LAMBDA p : p.name \notin DropProperties(new, old) /\ p.name # None)
    \o AddProperties(new, old)

\* The old slots in their order, those of dropped properties without a name,
\* then the new ones.
MergedProperties(new, old) ==
  [n \in DOMAIN old.props |->
     IF old.props[n].name \in DropProperties(new, old)
     THEN [old.props[n] EXCEPT !.name = None] ELSE old.props[n]]
  \o AddProperties(new, old)

\* get_properties gives every slot its offset; the collection has them in
\* the order of the application's schema.
Offset(slots, name) == (CHOOSE n \in DOMAIN slots : slots[n].name = name) - 1

\* Mutant: the slots in the order of the layout.
UnsortedProperties(schema, slots) ==
  SelectSeq([n \in DOMAIN slots |-> [name |-> slots[n].name, type |-> slots[n].type, offset |-> n - 1]],
            LAMBDA p : p.name # None)

SortedProperties(schema, slots) ==
  [n \in DOMAIN schema.props |->
     [name |-> schema.props[n].name, type |-> schema.props[n].type,
      offset |-> Offset(slots, schema.props[n].name)]]

\* NativeCollection::new: up to the last property that is in use.
StaticSize(properties) ==
  IF properties = <<>> THEN 0
  ELSE 1 + (CHOOSE o \in {properties[n].offset : n \in DOMAIN properties} :
              \A n \in DOMAIN properties : properties[n].offset <= o)

NewCollection(schema, slots) ==
  LET properties == SortedProperties(schema, slots)
  IN [props |-> properties, size |-> StaticSize(properties),
      indexes |-> schema.indexes, embedded |-> schema.embedded]

\* What the application should find in the objects after the migration.
Migrated(objects, new, old) ==
  [id \in DOMAIN objects |-> [p \in Live(new.props) |->
     IF p \in Live(old.props) \ DropProperties(new, old) THEN objects[id][p] ELSE Null]]

\* Mutant: the databases of dropped indexes stay.
ReindexedKeepingDropped(f, c, schema, dropped) ==
  [x \in DOMAIN f \cup Indexes(c, Names(schema.indexes)) |->
     IF x \in DOMAIN f THEN f[x] ELSE {}]

\* The databases of the indexes that are dropped are deleted; opening the
\* others creates the ones that are missing, empty.
Reindexed(f, c, schema, dropped) ==
  LET kept == Without(f, Indexes(c, dropped))
  IN [x \in DOMAIN kept \cup Indexes(c, Names(schema.indexes)) |->
        IF x \in DOMAIN kept THEN kept[x] ELSE {}]

MigrateCollection ==
  /\ phase = "migrating" /\ step \in DOMAIN want
  /\ LET schema  == want[step]
         c       == schema.name
         found   == c \in DOMAIN existing
         slots   == IF found THEN MergedProperties(schema, existing[c]) ELSE schema.props
         dropped == IF found THEN Names(DropIndexes(schema, existing[c])) ELSE {}
     IN /\ found => existing[c].version = FileVersion
        /\ info' = Set(info, c, [props |-> slots, indexes |-> schema.indexes,
                                 embedded |-> schema.embedded, version |-> FileVersion])
        /\ dbs' = IF schema.embedded \/ c \in DOMAIN dbs THEN dbs ELSE Set(dbs, c, Nothing)
        /\ entries' = Reindexed(entries, c, schema, dropped)
        /\ cols' = Set(cols, c, NewCollection(schema, slots))
        /\ truth' = Set(truth, c, IF found THEN Migrated(truth[c], schema, existing[c]) ELSE Nothing)
        /\ written' = Reindexed(written, c, schema, dropped)
  /\ step' = step + 1
  /\ UNCHANGED <<phase, want, existing, stretched, opens, writes>>

\* A schema of another version: VersionError, and the open fails.
VersionError ==
  /\ phase = "migrating" /\ step \in DOMAIN want
  /\ want[step].name \in DOMAIN existing
  /\ existing[want[step].name].version # FileVersion
  /\ Closed
  /\ UNCHANGED <<file, known, opens, writes>>

\* Mutant: what is not among the schemas of the last opening but one stays.
DeleteNothing ==
  /\ phase = "migrating" /\ step = Len(want) + 1
  /\ phase' = "open" /\ existing' = Nothing /\ step' = 0
  /\ UNCHANGED <<file, known, want, cols, opens, writes>>

\* delete_collection drops the collection's databases and those of the
\* indexes of its stored schema.
DeleteRemoved ==
  /\ phase = "migrating" /\ step = Len(want) + 1
  /\ LET gone == DOMAIN existing \ {want[n].name : n \in DOMAIN want}
         lost == UNION {Indexes(c, Names(existing[c].indexes)) : c \in gone}
     IN /\ info' = Without(info, gone)
        /\ dbs' = Without(dbs, gone)
        /\ entries' = Without(entries, lost)
        /\ truth' = Without(truth, gone)
        /\ stretched' = {s \in stretched : s[1] \notin gone}
        /\ written' = Without(written, lost)
  /\ phase' = "open" /\ existing' = Nothing /\ step' = 0
  /\ UNCHANGED <<want, cols, opens, writes>>

\* The process dies, or a transaction fails and the open with it.
Interrupted ==
  /\ phase = "migrating"
  /\ Closed
  /\ UNCHANGED <<file, known, opens, writes>>

Close ==
  /\ phase = "open"
  /\ Closed
  /\ UNCHANGED <<file, known, opens, writes>>

-----------------------------------------------------------------------------
(* Objects of an open database.                                            *)

PropIn(col, name) == col.props[CHOOSE m \in DOMAIN col.props : col.props[m].name = name]

ValuesIn(col, index, object) ==
  [n \in DOMAIN index.props |->
     Read(object, PropIn(col, index.props[n]).offset, PropIn(col, index.props[n]).type)]

KeyIn(col, index, object) ==
  CreateKey([n \in DOMAIN index.props |-> PropIn(col, index.props[n]).type],
            ValuesIn(col, index, object))

\* A value cannot be read.
Unreadable(col, index, object) ==
  \E n \in DOMAIN index.props : ValuesIn(col, index, object)[n] = Panic

\* The objects that put deletes for a unique key: those that an index lists.
Evicted(c, id, object) ==
  {x \in DOMAIN dbs[c] \ {id} : \E i \in cols[c].indexes :
     /\ i.unique /\ ~Unreadable(cols[c], i, object) /\ ~KeyIn(cols[c], i, object).null
     /\ <<KeyIn(cols[c], i, object).bytes, x>> \in entries[<<c, i.name>>]}

\* Entries of the objects `gone' leave the indexes of c.
Unlisted(c, gone) ==
  [x \in DOMAIN entries |->
     entries[x] \ {<<KeyIn(cols[c], i, dbs[c][id]).bytes, id>> :
                     i \in {j \in cols[c].indexes : x = <<c, j.name>>}, id \in gone}]

\* A key is read from the object and from those that leave the indexes.
Fatal(c, id, object) ==
  \E o \in {object} \cup {dbs[c][x] : x \in DOMAIN dbs[c] \cap ({id} \cup Evicted(c, id, object))} :
    \E i \in cols[c].indexes : Unreadable(cols[c], i, o)

\* NativeCollection::put.
Store(c, id, object) ==
  LET gone == Evicted(c, id, object)
      left == Unlisted(c, gone \cup (DOMAIN dbs[c] \cap {id}))
  IN /\ dbs' = [dbs EXCEPT ![c] = Set(Without(@, gone), id, object)]
     /\ entries' = [x \in DOMAIN left |-> left[x] \cup
                      {<<KeyIn(cols[c], i, object).bytes, id>> :
                         i \in {j \in cols[c].indexes : x = <<c, j.name>>}}]
     /\ written' = [x \in DOMAIN written |->
                      IF x[1] = c THEN (written[x] \ gone) \cup {id} ELSE written[x]]
     /\ writes' = writes + 1
     /\ UNCHANGED <<info, phase, want, existing, step, cols, opens>>

CanWrite(c) == phase = "open" /\ c \in DOMAIN cols /\ ~cols[c].embedded /\ writes < MaxWrites

Values(type) == {Null} \cup (IF type = "int" THEN Ints ELSE Strings)

\* The application names a property by its place in its own schema.
AppProps(c) == want[CHOOSE n \in DOMAIN want : want[n].name = c].props

\* What it may give an object: a value for every property.
Contents(c) ==
  LET upTo[n \in 0..Len(AppProps(c))] ==
        IF n = 0 THEN {<<>>}
        ELSE {Append(given, v) : given \in upTo[n - 1], v \in Values(AppProps(c)[n].type)}
  IN upTo[Len(AppProps(c))]

\* The writer writes them one after the other; one of another type than the
\* collection has in that place is not written.
Serialized(c, values) ==
  LET p(n) == cols[c].props[n]
      upTo[n \in 0..Len(values)] ==
        IF n = 0 THEN Begin(<<>>, cols[c].size)
        ELSE IF p(n).type # AppProps(c)[n].type THEN upTo[n - 1]
        ELSE Write(upTo[n - 1], p(n).offset, p(n).type, values[n])
  IN upTo[Len(values)]

Given(c, values) ==
  [p \in Live(AppProps(c)) |->
     values[CHOOSE n \in DOMAIN values : AppProps(c)[n].name = p]]

Put(c, id, values) ==
  LET object == Serialized(c, values)
      gone   == Evicted(c, id, object)
  IN /\ ~Fatal(c, id, object)
     /\ Store(c, id, object)
     /\ truth' = [truth EXCEPT ![c] = Set(Without(@, gone), id, Given(c, values))]
     /\ stretched' = stretched \ {<<c, x>> : x \in gone \cup {id}}

\* NativeCollection::update: the object's own bytes, under the header of the
\* collection, with one property written anew.
Updated(c, id, n, value) ==
  Rewrite(Begin(dbs[c][id].cells, cols[c].size), cols[c].props[n].offset, cols[c].props[n].type, value)

Update(c, id, n, value) ==
  LET object == Updated(c, id, n, value)
      gone   == Evicted(c, id, object)
  IN /\ object # Panic /\ ~Fatal(c, id, object)
     /\ Store(c, id, object)
     /\ truth' = [truth EXCEPT ![c] = [Without(@, gone) EXCEPT ![id][AppProps(c)[n].name] = value]]
     /\ stretched' = (stretched \ {<<c, x>> : x \in gone})
                     \cup (IF dbs[c][id].size < cols[c].size THEN {<<c, id>>} ELSE {})

\* NativeCollection::delete.
Delete(c, id) ==
  /\ ~Fatal(c, id, dbs[c][id])
  /\ dbs' = [dbs EXCEPT ![c] = Without(@, {id})]
  /\ entries' = Unlisted(c, {id})
  /\ truth' = [truth EXCEPT ![c] = Without(@, {id})]
  /\ stretched' = stretched \ {<<c, id>>}
  /\ written' = [x \in DOMAIN written |->
                   IF x[1] = c THEN written[x] \ {id} ELSE written[x]]
  /\ writes' = writes + 1
  /\ UNCHANGED <<info, phase, want, existing, step, cols, opens>>

\* A read outside of an object ends the process, and the transaction with it.
ProcessDies ==
  /\ Closed
  /\ writes' = writes + 1
  /\ UNCHANGED <<file, known, opens>>

WriteDies(c, id) ==
  /\ \/ \E values \in Contents(c) : Fatal(c, id, Serialized(c, values))
     \/ /\ id \in DOMAIN dbs[c]
        /\ \E n \in DOMAIN cols[c].props : \E value \in Values(cols[c].props[n].type) :
             LET object == Updated(c, id, n, value)
             IN object # Panic => Fatal(c, id, object)
  /\ ProcessDies

Writes ==
  \E c \in Collection, id \in Id :
    /\ CanWrite(c)
    /\ \/ \E values \in Contents(c) : Put(c, id, values)
       \/ /\ id \in DOMAIN dbs[c]
          /\ \E n \in DOMAIN cols[c].props : \E value \in Values(cols[c].props[n].type) :
               Update(c, id, n, value)
       \/ id \in DOMAIN dbs[c] /\ Delete(c, id)
       \/ WriteDies(c, id)

Next ==
  \/ OpenStart \/ MigrateCollection \/ VersionError \/ DeleteRemoved \/ Interrupted \/ Close
  \/ Writes

Spec == Init /\ [][Next]_vars
-----------------------------------------------------------------------------
(* Properties.                                                             *)

\* The types of the variables, and which of them belong together.
TypeOK ==
  /\ phase \in {"closed", "migrating", "open"}
  /\ DOMAIN info \subseteq Collection /\ DOMAIN dbs \subseteq DOMAIN info
  /\ \A c \in DOMAIN dbs : DOMAIN dbs[c] \subseteq Id
  /\ DOMAIN truth = DOMAIN info /\ DOMAIN written = DOMAIN entries
  /\ DOMAIN cols \subseteq DOMAIN info
  /\ phase = "open" => DOMAIN cols = DOMAIN info

\* What a property of a stored object reads as under the stored schema.
Reading(c, id, name) ==
  Read(dbs[c][id], Offset(info[c].props, name), TypeIn(info[c].props, name))

\* Every object that was written and not deleted is still there, whichever
\* versions of the schema it went through and wherever a migration stopped,
\* and reads as the application left it: a property that came after it is
\* null, one that was dropped and came back is null again, and no property
\* reads what was written for another one (perform_migration, get_properties,
\* IsarSerializer, IsarDeserializer).  Objects to which update gave the
\* header of a later schema are left out: see NewPropertiesEmpty.
ObjectsReadBack ==
  \A c \in DOMAIN dbs :
    /\ DOMAIN dbs[c] = DOMAIN truth[c]
    /\ \A id \in DOMAIN dbs[c] : <<c, id>> \notin stretched =>
         truth[c][id] = [p \in Live(info[c].props) |-> Reading(c, id, p)]

\* An object has no value in a property that nobody has given it one in,
\* which is what an application that adds a property is told to expect.
\* Update puts the collection's header on the bytes of an older object and
\* does not move its dynamic data, which then lies where the new property is
\* read (NativeCollection::update).
NewPropertiesEmpty ==
  \A c \in DOMAIN dbs : \A id \in DOMAIN dbs[c] : \A p \in Live(info[c].props) :
    truth[c][id][p] = Null => Reading(c, id, p) = Null

\* An index lists exactly the objects that were written since it was made,
\* each under the key that the object has now: dropping, redefining and
\* retyping never leave entries of before behind, and no entry outlives its
\* object.  Objects that were there before the index are not in it
\* (migrate_collection ignores the indexes that are added).
IndexesListTheWritten ==
  \A x \in DOMAIN entries :
    LET c == x[1]
        index == NamedIndex(info[c].indexes, x[2])
        key(id) == CreateKey([n \in DOMAIN index.props |-> TypeIn(info[c].props, index.props[n])],
                             [n \in DOMAIN index.props |-> Reading(c, id, index.props[n])]).bytes
    IN entries[x] = {<<key(id), id>> : id \in written[x]}

\* Only one property of the index is a string, or else their bytes run into
\* each other, as in an index with the values "ab", "c" and "a", "bc".
Unambiguous(c, index) ==
  Cardinality({n \in DOMAIN index.props : TypeIn(AppProps(c), index.props[n]) = "string"}) <= 1

\* A put takes another object out of the collection only if both have the
\* same values, none of them null, in the properties of a unique index: keys
\* of different values are never equal (IndexKey, create_for_object), for
\* strings that are not a single character 0 or 1.  Left out are indexes
\* with several strings and objects that update gave a larger header.
OnlyEqualReplaced ==
  [][\A c \in DOMAIN dbs \cap DOMAIN dbs' : \A x \in DOMAIN dbs[c] \ DOMAIN dbs'[c] :
       \A id \in DOMAIN dbs'[c] :
         (id \in DOMAIN dbs[c] => dbs[c][id] # dbs'[c][id]) =>
           \/ \E i \in info[c].indexes :
                i.unique /\ \A n \in DOMAIN i.props :
                  LET p == i.props[n]
                  IN truth'[c][id][p] # Null /\ truth'[c][id][p] = truth[c][x][p]
           \/ \E i \in info[c].indexes : i.unique /\ ~Unambiguous(c, i)
           \/ {<<c, id>>, <<c, x>>} \cap (stretched \cup stretched') # {}]_vars

\* However often an opening was interrupted before, the databases in the file
\* are those of the stored schemas, and once an opening succeeds these are
\* the schemas it was asked for (perform_migration, delete_collection).
FileIsAsWanted ==
  /\ DOMAIN entries = AllIndexes(info)
  /\ phase = "open" =>
       /\ DOMAIN info = {want[n].name : n \in DOMAIN want}
       /\ \A n \in DOMAIN want :
            LET stored == info[want[n].name]
            IN /\ Live(stored.props) = Live(want[n].props)
               /\ stored.indexes = want[n].indexes
               /\ want[n].embedded \/ want[n].name \in DOMAIN dbs

\* As long as a collection is in the file, a slot of its layout keeps its
\* type and its property; it may lose the name and never gets another one.
\* This is what makes it safe not to rewrite objects (migrate_collection).
SlotsAreKept ==
  [][\A c \in DOMAIN info \cap DOMAIN info' :
       \A n \in DOMAIN info[c].props :
         LET now == info'[c].props
         IN /\ n \in DOMAIN now
            /\ now[n].type = info[c].props[n].type
            /\ now[n].name \in {info[c].props[n].name, None}]_vars
=============================================================================
