-------------------------- MODULE SQLiteStoreProofs --------------------------
(***************************************************************************)
(* Proofs about the tables of the SQLite engine, for any schemas, objects, *)
(* openings and batches.                                                   *)
(*                                                                         *)
(* Two facts carry them.  A table always is as one of the schemas that the *)
(* application opens with wants it (Made), so that what is read back from  *)
(* the tables is that schema, as far as the declared types tell.  And the  *)
(* insert session does to the rows what inserting one object after the     *)
(* other does, which is what the application means.                        *)
(***************************************************************************)
EXTENDS SQLiteStore, FiniteSetTheorems, SequenceTheorems, WellFoundedInduction, TLAPS

-----------------------------------------------------------------------------
(* What watchers are told.                                                 *)

\* What a transaction writes in a collection with watchers is in its change
\* set (SQLiteTxn::monitor_changes, SQLite3::set_update_hook): the invariant is
\* inductive, because an operation replaces the hook before it writes.
THEOREM WatchedAreTold == Spec => []WatchedWritesTold
<1>1. Init => WatchedWritesTold BY DEF Init, WatchedWritesTold
<1>2. ASSUME WatchedWritesTold, [Next]_vars PROVE WatchedWritesTold'
  <2>1. CASE UNCHANGED <<told, wrote>> BY <1>2, <2>1 DEF WatchedWritesTold
  <2>2. CASE wrote' = {} BY <2>2 DEF WatchedWritesTold
  <2>3. ASSUME NEW c, NEW ids, NEW count, Register(c, ids), Written(c, ids, count)
        PROVE  WatchedWritesTold'
    <3>1. ASSUME NEW w \in wrote', w[1] \in Watched PROVE w \in told'
      <4>1. CASE w \in wrote BY <1>2, <2>3, <3>1, <4>1 DEF WatchedWritesTold, Register
      <4>2. CASE w \notin wrote
        <5>1. PICK id \in ids : w = <<c, id>> BY <2>3, <3>1, <4>2 DEF Written
        <5>2. c \in Watched /\ c # None BY <3>1, <5>1, SQLiteStoreAssumption
        <5>3. MonitorChanges(c) = c BY <5>2 DEF MonitorChanges
        <5> QED BY <2>3, <5>1, <5>2, <5>3 DEF Register
      <4> QED BY <4>1, <4>2
    <3> QED BY <3>1 DEF WatchedWritesTold
  <2>4. ASSUME NEW c \in DOMAIN work.tables, Writes(c) PROVE WatchedWritesTold'
    <3>1. ASSUME NEW objects, PutAll(c, objects) PROVE WatchedWritesTold'
      BY <2>3, <3>1 DEF PutAll
    <3>2. ASSUME NEW objects, PutAllFails(c, objects) PROVE WatchedWritesTold'
      BY <2>2, <3>2 DEF PutAllFails, RolledBack, Undone
    <3>3. ASSUME NEW id, NEW p, NEW value, Update(c, id, p, value) PROVE WatchedWritesTold'
      BY <2>3, <3>3 DEF Update
    <3>4. ASSUME NEW id, NEW p, NEW value, UpdateFails(c, id, p, value) PROVE WatchedWritesTold'
      BY <2>2, <3>4 DEF UpdateFails, RolledBack, Undone
    <3>5. ASSUME NEW id, Delete(c, id) PROVE WatchedWritesTold'
      BY <2>3, <3>5 DEF Delete
    <3>6. CASE Clear(c)
      <4>1. UNCHANGED <<told, wrote>> BY <3>6 DEF Clear, Written
      <4> QED BY <2>1, <4>1
    <3> QED BY <2>4, <3>1, <3>2, <3>3, <3>4, <3>5, <3>6 DEF Writes
  <2>5. CASE OpenStart \/ MigrateTable \/ OpenDone \/ BeginWrite \/ UNCHANGED vars
    BY <2>1, <2>5 DEF OpenStart, MigrateTable, OpenDone, BeginWrite, vars
  <2>6. CASE OpenFails \/ Leave \/ Commit \/ Abort
    BY <2>2, <2>6 DEF OpenFails, Leave, Commit, Abort, Undone
  <2> QED BY <1>2, <2>4, <2>5, <2>6 DEF Next
<1> QED BY <1>1, <1>2, PTL DEF Spec

-----------------------------------------------------------------------------
(* Induction.  The library's induction theorems take a predicate as a      *)
(* parameter, which the provers cannot instantiate; here the predicate is  *)
(* a set.                                                                  *)

\* Every set of natural numbers that is not empty has a least element: the
\* intervals from 0 to its elements are ordered by inclusion.
LEMMA Least ==
  ASSUME NEW T, T \subseteq Nat, T # {}
  PROVE  \E x \in T : \A y \in T : x <= y
<1> DEFINE Below == {0..k : k \in T}
<1>1. IsWellFoundedOn(StrictSubsetOrdering(Nat), FiniteSubsetsOf(Nat))
  BY FS_StrictSubsetOrderingWellFounded
<1>2. Below \subseteq FiniteSubsetsOf(Nat)
  <2>1. ASSUME NEW k \in T PROVE 0..k \in FiniteSubsetsOf(Nat)
    <3>1. IsFiniteSet(0..k) BY FS_Interval
    <3> QED BY <3>1 DEF FiniteSubsetsOf
  <2> QED BY <2>1
<1>3. Below # {} OBVIOUS
<1>4. PICK b \in Below : \A y \in Below : <<y, b>> \notin StrictSubsetOrdering(Nat)
  <2> HIDE DEF Below
  <2> QED BY <1>1, <1>2, <1>3, WFMin
<1>5. PICK x \in T : b = 0..x OBVIOUS
<1>6. ASSUME NEW y \in T, y < x PROVE FALSE
  <2>1. 0..y \in Below OBVIOUS
  <2>2. 0..y \subseteq 0..x /\ 0..y # 0..x BY <1>6
  <2>3. <<0..y, 0..x>> \in StrictSubsetOrdering(Nat)
    BY <2>2 DEF StrictSubsetOrdering
  <2> QED BY <1>4, <1>5, <2>1, <2>3
<1> QED BY <1>6

\* Induction up to a number.
LEMMA Upward ==
  ASSUME NEW L \in Nat, NEW T, 0 \in T, \A n \in 1..L : n - 1 \in T => n \in T
  PROVE  0..L \subseteq T
<1> DEFINE B == {n \in 0..L : n \notin T}
<1> SUFFICES ASSUME B # {} PROVE FALSE OBVIOUS
<1>1. PICK x \in B : \A y \in B : x <= y
  <2>1. B \subseteq Nat OBVIOUS
  <2> HIDE DEF B
  <2> QED BY <2>1, Least
<1>2. x \in 0..L /\ x \notin T /\ x # 0 OBVIOUS
<1>3. x \in 1..L /\ x - 1 \in 0..L /\ ~(x <= x - 1) BY <1>2
<1>4. x - 1 \notin B BY <1>1, <1>3
<1> QED BY <1>2, <1>3, <1>4

\* What the first k values of a function with the start b and the step G are.
Steps(f, b, G, k) == f[0] = b /\ \A n \in 1..k : f[n] = G[<<f[n - 1], n>>]

\* A function defined by recursion exists.
LEMMA Recursion ==
  ASSUME NEW V, NEW b \in V, NEW L \in Nat, NEW G \in [V \X (1..L) -> V]
  PROVE  \E f \in [0..L -> V] : Steps(f, b, G, L)
<1> DEFINE T == {k \in 0..L : \E f \in [0..k -> V] : Steps(f, b, G, k)}
<1>1. 0 \in T
  <2> DEFINE f == [n \in 0..0 |-> b]
  <2>1. f \in [0..0 -> V] OBVIOUS
  <2>2. Steps(f, b, G, 0) BY DEF Steps
  <2> QED BY <2>1, <2>2
<1>2. ASSUME NEW k \in 1..L, k - 1 \in T PROVE k \in T
  <2>1. PICK f \in [0..(k - 1) -> V] : Steps(f, b, G, k - 1) BY <1>2
  <2> DEFINE v == G[<<f[k - 1], k>>]
             g == [n \in 0..k |-> IF n = k THEN v ELSE f[n]]
  <2>2. f[k - 1] \in V OBVIOUS
  <2>3. v \in V BY <2>2
  <2> HIDE DEF v
  <2>4. g \in [0..k -> V]
    <3>1. \A n \in 0..k : n = k \/ n \in 0..(k - 1) OBVIOUS
    <3> QED BY <2>3, <3>1
  <2>5. g[0] = b BY <2>1 DEF Steps
  <2>6. ASSUME NEW n \in 1..k PROVE g[n] = G[<<g[n - 1], n>>]
    <3>1. g[n - 1] = f[n - 1] OBVIOUS
    <3>2. CASE n = k
      <4>1. g[n] = v BY <3>2
      <4> HIDE DEF g
      <4> QED BY <3>1, <3>2, <4>1 DEF v
    <3>3. CASE n # k
      <4>1. n \in 1..(k - 1) BY <3>3
      <4>2. g[n] = f[n] BY <3>3
      <4> QED BY <2>1, <3>1, <4>1, <4>2 DEF Steps
    <3> QED BY <3>2, <3>3
  <2>7. Steps(g, b, G, k) BY <2>5, <2>6 DEF Steps
  <2> HIDE DEF g
  <2> QED BY <2>4, <2>7
<1>3. 0..L \subseteq T
  <2> HIDE DEF T
  <2> QED BY <1>1, <1>2, Upward
<1> QED BY <1>3

-----------------------------------------------------------------------------
(* Named.                                                                  *)

\* What the properties picked so far, s, have to do with the first k ones.
PickedFrom(s, props, chosen, k) ==
  /\ \A i \in DOMAIN s : \E n \in 1..k : props[n].name \in chosen /\ s[i] = props[n]
  /\ \A n \in 1..k : props[n].name \in chosen => \E i \in DOMAIN s : s[i] = props[n]

NoTwo(props, chosen) ==
  \A m, n \in DOMAIN props :
    props[m].name = props[n].name /\ props[n].name \in chosen => m = n

LEMMA PickedAppend ==
  ASSUME NEW S, NEW props \in Seq(S), NEW chosen, NEW k \in 1..Len(props), NEW s \in Seq(S),
         PickedFrom(s, props, chosen, k - 1), NoTwo(props, chosen) => NoTwo(s, chosen),
         props[k].name \in chosen
  PROVE  /\ Append(s, props[k]) \in Seq(S)
         /\ PickedFrom(Append(s, props[k]), props, chosen, k)
         /\ NoTwo(props, chosen) => NoTwo(Append(s, props[k]), chosen)
<1> DEFINE e == props[k]
           t == Append(s, e)
<1>1. e \in S /\ Len(s) \in Nat /\ DOMAIN s = 1..Len(s) BY LenProperties, ElementOfSeq
<1>2. /\ t \in Seq(S) /\ DOMAIN t = 1..(Len(s) + 1) /\ t[Len(s) + 1] = e
      /\ \A i \in 1..Len(s) : t[i] = s[i]
  BY <1>1, AppendProperties, LenProperties
<1> HIDE DEF t
<1>3. ASSUME NEW i \in DOMAIN t
      PROVE  \E n \in 1..k : props[n].name \in chosen /\ t[i] = props[n]
  <2>1. CASE i = Len(s) + 1 BY <1>2, <2>1
  <2>2. CASE i \in DOMAIN s BY <1>1, <1>2, <2>2 DEF PickedFrom
  <2> QED BY <1>1, <1>2, <2>1, <2>2
<1>4. ASSUME NEW n \in 1..k, props[n].name \in chosen
      PROVE  \E i \in DOMAIN t : t[i] = props[n]
  <2>1. CASE n = k BY <1>1, <1>2, <2>1
  <2>2. CASE n # k
    <3>1. PICK i \in DOMAIN s : s[i] = props[n] BY <1>4, <2>2 DEF PickedFrom
    <3> QED BY <1>1, <1>2, <3>1
  <2> QED BY <2>1, <2>2
<1>5. ASSUME NoTwo(props, chosen) PROVE NoTwo(t, chosen)
  <2>1. ASSUME NEW i \in DOMAIN s PROVE s[i].name # e.name
    <3>1. PICK n \in 1..(k - 1) : props[n].name \in chosen /\ s[i] = props[n] BY DEF PickedFrom
    <3>2. n \in DOMAIN props /\ k \in DOMAIN props /\ n # k BY LenProperties
    <3> QED BY <1>5, <3>1, <3>2 DEF NoTwo
  <2>2. ASSUME NEW i \in DOMAIN t, NEW j \in DOMAIN t, t[i].name = t[j].name, t[j].name \in chosen
        PROVE  i = j
    <3>1. CASE i \in DOMAIN s /\ j \in DOMAIN s BY <1>1, <1>2, <1>5, <2>2, <3>1 DEF NoTwo
    <3>2. CASE i = Len(s) + 1 /\ j \in DOMAIN s BY <1>1, <1>2, <2>1, <2>2, <3>2
    <3>3. CASE j = Len(s) + 1 /\ i \in DOMAIN s BY <1>1, <1>2, <2>1, <2>2, <3>3
    <3> QED BY <1>1, <1>2, <3>1, <3>2, <3>3
  <2> QED BY <2>2 DEF NoTwo
<1> QED BY <1>2, <1>3, <1>4, <1>5 DEF PickedFrom, t

\* Named picks exactly the properties with one of the chosen, each of them once.
LEMMA NamedPicks ==
  ASSUME NEW S, NEW props \in Seq(S), NEW chosen
  PROVE  /\ Named(props, chosen) \in Seq(S)
         /\ PickedFrom(Named(props, chosen), props, chosen, Len(props))
         /\ NoTwo(props, chosen) => NoTwo(Named(props, chosen), chosen)
<1> DEFINE L == Len(props)
           Def(f) == [n \in 0..L |->
                        IF n = 0 THEN <<>>
                        ELSE IF props[n].name \in chosen THEN Append(f[n - 1], props[n])
                        ELSE f[n - 1]]
           upTo == CHOOSE f : f = Def(f)
<1>1. L \in Nat /\ DOMAIN props = 1..L /\ \A n \in 1..L : props[n] \in S
  BY LenProperties, ElementOfSeq
<1>2. Named(props, chosen) = upTo[L] BY DEF Named
<1> HIDE DEF L
<1>3. \E f : f = Def(f)
  <2> DEFINE G == [x \in Seq(S) \X (1..L) |->
                     IF props[x[2]].name \in chosen THEN Append(x[1], props[x[2]]) ELSE x[1]]
  <2>1. G \in [Seq(S) \X (1..L) -> Seq(S)]
    <3>1. ASSUME NEW x \in Seq(S) \X (1..L) PROVE Append(x[1], props[x[2]]) \in Seq(S)
      BY <1>1, AppendProperties
    <3> QED BY <3>1
  <2>2. <<>> \in Seq(S) OBVIOUS
  <2>3. PICK f \in [0..L -> Seq(S)] : Steps(f, <<>>, G, L)
    <3> HIDE DEF G
    <3> QED BY <1>1, <2>1, <2>2, Recursion
  <2>4. ASSUME NEW n \in 1..L
        PROVE  f[n] = IF props[n].name \in chosen THEN Append(f[n - 1], props[n]) ELSE f[n - 1]
    <3>1. n - 1 \in 0..L BY <1>1
    <3>2. <<f[n - 1], n>> \in Seq(S) \X (1..L) BY <3>1
    <3>3. f[n] = G[<<f[n - 1], n>>] BY <2>3 DEF Steps
    <3> QED BY <3>2, <3>3
  <2>5. f[0] = <<>> BY <2>3 DEF Steps
  <2>6. ASSUME NEW n \in 0..L PROVE f[n] = Def(f)[n]
    <3>1. n = 0 \/ n \in 1..L BY <1>1
    <3> QED BY <2>4, <2>5, <3>1
  <2>7. f = Def(f) BY <2>6
  <2> QED BY <2>7
<1>4. upTo = Def(upTo) BY <1>3
<1> HIDE DEF upTo
<1>5. upTo[0] = <<>> BY <1>1, <1>4
<1>6. ASSUME NEW k \in 1..L
      PROVE  upTo[k] = IF props[k].name \in chosen THEN Append(upTo[k - 1], props[k]) ELSE upTo[k - 1]
  <2>1. k \in 0..L /\ k # 0 BY <1>1
  <2>2. upTo[k] = Def(upTo)[k] BY <1>4
  <2> HIDE <1>4
  <2> QED BY <2>1, <2>2
<1> HIDE DEF Def
<1> DEFINE P(k) == /\ upTo[k] \in Seq(S)
                   /\ PickedFrom(upTo[k], props, chosen, k)
                   /\ NoTwo(props, chosen) => NoTwo(upTo[k], chosen)
           T == {k \in 0..L : P(k)}
<1>7. P(0) BY <1>5 DEF PickedFrom, NoTwo
<1>8. ASSUME NEW k \in 1..L, P(k - 1) PROVE P(k)
  <2>1. CASE props[k].name \in chosen
    <3>1. upTo[k] = Append(upTo[k - 1], props[k]) BY <1>6, <2>1
    <3>2. k \in 1..Len(props) BY DEF L
    <3> QED BY <1>8, <2>1, <3>1, <3>2, PickedAppend
  <2>2. CASE props[k].name \notin chosen
    <3>1. upTo[k] = upTo[k - 1] BY <1>6, <2>2
    <3>2. \A n \in 1..k : n = k \/ n \in 1..(k - 1) BY <1>1
    <3>3. 1..(k - 1) \subseteq 1..k BY <1>1
    <3>4. PickedFrom(upTo[k - 1], props, chosen, k) BY <1>8, <2>2, <3>2, <3>3 DEF PickedFrom
    <3> QED BY <1>8, <3>1, <3>4
  <2> QED BY <2>1, <2>2
<1>9. P(L)
  <2> HIDE DEF P
  <2>1. 0 \in T BY <1>1, <1>7
  <2>2. \A n \in 1..L : n - 1 \in T => n \in T BY <1>1, <1>8
  <2>3. 0..L \subseteq T
    <3> HIDE DEF T
    <3> QED BY <1>1, <2>1, <2>2, Upward
  <2>4. L \in 0..L BY <1>1
  <2> QED BY <2>3, <2>4
<1> QED BY <1>2, <1>9 DEF L

-----------------------------------------------------------------------------
(* The invariant.                                                          *)

\* The schemas of collections that have tables.
TableSchemas == {s \in UNION {Range(list) : list \in Schemas} : ~s.embedded}

\* What read_col_schema and the statements of a migration take for granted of
\* the names and types an application uses: the name of an index has one part,
\* that of the SQLite index is no table's, and two versions of a collection do
\* not give a property different types that are declared alike, but for case.
DeclarationsApart ==
  /\ \A s \in TableSchemas : \A i \in s.indexes : Len(i.name) = 1
  /\ \A s, t \in TableSchemas : \A i \in s.indexes : IndexName(s.name, i.name) # t.name
  /\ \A s, t \in TableSchemas : s.name = t.name =>
       \A m \in DOMAIN s.props, n \in DOMAIN t.props :
         /\ s.props[m].name = t.props[n].name
         /\ Lower(DataTypeSql(s.props[m].type)) = Lower(DataTypeSql(t.props[n].type))
         => s.props[m].type = t.props[n].type

Cell == Value \cup {Null}

\* The tables of rows with a cell for each name in ps.
Rows(ps) == UNION {[ids -> [ps -> Cell]] : ids \in SUBSET Id}

\* No two columns have a name.
OneColumnEach(cols) == \A m, n \in DOMAIN cols : cols[m].name = cols[n].name => m = n

On(d, c) == {i \in d.indexes : i.table = c}

\* Table t, with indexes, is as schema s wants it.
MadeTable(t, indexes, s) ==
  /\ t = [cols |-> t.cols, rows |-> t.rows]
  /\ t.cols \in Seq(Column) /\ OneColumnEach(t.cols)
  /\ Range(t.cols) = Range(s.props)
  /\ t.rows \in Rows(Live(s.props))
  /\ indexes = {IndexOn(s.name, i) : i \in s.indexes}
  /\ \A i \in s.indexes : i.unique => ~Duplicates(t.rows, i.props)

Made(d, s) == MadeTable(d.tables[s.name], On(d, s.name), s)

\* SQLite can tell the names of the tables and indexes apart.
NamesApart(d) == \A x, y \in NamesIn(d) : Fold(x) = Fold(y) => x = y

DbInv(d) ==
  /\ d = [tables |-> d.tables, indexes |-> d.indexes]
  /\ NamesApart(d)
  /\ \A i \in d.indexes : i.table \in DOMAIN d.tables
  /\ \A c \in DOMAIN d.tables : \E s \in TableSchemas : s.name = c /\ Made(d, s)

\* The properties whose type can be read back.
Exact(cols) == {p \in Live(cols) : ~Misread(TypeIn(cols, p))}

\* The rows agree with what the application knows of its objects.
SameRows(rows, objects, cols) ==
  /\ objects \in Rows(Live(cols)) /\ DOMAIN objects = DOMAIN rows
  /\ \A id \in DOMAIN rows : \A p \in Exact(cols) : rows[id][p] = objects[id][p]

Agrees(d, m) ==
  /\ DOMAIN m = DOMAIN d.tables
  /\ \A c \in DOMAIN d.tables : SameRows(d.tables[c].rows, m[c], d.tables[c].cols)

Wanted(d) ==
  /\ DOMAIN d.tables = Tables(want)
  /\ \A n \in DOMAIN want : ~want[n].embedded => Made(d, want[n])

\* The properties that keep their values, and the rows after the migration.
Stays(d, s) == Live(d.tables[s.name].cols) \ DropProperties(s, ReadColSchema(d, s.name))

Carried(d, s) ==
  [id \in DOMAIN d.tables[s.name].rows |->
     [p \in Live(s.props) |-> IF p \in Stays(d, s) THEN d.tables[s.name].rows[id][p] ELSE Null]]

Behind == {m \in 1..(step - 1) : ~want[m].embedded}

\* Half way through the schemas.
Migrating ==
  /\ want \in Schemas /\ step \in 1..(Len(want) + 1)
  /\ names = DOMAIN disk.tables
  /\ DbInv(work)
  /\ DOMAIN work.tables = names \cup {want[m].name : m \in Behind}
  /\ \A m \in Behind :
       /\ Made(work, want[m])
       /\ work.tables[want[m].name].rows =
            IF want[m].name \in names THEN Carried(disk, want[m]) ELSE <<>>
  /\ \A c \in names : (\A m \in Behind : want[m].name # c) =>
       work.tables[c] = disk.tables[c] /\ On(work, c) = On(disk, c)

StoreInv ==
  /\ phase \in {"closed", "failed", "migrating", "open", "write", "stuck"}
  /\ writes \in Nat
  /\ DbInv(disk) /\ Agrees(disk, kept)
  /\ phase \notin {"migrating", "write"} => work = disk /\ meant = kept
  /\ phase \in {"open", "write"} =>
       want \in Schemas /\ Wanted(disk) /\ DbInv(work) /\ Wanted(work) /\ Agrees(work, meant)
  /\ phase = "migrating" => Migrating
  /\ OnlyDuplicatesFail

-----------------------------------------------------------------------------
(* Columns and their types.                                                *)

LEMMA SchemaFacts ==
  ASSUME NEW s \in TableSchemas
  PROVE  /\ Verified(s) /\ ~s.embedded
         /\ s.props \in Seq(Column) /\ OneColumnEach(s.props)
         /\ s.name \in Seq(STRING) /\ s.indexes \subseteq Index
<1>1. PICK list \in Schemas : s \in Range(list) BY DEF TableSchemas
<1>2. PICK n \in DOMAIN list : s = list[n] BY <1>1 DEF Range
<1>3. Verified(s) BY <1>2, SQLiteStoreAssumption
<1> QED BY <1>3 DEF TableSchemas, Verified, OneColumnEach

\* The type found under a name is that of the column.
LEMMA Columns ==
  ASSUME NEW cols \in Seq(Column), OneColumnEach(cols)
  PROVE  /\ Len(cols) \in Nat /\ DOMAIN cols = 1..Len(cols)
         /\ \A n \in DOMAIN cols :
              /\ cols[n] \in Column /\ cols[n].name \in Live(cols)
              /\ TypeIn(cols, cols[n].name) = cols[n].type
         /\ \A p \in Live(cols) :
              p \in STRING /\ \E n \in DOMAIN cols : cols[n].name = p /\ TypeIn(cols, p) = cols[n].type
<1>1. Len(cols) \in Nat /\ DOMAIN cols = 1..Len(cols) BY LenProperties
<1>2. \A n \in DOMAIN cols : cols[n] \in Column BY <1>1, ElementOfSeq
<1>3. None \notin STRING BY SQLiteStoreAssumption
<1>4. \A n \in DOMAIN cols : cols[n].name \in STRING BY <1>2 DEF Column
<1>5. \A n \in DOMAIN cols : cols[n].name \in Live(cols) BY <1>3, <1>4 DEF Live
<1>6. ASSUME NEW n \in DOMAIN cols PROVE TypeIn(cols, cols[n].name) = cols[n].type
  <2> DEFINE m == CHOOSE k \in DOMAIN cols : cols[k].name = cols[n].name
  <2>1. m \in DOMAIN cols /\ cols[m].name = cols[n].name OBVIOUS
  <2>2. TypeIn(cols, cols[n].name) = cols[m].type BY DEF TypeIn
  <2> HIDE DEF m
  <2>3. m = n BY <2>1 DEF OneColumnEach
  <2> QED BY <2>2, <2>3
<1>7. \A p \in Live(cols) : \E n \in DOMAIN cols : cols[n].name = p BY DEF Live
<1> QED BY <1>1, <1>2, <1>4, <1>5, <1>6, <1>7

LEMMA SameColumns ==
  ASSUME NEW a \in Seq(Column), NEW b \in Seq(Column), OneColumnEach(a), OneColumnEach(b),
         Range(a) = Range(b)
  PROVE  Live(a) = Live(b) /\ \A p \in Live(a) : TypeIn(a, p) = TypeIn(b, p)
<1>1. \A n \in DOMAIN a : \E m \in DOMAIN b : b[m] = a[n] BY DEF Range
<1>2. \A n \in DOMAIN b : \E m \in DOMAIN a : a[m] = b[n] BY DEF Range
<1>3. Live(a) = Live(b) BY <1>1, <1>2 DEF Live
<1>4. ASSUME NEW p \in Live(a) PROVE TypeIn(a, p) = TypeIn(b, p)
  <2>1. PICK n \in DOMAIN a : a[n].name = p /\ TypeIn(a, p) = a[n].type BY Columns
  <2>2. PICK m \in DOMAIN b : b[m] = a[n] BY <1>1
  <2>3. TypeIn(b, b[m].name) = b[m].type BY Columns
  <2> QED BY <2>1, <2>2, <2>3
<1> QED BY <1>3, <1>4

\* A column's type is in its schema under its name.
LEMMA InColumns ==
  ASSUME NEW cols \in Seq(Column), OneColumnEach(cols), NEW x
  PROVE  x \in Range(cols) <=> x \in Column /\ x.name \in Live(cols) /\ TypeIn(cols, x.name) = x.type
<1>1. ASSUME x \in Range(cols) PROVE x \in Column /\ x.name \in Live(cols) /\ TypeIn(cols, x.name) = x.type
  BY <1>1, Columns DEF Range
<1>2. ASSUME x \in Column, x.name \in Live(cols), TypeIn(cols, x.name) = x.type
      PROVE  x \in Range(cols)
  <2>1. PICK n \in DOMAIN cols : cols[n].name = x.name /\ TypeIn(cols, x.name) = cols[n].type
    BY <1>2, Columns
  <2>2. cols[n] \in Column BY Columns
  <2>3. \A r \in Column : r = [name |-> r.name, type |-> r.type] BY DEF Column
  <2>4. cols[n] = x BY <1>2, <2>1, <2>2, <2>3
  <2> QED BY <2>4 DEF Range
<1> QED BY <1>1, <1>2

\* Two types that are read back alike are declared alike, but for case.
LEMMA ReadTypes ==
  ASSUME NEW t \in Types
  PROVE  /\ SqlDataType(DataTypeSql(t)) \in Types
         /\ \A u \in Types : SqlDataType(DataTypeSql(t)) = u =>
              Lower(DataTypeSql(t)) = Lower(DataTypeSql(u)) /\ ~Misread(u)
<1> DEFINE Declared == DataTypes \cup STRING
<1>1. DataTypeSql(t) \in Declared
  <2>1. CASE t \in [data : DataTypes, target : {None}]
    BY <2>1 DEF DataTypeSql, DataTypes
  <2>2. CASE t \in [data : {"object"}, target : STRING]
    BY <2>2 DEF DataTypeSql
  <2> QED BY <2>1, <2>2 DEF Types
<1>2. ASSUME NEW x \in Declared PROVE SqlDataType(x) \in Types
  <2>1. CASE Lower(x) \in DataTypes
    <3> DEFINE low == Lower(x)
    <3>1. SqlDataType(x) = [data |-> low, target |-> None] BY <2>1 DEF SqlDataType
    <3>2. low \in DataTypes BY <2>1
    <3> HIDE DEF low
    <3> QED BY <3>1, <3>2 DEF Types
  <2>2. CASE Lower(x) \notin DataTypes
    <3>1. SqlDataType(x) = [data |-> "object", target |-> x] BY <2>2 DEF SqlDataType
    <3>2. x \in STRING BY <2>2, SQLiteStoreAssumption
    <3> QED BY <3>1, <3>2 DEF Types
  <2> QED BY <2>1, <2>2
<1>3. ASSUME NEW x \in Declared
      PROVE  LET u == SqlDataType(x)
             IN Lower(DataTypeSql(u)) = Lower(x) /\ SqlDataType(DataTypeSql(u)) = u
  <2>1. CASE Lower(x) \in DataTypes
    <3> DEFINE low == Lower(x)
    <3>1. SqlDataType(x) = [data |-> low, target |-> None] BY <2>1 DEF SqlDataType
    <3>2. low # "object" BY <2>1 DEF DataTypes
    <3>3. DataTypeSql(SqlDataType(x)) = low BY <3>1, <3>2 DEF DataTypeSql
    <3>4. Lower(low) = low BY <2>1, SQLiteStoreAssumption
    <3> HIDE DEF low
    <3>5. SqlDataType(low) = [data |-> low, target |-> None] BY <2>1, <3>4 DEF SqlDataType, low
    <3> QED BY <3>1, <3>3, <3>4, <3>5 DEF low
  <2>2. CASE Lower(x) \notin DataTypes
    <3>1. SqlDataType(x) = [data |-> "object", target |-> x] BY <2>2 DEF SqlDataType
    <3>2. DataTypeSql(SqlDataType(x)) = x BY <3>1 DEF DataTypeSql
    <3> QED BY <3>2
  <2> QED BY <2>1, <2>2
<1> HIDE DEF Declared
<1> QED BY <1>1, <1>2, <1>3 DEF Misread

\* What is read back of the columns.
LEMMA ReadColumns ==
  ASSUME NEW d, NEW c, d.tables[c].cols \in Seq(Column), OneColumnEach(d.tables[c].cols)
  PROVE  LET cols == d.tables[c].cols
             read == ReadColSchema(d, c).props
         IN /\ read \in Seq(Column) /\ OneColumnEach(read) /\ Live(read) = Live(cols)
            /\ \A p \in Live(cols) : TypeIn(read, p) = SqlDataType(DataTypeSql(TypeIn(cols, p)))
<1> DEFINE cols == d.tables[c].cols
           read == ReadColSchema(d, c).props
<1>1. read = [n \in DOMAIN cols |-> [name |-> cols[n].name, type |-> SqlDataType(DataTypeSql(cols[n].type))]]
  BY DEF ReadColSchema
<1> HIDE DEF read
<1>2. /\ Len(cols) \in Nat /\ DOMAIN cols = 1..Len(cols)
      /\ \A n \in DOMAIN cols : cols[n] \in Column /\ TypeIn(cols, cols[n].name) = cols[n].type
  BY Columns
<1>3. \A p \in Live(cols) : \E n \in DOMAIN cols : cols[n].name = p BY DEF Live
<1>4. OneColumnEach(cols) OBVIOUS
<1> HIDE DEF cols
<1>5. \A n \in DOMAIN cols : read[n] \in Column
  <2>1. \A n \in DOMAIN cols : cols[n].type \in Types /\ cols[n].name \in STRING BY <1>2 DEF Column
  <2>2. \A n \in DOMAIN cols : SqlDataType(DataTypeSql(cols[n].type)) \in Types BY <2>1, ReadTypes
  <2> QED BY <1>1, <2>1, <2>2 DEF Column
<1>6. read \in Seq(Column)
  <2>1. read \in [1..Len(cols) -> Column] BY <1>1, <1>2, <1>5
  <2> QED BY <1>2, <2>1
<1>7. DOMAIN read = DOMAIN cols /\ \A n \in DOMAIN cols : read[n].name = cols[n].name BY <1>1
<1>8. OneColumnEach(read) BY <1>4, <1>7 DEF OneColumnEach
<1>9. Live(read) = Live(cols) BY <1>7 DEF Live
<1>10. ASSUME NEW p \in Live(cols) PROVE TypeIn(read, p) = SqlDataType(DataTypeSql(TypeIn(cols, p)))
  <2>1. PICK n \in DOMAIN cols : cols[n].name = p BY <1>3
  <2>2. TypeIn(read, read[n].name) = read[n].type BY <1>6, <1>7, <1>8, <2>1, Columns
  <2>3. TypeIn(cols, p) = cols[n].type BY <1>2, <2>1
  <2> QED BY <1>1, <1>7, <2>1, <2>2, <2>3
<1> QED BY <1>6, <1>8, <1>9, <1>10 DEF cols, read

\* Named, in terms of columns.
LEMMA NamedColumns ==
  ASSUME NEW cols \in Seq(Column), OneColumnEach(cols), NEW ps
  PROVE  /\ Named(cols, ps) \in Seq(Column) /\ OneColumnEach(Named(cols, ps))
         /\ \A x : x \in Range(Named(cols, ps)) <=> x \in Range(cols) /\ x.name \in ps
<1> DEFINE s == Named(cols, ps)
<1>1. /\ s \in Seq(Column) /\ PickedFrom(s, cols, ps, Len(cols)) /\ NoTwo(s, ps)
  <2>1. NoTwo(cols, ps) BY DEF NoTwo, OneColumnEach
  <2> QED BY <2>1, NamedPicks
<1> HIDE DEF s
<1>2. DOMAIN cols = 1..Len(cols) BY LenProperties
<1>3. /\ \A i \in DOMAIN s : \E n \in DOMAIN cols : cols[n].name \in ps /\ s[i] = cols[n]
      /\ \A n \in DOMAIN cols : cols[n].name \in ps => \E i \in DOMAIN s : s[i] = cols[n]
  BY <1>1, <1>2 DEF PickedFrom
<1>4. \A i \in DOMAIN s : s[i].name \in ps BY <1>3
<1>5. OneColumnEach(s) BY <1>1, <1>4 DEF OneColumnEach, NoTwo
<1>6. \A x : x \in Range(s) <=> x \in Range(cols) /\ x.name \in ps BY <1>3 DEF Range
<1> QED BY <1>1, <1>5, <1>6 DEF s

\* Columns of their own behind others.
LEMMA JoinedColumns ==
  ASSUME NEW a \in Seq(Column), NEW b \in Seq(Column), OneColumnEach(a), OneColumnEach(b),
         Live(a) \cap Live(b) = {}
  PROVE  /\ a \o b \in Seq(Column) /\ OneColumnEach(a \o b)
         /\ Range(a \o b) = Range(a) \cup Range(b)
<1> DEFINE all == a \o b
           L == Len(a)
<1>1. /\ DOMAIN a = 1..L /\ DOMAIN b = 1..Len(b) /\ DOMAIN all = 1..(L + Len(b))
      /\ L \in Nat /\ Len(b) \in Nat /\ all \in Seq(Column)
      /\ \A n \in 1..(L + Len(b)) : all[n] = IF n <= L THEN a[n] ELSE b[n - L]
  BY LenProperties, ConcatProperties
<1>2. /\ \A n \in DOMAIN a : a[n].name \in Live(a)
      /\ \A n \in DOMAIN b : b[n].name \in Live(b)
  BY Columns
<1> HIDE DEF all, L
<1>3. \A n \in DOMAIN all : \/ n \in DOMAIN a /\ n <= L /\ all[n] = a[n]
                            \/ n - L \in DOMAIN b /\ ~(n <= L) /\ all[n] = b[n - L]
  BY <1>1
<1>4. \A n \in DOMAIN a : n \in DOMAIN all /\ all[n] = a[n] BY <1>1
<1>5. \A n \in DOMAIN b : L + n \in DOMAIN all /\ all[L + n] = b[n] BY <1>1
<1>6. ASSUME NEW m \in DOMAIN all, NEW n \in DOMAIN all, all[m].name = all[n].name PROVE m = n
  <2>1. CASE m <= L /\ n <= L BY <1>3, <1>6, <2>1 DEF OneColumnEach
  <2>2. CASE ~(m <= L) /\ ~(n <= L)
    <3>1. m - L = n - L BY <1>3, <1>6, <2>2 DEF OneColumnEach
    <3> QED BY <1>1, <3>1
  <2>3. CASE m <= L /\ ~(n <= L) BY <1>2, <1>3, <1>6, <2>3
  <2>4. CASE ~(m <= L) /\ n <= L BY <1>2, <1>3, <1>6, <2>4
  <2> QED BY <2>1, <2>2, <2>3, <2>4
<1>7. Range(all) = Range(a) \cup Range(b)
  <2>1. \A x \in Range(all) : x \in Range(a) \cup Range(b) BY <1>3 DEF Range
  <2>2. \A x \in Range(a) : x \in Range(all) BY <1>4 DEF Range
  <2>3. \A x \in Range(b) : x \in Range(all) BY <1>5 DEF Range
  <2> QED BY <2>1, <2>2, <2>3
<1> QED BY <1>1, <1>6, <1>7 DEF all, OneColumnEach

\* The columns added are those of the new schema that no old column is for.
LEMMA AddedColumns ==
  ASSUME NEW new, NEW old, new.props \in Seq(Column), OneColumnEach(new.props),
         old.props \in Seq(Column), OneColumnEach(old.props)
  PROVE  LET add == AddProperties(new, old)
         IN /\ add \in Seq(Column) /\ OneColumnEach(add)
            /\ \A x : x \in Range(add) <=>
                 x \in Range(new.props) /\ x.name \notin Live(old.props) \ DropProperties(new, old)
<1> DEFINE drop == DropProperties(new, old)
           back == Live(new.props) \cap drop
           R == Named(old.props, back)
           T == [n \in DOMAIN R |-> [name |-> R[n].name, type |-> TypeIn(new.props, R[n].name)]]
           N == Named(new.props, Live(new.props) \ Live(old.props))
<1>1. AddProperties(new, old) = T \o N BY DEF AddProperties
<1>2. /\ R \in Seq(Column) /\ OneColumnEach(R)
      /\ \A x : x \in Range(R) <=> x \in Range(old.props) /\ x.name \in back
  BY NamedColumns
<1>3. /\ N \in Seq(Column) /\ OneColumnEach(N)
      /\ \A x : x \in Range(N) <=> x \in Range(new.props) /\ x.name \in Live(new.props) \ Live(old.props)
  BY NamedColumns
<1>4. drop \subseteq Live(old.props) BY DEF DropProperties
<1> HIDE DEF R, N, drop
<1>5. /\ Len(R) \in Nat /\ DOMAIN R = 1..Len(R) /\ \A n \in DOMAIN R : R[n].name \in back
  BY <1>2, Columns DEF Range
<1>6. \A p \in back : \E n \in DOMAIN R : R[n].name = p
  <2>1. TAKE p \in back
  <2>2. PICK m \in DOMAIN old.props : old.props[m].name = p BY <1>4 DEF Live
  <2>3. old.props[m] \in Range(R) BY <1>2, <2>2 DEF Range
  <2> QED BY <2>2, <2>3 DEF Range
<1>7. \A n \in DOMAIN R : T[n] \in Range(new.props) /\ T[n].name = R[n].name
  <2>1. TAKE n \in DOMAIN R
  <2>2. R[n].name \in Live(new.props) BY <1>5
  <2>3. PICK m \in DOMAIN new.props :
          new.props[m].name = R[n].name /\ TypeIn(new.props, R[n].name) = new.props[m].type
    BY <2>2, Columns
  <2>4. new.props[m] \in Column BY Columns
  <2>5. T[n] = new.props[m] BY <2>3, <2>4 DEF Column
  <2> QED BY <2>3, <2>5 DEF Range
<1>8. DOMAIN T = DOMAIN R OBVIOUS
<1> HIDE DEF T
<1>9. \A x \in Range(new.props) : x \in Column /\ x.name \in Live(new.props)
  BY Columns DEF Range
<1>10. T \in Seq(Column)
  <2>1. T \in [1..Len(R) -> Column]
    <3>1. \A n \in DOMAIN R : T[n] \in Column BY <1>7, <1>9
    <3>2. T = [n \in DOMAIN R |-> T[n]] BY DEF T
    <3> QED BY <1>5, <3>1, <3>2
  <2> QED BY <1>5, <2>1
<1>11. OneColumnEach(T) BY <1>2, <1>7, <1>8 DEF OneColumnEach
<1>12. \A x : x \in Range(T) <=> x \in Range(new.props) /\ x.name \in back
  <2>1. ASSUME NEW x \in Range(T) PROVE x \in Range(new.props) /\ x.name \in back
    BY <1>5, <1>7, <1>8 DEF Range
  <2>2. ASSUME NEW x \in Range(new.props), x.name \in back PROVE x \in Range(T)
    <3>1. PICK n \in DOMAIN R : R[n].name = x.name BY <1>6, <2>2
    <3>2. T[n] \in Range(new.props) /\ T[n].name = x.name BY <1>7, <3>1
    <3>3. PICK k \in DOMAIN new.props : new.props[k] = T[n] BY <3>2 DEF Range
    <3>4. PICK l \in DOMAIN new.props : new.props[l] = x BY <2>2 DEF Range
    <3>5. k = l BY <3>2, <3>3, <3>4 DEF OneColumnEach
    <3> QED BY <1>8, <3>3, <3>4, <3>5 DEF Range
  <2> QED BY <2>1, <2>2
<1>13. Live(T) \cap Live(N) = {}
  <2>1. \A p \in Live(T) : p \in Live(old.props)
    <3>1. \A p \in Live(T) : \E n \in DOMAIN T : T[n].name = p BY DEF Live
    <3> QED BY <1>4, <1>5, <1>7, <1>8, <3>1
  <2>2. \A p \in Live(N) : p \notin Live(old.props)
    <3>1. \A p \in Live(N) : \E n \in DOMAIN N : N[n].name = p BY DEF Live
    <3> QED BY <1>3, <3>1 DEF Range
  <2> QED BY <2>1, <2>2
<1>14. /\ T \o N \in Seq(Column) /\ OneColumnEach(T \o N) /\ Range(T \o N) = Range(T) \cup Range(N)
  BY <1>3, <1>10, <1>11, <1>13, JoinedColumns
<1>15. \A x : x \in Range(T \o N) <=>
         x \in Range(new.props) /\ x.name \notin Live(old.props) \ drop
  BY <1>3, <1>4, <1>9, <1>12, <1>14
<1> QED BY <1>1, <1>14, <1>15 DEF drop

-----------------------------------------------------------------------------
(* What update_table makes of the columns of a table.                      *)

\* Old and new versions of a collection, and the table of the old one.
Versions(d, old, new) ==
  /\ DeclarationsApart
  /\ old \in TableSchemas /\ new \in TableSchemas /\ old.name = new.name
  /\ Made(d, old)

LEMMA NewColumns ==
  ASSUME NEW d, NEW old, NEW new, Versions(d, old, new)
  PROVE  LET cols  == d.tables[new.name].cols
             read  == ReadColSchema(d, new.name)
             keep  == Named(cols, Live(cols) \ DropProperties(new, read))
             add   == AddProperties(new, read)
             stays == Stays(d, new)
         IN /\ Live(keep) = stays /\ Live(add) = Live(new.props) \ stays
            /\ stays \subseteq Live(new.props)
            /\ keep \o add \in Seq(Column) /\ OneColumnEach(keep \o add)
            /\ Range(keep \o add) = Range(new.props)
            /\ \A p \in stays : TypeIn(cols, p) = TypeIn(new.props, p)
            /\ \A p \in Exact(new.props) :
                 p \in stays <=> p \in Live(cols) \ DropProperties(new, [props |-> cols])
<1> DEFINE c == new.name
           cols == d.tables[c].cols
           read == ReadColSchema(d, c)
           drop == DropProperties(new, read)
           keep == Named(cols, Live(cols) \ drop)
           add == AddProperties(new, read)
           stays == Stays(d, new)
<1>1. /\ cols \in Seq(Column) /\ OneColumnEach(cols) /\ Range(cols) = Range(old.props)
      /\ new \in TableSchemas /\ old \in TableSchemas /\ old.name = new.name
  BY DEF Versions, Made, MadeTable
<1>2. /\ new.props \in Seq(Column) /\ OneColumnEach(new.props)
      /\ old.props \in Seq(Column) /\ OneColumnEach(old.props)
  BY <1>1, SchemaFacts
<1>3. /\ read.props \in Seq(Column) /\ OneColumnEach(read.props) /\ Live(read.props) = Live(cols)
      /\ \A p \in Live(cols) : TypeIn(read.props, p) = SqlDataType(DataTypeSql(TypeIn(cols, p)))
  BY <1>1, ReadColumns
<1>4. stays = Live(cols) \ drop BY DEF Stays
<1>5. /\ keep \in Seq(Column) /\ OneColumnEach(keep)
      /\ \A x : x \in Range(keep) <=> x \in Range(cols) /\ x.name \in Live(cols) \ drop
  BY <1>1, NamedColumns
<1>6. /\ add \in Seq(Column) /\ OneColumnEach(add)
      /\ \A x : x \in Range(add) <=> x \in Range(new.props) /\ x.name \notin stays
  BY <1>2, <1>3, <1>4, AddedColumns
<1> HIDE DEF c, cols, read, drop, keep, add, stays
<1>7. \A p \in stays : p \in Live(cols) /\ p \in Live(new.props)
                       /\ SqlDataType(DataTypeSql(TypeIn(cols, p))) = TypeIn(new.props, p)
  BY <1>3, <1>4 DEF drop, DropProperties
<1>8. \A p \in Live(cols) \cap Live(new.props) :
        /\ TypeIn(cols, p) \in Types /\ TypeIn(new.props, p) \in Types
        /\ Lower(DataTypeSql(TypeIn(cols, p))) = Lower(DataTypeSql(TypeIn(new.props, p))) =>
             TypeIn(cols, p) = TypeIn(new.props, p)
  <2>1. TAKE p \in Live(cols) \cap Live(new.props)
  <2>2. PICK m \in DOMAIN cols : cols[m].name = p /\ TypeIn(cols, p) = cols[m].type /\ cols[m] \in Column
    BY <1>1, Columns
  <2>3. PICK n \in DOMAIN new.props :
          /\ new.props[n].name = p /\ TypeIn(new.props, p) = new.props[n].type
          /\ new.props[n] \in Column
    BY <1>2, Columns
  <2>4. PICK k \in DOMAIN old.props : old.props[k] = cols[m] BY <1>1, <2>2 DEF Range
  <2>5. Lower(DataTypeSql(old.props[k].type)) = Lower(DataTypeSql(new.props[n].type)) =>
          old.props[k].type = new.props[n].type
    BY <1>1, <2>2, <2>3, <2>4 DEF Versions, DeclarationsApart
  <2> QED BY <2>2, <2>3, <2>4, <2>5 DEF Column
<1>9. \A p \in stays : TypeIn(cols, p) = TypeIn(new.props, p)
  BY <1>7, <1>8, ReadTypes
<1>10. Live(keep) = stays
  <2>1. \A p \in Live(keep) : p \in stays
    <3>1. TAKE p \in Live(keep)
    <3>2. PICK n \in DOMAIN keep : keep[n].name = p BY DEF Live
    <3>3. keep[n] \in Range(keep) BY <3>2 DEF Range
    <3> QED BY <1>4, <1>5, <3>2, <3>3
  <2>2. \A p \in stays : p \in Live(keep)
    <3>1. TAKE p \in stays
    <3>2. PICK n \in DOMAIN cols : cols[n].name = p BY <1>7 DEF Live
    <3>3. cols[n] \in Range(keep) BY <1>4, <1>5, <3>2 DEF Range
    <3>4. PICK m \in DOMAIN keep : keep[m] = cols[n] BY <3>3 DEF Range
    <3>5. keep[m].name \in Live(keep) BY <1>5, Columns
    <3> QED BY <3>2, <3>4, <3>5
  <2> QED BY <2>1, <2>2
<1>11. Live(add) = Live(new.props) \ stays
  <2>1. \A p \in Live(add) : p \in Live(new.props) \ stays
    <3>1. TAKE p \in Live(add)
    <3>2. PICK n \in DOMAIN add : add[n].name = p BY DEF Live
    <3>3. add[n] \in Range(add) BY <3>2 DEF Range
    <3> QED BY <1>2, <1>6, <3>2, <3>3, InColumns
  <2>2. \A p \in Live(new.props) \ stays : p \in Live(add)
    <3>1. TAKE p \in Live(new.props) \ stays
    <3>2. PICK n \in DOMAIN new.props : new.props[n].name = p BY DEF Live
    <3>3. new.props[n] \in Range(add) BY <1>6, <3>2 DEF Range
    <3>4. PICK m \in DOMAIN add : add[m] = new.props[n] BY <3>3 DEF Range
    <3>5. add[m].name \in Live(add) BY <1>6, Columns
    <3> QED BY <3>2, <3>4, <3>5
  <2> QED BY <2>1, <2>2
<1>12. /\ keep \o add \in Seq(Column) /\ OneColumnEach(keep \o add)
       /\ Range(keep \o add) = Range(keep) \cup Range(add)
  BY <1>5, <1>6, <1>10, <1>11, JoinedColumns
<1>13. \A x : x \in Range(keep) <=> x \in Range(new.props) /\ x.name \in stays
  <2>1. \A x : x \in Range(cols) <=> x \in Column /\ x.name \in Live(cols) /\ TypeIn(cols, x.name) = x.type
    BY <1>1, InColumns
  <2>2. \A x : x \in Range(new.props) <=>
          x \in Column /\ x.name \in Live(new.props) /\ TypeIn(new.props, x.name) = x.type
    BY <1>2, InColumns
  <2> QED BY <1>4, <1>5, <1>7, <1>9, <2>1, <2>2
<1>14. Range(keep \o add) = Range(new.props) BY <1>6, <1>12, <1>13
<1>15. ASSUME NEW p \in Exact(new.props)
       PROVE  p \in stays <=> p \in Live(cols) \ DropProperties(new, [props |-> cols])
  <2>1. p \in Live(new.props) /\ SqlDataType(DataTypeSql(TypeIn(new.props, p))) = TypeIn(new.props, p)
    BY DEF Exact, Misread
  <2>2. p \in Live(cols) \ DropProperties(new, [props |-> cols]) <=>
          p \in Live(cols) /\ TypeIn(new.props, p) = TypeIn(cols, p)
    BY <2>1 DEF DropProperties
  <2>3. p \in stays <=>
          p \in Live(cols) /\ TypeIn(new.props, p) = SqlDataType(DataTypeSql(TypeIn(cols, p)))
    BY <1>3, <1>4, <2>1 DEF drop, DropProperties
  <2> QED BY <1>9, <2>1, <2>2, <2>3
<1> QED BY <1>7, <1>9, <1>10, <1>11, <1>12, <1>14, <1>15 DEF c, cols, read, drop, keep, add, stays

-----------------------------------------------------------------------------
(* What it makes of the indexes.                                           *)

\* The name of a table and that of one of its indexes can be read back from
\* the name of the SQLite index.
LEMMA NameParts ==
  ASSUME NEW c \in Seq(STRING), NEW x \in Seq(STRING), Len(x) = 1
  PROVE  /\ <<Last(IndexName(c, x))>> = x
         /\ \A d \in Seq(STRING), y \in Seq(STRING) :
              Len(y) = 1 /\ IndexName(c, x) = IndexName(d, y) => c = d /\ x = y
<1>1. ASSUME NEW d \in Seq(STRING), NEW y \in Seq(STRING), Len(y) = 1
      PROVE  LET n == IndexName(d, y)
             IN /\ Len(n) = Len(d) + 1 /\ Len(d) \in Nat /\ DOMAIN d = 1..Len(d)
                /\ n[Len(n)] = y[1] /\ \A k \in 1..Len(d) : n[k] = d[k]
                /\ y = <<y[1]>>
  <2> DEFINE n == d \o y
  <2>1. /\ Len(d) \in Nat /\ DOMAIN d = 1..Len(d) /\ DOMAIN y = 1..1 BY <1>1, LenProperties
  <2>2. /\ Len(n) = Len(d) + 1
        /\ \A k \in 1..(Len(d) + 1) : n[k] = IF k <= Len(d) THEN d[k] ELSE y[k - Len(d)]
    <3>1. /\ Len(n) = Len(d) + Len(y)
          /\ \A k \in 1..(Len(d) + Len(y)) : n[k] = IF k <= Len(d) THEN d[k] ELSE y[k - Len(d)]
      BY ConcatProperties
    <3> HIDE DEF n
    <3> QED BY <1>1, <3>1
  <2> HIDE DEF n
  <2>3. n[Len(d) + 1] = y[1]
    <3>1. Len(d) + 1 \in 1..(Len(d) + 1) /\ ~(Len(d) + 1 <= Len(d)) /\ (Len(d) + 1) - Len(d) = 1
      BY <2>1
    <3> QED BY <2>2, <3>1
  <2>4. \A k \in 1..Len(d) : n[k] = d[k]
    <3>1. \A k \in 1..Len(d) : k \in 1..(Len(d) + 1) /\ k <= Len(d) BY <2>1
    <3> QED BY <2>2, <3>1
  <2>5. y = <<y[1]>> BY <1>1
  <2> QED BY <2>1, <2>2, <2>3, <2>4, <2>5 DEF n, IndexName
<1>2. <<Last(IndexName(c, x))>> = x BY <1>1 DEF Last
<1>3. ASSUME NEW d \in Seq(STRING), NEW y \in Seq(STRING), Len(y) = 1,
             IndexName(c, x) = IndexName(d, y)
      PROVE  c = d /\ x = y
  <2> DEFINE n == IndexName(c, x)
  <2>1. /\ Len(n) = Len(c) + 1 /\ Len(c) \in Nat /\ DOMAIN c = 1..Len(c)
        /\ n[Len(n)] = x[1] /\ (\A k \in 1..Len(c) : n[k] = c[k]) /\ x = <<x[1]>>
    BY <1>1
  <2>2. /\ Len(n) = Len(d) + 1 /\ Len(d) \in Nat /\ DOMAIN d = 1..Len(d)
        /\ n[Len(n)] = y[1] /\ (\A k \in 1..Len(d) : n[k] = d[k]) /\ y = <<y[1]>>
    BY <1>1, <1>3
  <2> HIDE DEF n
  <2>3. Len(n) = Len(c) + 1 /\ Len(n) = Len(d) + 1 /\ Len(c) \in Nat /\ Len(d) \in Nat
    BY <2>1, <2>2
  <2>4. Len(c) = Len(d) BY <2>3
  <2>5. c \in [1..Len(c) -> STRING] /\ d \in [1..Len(d) -> STRING] BY ElementOfSeq, <2>1, <2>2
  <2>6. \A k \in 1..Len(c) : c[k] = d[k] BY <2>1, <2>2, <2>4
  <2>7. c = d BY <2>4, <2>5, <2>6
  <2>8. x = y BY <2>1, <2>2
  <2> QED BY <2>7, <2>8
<1> QED BY <1>2, <1>3

\* Every index of a database is one of a schema.
LEMMA IndexForm ==
  ASSUME NEW d, DbInv(d), NEW i \in d.indexes
  PROVE  \E s \in TableSchemas : \E x \in s.indexes :
           i.table = s.name /\ i = IndexOn(s.name, x) /\ Made(d, s)
<1>1. PICK s \in TableSchemas : s.name = i.table /\ Made(d, s) BY DEF DbInv
<1>2. i \in {IndexOn(s.name, x) : x \in s.indexes} BY <1>1 DEF Made, MadeTable, On
<1> QED BY <1>1, <1>2

\* Two indexes with a name are of one table, and one index of its schema.
LEMMA OneName ==
  ASSUME DeclarationsApart, NEW s \in TableSchemas, NEW t \in TableSchemas,
         NEW x \in s.indexes, NEW y \in t.indexes,
         IndexName(s.name, x.name) = IndexName(t.name, y.name)
  PROVE  s.name = t.name /\ x.name = y.name
<1>1. /\ s.name \in Seq(STRING) /\ t.name \in Seq(STRING)
      /\ x.name \in Seq(STRING) /\ y.name \in Seq(STRING)
  BY SchemaFacts DEF Index
<1>2. Len(x.name) = 1 /\ Len(y.name) = 1 BY DEF DeclarationsApart
<1> QED BY <1>1, <1>2, NameParts

\* The indexes that are dropped and created: none of these statements fails
\* for a name, and the wanted indexes are there in the end.
LEMMA NewIndexes ==
  ASSUME NEW d, NEW old, NEW new, DbInv(d), Versions(d, old, new)
  PROVE  LET c      == new.name
             read   == ReadColSchema(d, c)
             gone   == DropIndexes(new, read)
             stored == {IndexName(c, i.name) : i \in gone}
             rest   == {i \in d.indexes : i.name \notin stored}
             add    == AddIndexes(new, read)
         IN /\ Distinct(c, gone) /\ stored \subseteq {i.name : i \in d.indexes}
            /\ \A i \in d.indexes : i.table # c => i \in rest
            /\ \A i \in rest : i.table = c => \A n \in DOMAIN i.props :
                 i.props[n] \notin DropProperties(new, read)
            /\ add \subseteq new.indexes
            /\ \A i \in add, j \in rest : j.name # IndexName(c, i.name)
            /\ {i \in rest : i.table = c} \cup {IndexOn(c, i) : i \in add} =
                 {IndexOn(c, i) : i \in new.indexes}
<1> DEFINE c == new.name
           read == ReadColSchema(d, c)
           gone == DropIndexes(new, read)
           stored == {IndexName(c, i.name) : i \in gone}
           rest == {i \in d.indexes : i.name \notin stored}
           add == AddIndexes(new, read)
           Read(x) == [name |-> x.name, props |-> x.props, unique |-> x.unique,
                       hash |-> FALSE, stored |-> IndexName(c, x.name)]
<1>1. /\ DeclarationsApart /\ new \in TableSchemas /\ old \in TableSchemas /\ old.name = c
      /\ On(d, c) = {IndexOn(c, x) : x \in old.indexes}
  BY DEF Versions, Made, MadeTable
<1>2. /\ OneEach(old.indexes) /\ OneEach(new.indexes) /\ c \in Seq(STRING)
      /\ \A x \in old.indexes : x.name \in Seq(STRING) /\ Len(x.name) = 1
  BY <1>1, SchemaFacts DEF Verified, Index, DeclarationsApart
<1>3. read.indexes = {Read(x) : x \in old.indexes}
  <2>1. read.indexes = {[name |-> <<Last(i.name)>>, props |-> i.props, unique |-> i.unique,
                         hash |-> FALSE, stored |-> i.name] : i \in On(d, c)}
    BY DEF ReadColSchema, On
  <2>2. \A x \in old.indexes : <<Last(IndexOn(c, x).name)>> = x.name
    BY <1>2, NameParts DEF IndexOn
  <2>3. \A x \in old.indexes :
          [name |-> <<Last(IndexOn(c, x).name)>>, props |-> IndexOn(c, x).props,
           unique |-> IndexOn(c, x).unique, hash |-> FALSE, stored |-> IndexOn(c, x).name] = Read(x)
    BY <2>2 DEF IndexOn
  <2> HIDE DEF read, Read
  <2>4. \A r \in read.indexes : r \in {Read(x) : x \in old.indexes}
    <3>1. TAKE r \in read.indexes
    <3>2. PICK i \in On(d, c) : r = [name |-> <<Last(i.name)>>, props |-> i.props,
                                     unique |-> i.unique, hash |-> FALSE, stored |-> i.name]
      BY <2>1
    <3>3. PICK x \in old.indexes : i = IndexOn(c, x) BY <1>1
    <3>4. r = Read(x) BY <2>3, <3>2, <3>3
    <3> QED BY <3>4
  <2>5. \A x \in old.indexes : Read(x) \in read.indexes
    <3>1. TAKE x \in old.indexes
    <3>2. IndexOn(c, x) \in On(d, c) BY <1>1
    <3> QED BY <2>1, <2>3, <3>2
  <2> QED BY <2>4, <2>5
<1>4. /\ \A x : /\ Read(x).name = x.name /\ Read(x).props = x.props
                /\ Read(x).unique = x.unique /\ Read(x).hash = FALSE
      /\ \A x : /\ IndexOn(c, x).name = IndexName(c, x.name) /\ IndexOn(c, x).table = c
                /\ IndexOn(c, x).props = x.props /\ IndexOn(c, x).unique = x.unique
  BY DEF IndexOn
<1>5. \A x \in old.indexes : IndexOn(c, x) \in d.indexes BY <1>1 DEF On
<1>6. \A r \in gone : \E x \in old.indexes : r = Read(x) BY <1>3 DEF DropIndexes
<1> HIDE DEF c, read, gone, rest, add, Read
<1>8. stored \subseteq {i.name : i \in d.indexes} BY <1>4, <1>5, <1>6
<1>9. \A x, y \in old.indexes : IndexName(c, x.name) = IndexName(c, y.name) => x = y
  <2>1. \A x, y \in old.indexes : IndexName(c, x.name) = IndexName(c, y.name) => x.name = y.name
    BY <1>2, NameParts
  <2> QED BY <1>2, <2>1 DEF OneEach
<1>7. Distinct(c, gone)
  <2>1. ASSUME NEW i \in gone, NEW j \in gone, Fold(IndexName(c, i.name)) = Fold(IndexName(c, j.name))
        PROVE  i = j
    <3>1. PICK x \in old.indexes, y \in old.indexes : i = Read(x) /\ j = Read(y) BY <1>6
    <3>2. i.name = x.name /\ j.name = y.name BY <1>4, <3>1
    <3>3. IndexName(c, i.name) \in NamesIn(d) /\ IndexName(c, j.name) \in NamesIn(d)
      BY <1>8 DEF NamesIn, stored
    <3>4. IndexName(c, x.name) = IndexName(c, y.name) BY <2>1, <3>2, <3>3 DEF DbInv, NamesApart
    <3> QED BY <1>9, <3>1, <3>4
  <2> QED BY <2>1 DEF Distinct
<1>10. \A x \in old.indexes : IndexName(c, x.name) \in stored <=> Read(x) \in gone
  BY <1>4, <1>6, <1>9
<1> HIDE DEF stored
<1>11. \A i \in d.indexes : i.table # c => i \in rest
  <2>1. ASSUME NEW i \in d.indexes, i.table # c, i.name \in stored PROVE FALSE
    <3>1. PICK r \in gone : i.name = IndexName(c, r.name) BY <2>1 DEF stored
    <3>2. PICK x \in old.indexes : r = Read(x) BY <1>6
    <3>3. PICK s \in TableSchemas : \E y \in s.indexes : i.table = s.name /\ i = IndexOn(s.name, y)
      BY IndexForm
    <3>4. PICK y \in s.indexes : i.table = s.name /\ i = IndexOn(s.name, y) BY <3>3
    <3>5. IndexName(s.name, y.name) = IndexName(old.name, x.name)
      BY <1>1, <1>4, <3>1, <3>2, <3>4 DEF IndexOn
    <3> QED BY <1>1, <2>1, <3>4, <3>5, OneName
  <2> QED BY <2>1 DEF rest
<1>12. \A i \in rest : i.table = c => \E x \in old.indexes : i = IndexOn(c, x) /\ Read(x) \notin gone
  <2>1. TAKE i \in rest
  <2>2. HAVE i.table = c
  <2>3. i \in d.indexes /\ i.name \notin stored BY DEF rest
  <2>4. i \in On(d, c) BY <2>2, <2>3 DEF On
  <2>5. PICK x \in old.indexes : i = IndexOn(c, x) BY <1>1, <2>4
  <2> QED BY <1>4, <1>10, <2>3, <2>5
\* An index that is not dropped is wanted as it is.
<1>13. ASSUME NEW x \in old.indexes, Read(x) \notin gone
       PROVE  \E now \in new.indexes :
                /\ now.name = x.name /\ now.props = x.props /\ now.unique = x.unique
                /\ \A n \in DOMAIN x.props : x.props[n] \notin DropProperties(new, read)
  <2> DEFINE now == NamedIndex(new.indexes, x.name)
  <2>1. x.name \in Names(new.indexes)
    BY <1>3, <1>4, <1>13 DEF gone, DropIndexes
  <2>2. now \in new.indexes /\ now.name = x.name BY <2>1 DEF Names, NamedIndex
  <2>3. /\ ~Redefined(now, Read(x))
        /\ \A n \in DOMAIN now.props : now.props[n] \notin DropProperties(new, read)
    BY <1>3, <1>4, <1>13 DEF gone, DropIndexes
  <2> HIDE DEF now
  <2> QED BY <1>4, <2>2, <2>3 DEF Redefined
<1>14. \A i \in rest : i.table = c => \A n \in DOMAIN i.props :
         i.props[n] \notin DropProperties(new, read)
  BY <1>4, <1>12, <1>13
<1>15. add \subseteq new.indexes BY DEF add, AddIndexes
<1>16. ASSUME NEW i \in add, NEW j \in rest, j.name = IndexName(c, i.name) PROVE FALSE
  <2>1. PICK s \in TableSchemas : \E y \in s.indexes : j.table = s.name /\ j = IndexOn(s.name, y)
    <3>1. j \in d.indexes BY DEF rest
    <3> QED BY <3>1, IndexForm
  <2>2. PICK y \in s.indexes : j.table = s.name /\ j = IndexOn(s.name, y) BY <2>1
  <2>3. IndexName(s.name, y.name) = IndexName(new.name, i.name) BY <1>16, <2>2 DEF IndexOn, c
  <2>4. j.table = c /\ y.name = i.name BY <1>1, <1>15, <2>2, <2>3, OneName DEF c
  <2>5. PICK x \in old.indexes : j = IndexOn(c, x) /\ Read(x) \notin gone BY <1>12, <2>4
  <2>6. x.name = i.name
    <3>1. IndexName(old.name, x.name) = IndexName(new.name, i.name)
      BY <1>1, <1>4, <1>16, <2>5 DEF c
    <3> QED BY <1>1, <1>15, <3>1, OneName
  <2>7. i.name \in Names(read.indexes) BY <1>3, <1>4, <2>6 DEF Names
  <2>8. PICK r \in gone : r.name = i.name BY <2>7 DEF add, AddIndexes, Names, gone
  <2>9. PICK z \in old.indexes : r = Read(z) BY <1>6
  <2>10. z = x BY <1>2, <1>4, <2>6, <2>8, <2>9 DEF OneEach
  <2> QED BY <2>5, <2>9, <2>10
<1>17. ASSUME NEW i \in rest, i.table = c PROVE i \in {IndexOn(c, x) : x \in new.indexes}
  <2>1. PICK x \in old.indexes : i = IndexOn(c, x) /\ Read(x) \notin gone BY <1>12, <1>17
  <2>2. PICK now \in new.indexes : now.name = x.name /\ now.props = x.props /\ now.unique = x.unique
    BY <1>13, <2>1
  <2>3. i = IndexOn(c, now) BY <2>1, <2>2 DEF IndexOn
  <2> QED BY <2>3
<1>18. ASSUME NEW now \in new.indexes, now \notin add PROVE IndexOn(c, now) \in {i \in rest : i.table = c}
  <2>1. now.name \in Names(read.indexes) /\ now.name \notin Names(gone)
    BY <1>18 DEF add, AddIndexes, gone
  <2>2. PICK x \in old.indexes : x.name = now.name BY <1>3, <1>4, <2>1 DEF Names
  <2>3. Read(x) \notin gone BY <1>4, <2>1, <2>2 DEF Names
  <2>4. PICK y \in new.indexes : y.name = x.name /\ y.props = x.props /\ y.unique = x.unique
    BY <1>13, <2>3
  <2>5. y = now BY <1>2, <2>2, <2>4 DEF OneEach
  <2>6. IndexOn(c, now) = IndexOn(c, x) BY <2>4, <2>5 DEF IndexOn
  <2>7. IndexOn(c, x) \in rest BY <1>4, <1>5, <1>10, <2>3 DEF rest
  <2> QED BY <1>4, <2>6, <2>7
<1>19. {i \in rest : i.table = c} \cup {IndexOn(c, i) : i \in add} = {IndexOn(c, i) : i \in new.indexes}
  BY <1>15, <1>17, <1>18
<1> QED
  BY <1>7, <1>8, <1>11, <1>14, <1>15, <1>16, <1>19 DEF c, read, gone, stored, rest, add

-----------------------------------------------------------------------------
(* What it makes of the rows.                                              *)

\* An index is on properties whose type can be read back.
LEMMA KeysAreExact ==
  ASSUME NEW s \in TableSchemas, NEW i \in s.indexes, NEW n \in DOMAIN i.props
  PROVE  i.props[n] \in Exact(s.props)
<1> DEFINE type == TypeIn(s.props, i.props[n])
<1>1. i.props[n] \in Live(s.props) /\ type.data \notin {"object", "json"}
  BY SchemaFacts DEF Verified
<1>2. type \in Types
  <2>1. s.props \in Seq(Column) /\ OneColumnEach(s.props) BY SchemaFacts
  <2>2. PICK m \in DOMAIN s.props : type = s.props[m].type /\ s.props[m] \in Column
    BY <1>1, <2>1, Columns
  <2> QED BY <2>2 DEF Column
<1> HIDE DEF type
<1>3. ~Misread(type)
  <2>1. type.data \in {"i32", "text"} /\ type = [data |-> type.data, target |-> None]
    BY <1>1, <1>2 DEF Types, DataTypes
  <2>2. Lower(type.data) = type.data /\ type.data \in DataTypes
    BY <2>1, SQLiteStoreAssumption DEF DataTypes
  <2>3. DataTypeSql(type) = type.data BY <2>1 DEF DataTypeSql
  <2>4. SqlDataType(type.data) = type BY <2>1, <2>2 DEF SqlDataType
  <2> QED BY <2>3, <2>4 DEF Misread
<1> QED BY <1>1, <1>3 DEF Exact, type

LEMMA RowFacts ==
  ASSUME NEW ps, NEW rows \in Rows(ps)
  PROVE  /\ DOMAIN rows \subseteq Id
         /\ \A id \in DOMAIN rows : rows[id] \in [ps -> Cell]
BY DEF Rows

\* The rows of a table that is made as a schema wants it, under the columns.
LEMMA MadeFacts ==
  ASSUME NEW d, NEW s \in TableSchemas, Made(d, s)
  PROVE  LET t == d.tables[s.name]
         IN /\ Live(t.cols) = Live(s.props) /\ Exact(t.cols) = Exact(s.props)
            /\ \A p \in Live(s.props) : TypeIn(t.cols, p) = TypeIn(s.props, p)
            /\ DOMAIN t.rows \subseteq Id
            /\ \A id \in DOMAIN t.rows : t.rows[id] \in [Live(s.props) -> Cell]
<1> DEFINE t == d.tables[s.name]
<1>1. /\ t.cols \in Seq(Column) /\ OneColumnEach(t.cols) /\ Range(t.cols) = Range(s.props)
      /\ t.rows \in Rows(Live(s.props))
  BY DEF Made, MadeTable
<1>2. s.props \in Seq(Column) /\ OneColumnEach(s.props) BY SchemaFacts
<1> HIDE DEF t
<1>3. Live(t.cols) = Live(s.props) /\ \A p \in Live(t.cols) : TypeIn(t.cols, p) = TypeIn(s.props, p)
  BY <1>1, <1>2, SameColumns
<1>4. Exact(t.cols) = Exact(s.props) BY <1>3 DEF Exact
<1> QED BY <1>1, <1>3, <1>4, RowFacts DEF t

\* The rows that dropping and adding columns makes, and the equal keys in them.
LEMMA CarriedRows ==
  ASSUME NEW d, NEW old, NEW new, Versions(d, old, new)
  PROVE  LET c    == new.name
             cols == d.tables[c].cols
             rows == d.tables[c].rows
             read == ReadColSchema(d, c)
             drop == DropProperties(new, read)
             add  == AddProperties(new, read)
         IN /\ [id \in DOMAIN rows |-> Set(Without(rows[id], drop), Live(add), Null)] =
                 Carried(d, new)
            /\ Carried(d, new) \in Rows(Live(new.props))
            /\ \A i \in new.indexes : Duplicates(Carried(d, new), i.props) =>
                 /\ Duplicates(rows, i.props)
                 /\ Range(i.props) \subseteq Live(cols) \ DropProperties(new, [props |-> cols])
<1> DEFINE c == new.name
           cols == d.tables[c].cols
           rows == d.tables[c].rows
           read == ReadColSchema(d, c)
           drop == DropProperties(new, read)
           add == AddProperties(new, read)
           stays == Stays(d, new)
           all == Live(new.props)
           carried == Carried(d, new)
<1>1. /\ old \in TableSchemas /\ new \in TableSchemas /\ old.name = c /\ Made(d, old)
  BY DEF Versions
<1>2. /\ Live(cols) = Live(old.props) /\ DOMAIN rows \subseteq Id
      /\ \A id \in DOMAIN rows : rows[id] \in [Live(cols) -> Cell]
  BY <1>1, MadeFacts
<1>3. /\ Live(add) = all \ stays /\ stays \subseteq all
      /\ \A p \in Exact(new.props) :
           p \in stays <=> p \in Live(cols) \ DropProperties(new, [props |-> cols])
  BY NewColumns
<1>4. stays = Live(cols) \ drop BY DEF Stays
<1>5. carried = [id \in DOMAIN rows |-> [p \in all |-> IF p \in stays THEN rows[id][p] ELSE Null]]
  BY DEF Carried
<1>6. \A i \in new.indexes : \A n \in DOMAIN i.props : i.props[n] \in all /\ i.props[n] \in Exact(new.props)
  BY <1>1, KeysAreExact DEF Exact
<1> HIDE DEF c, cols, rows, read, drop, add, stays, all, carried
<1>7. ASSUME NEW id \in DOMAIN rows
      PROVE  /\ Set(Without(rows[id], drop), Live(add), Null) = carried[id]
             /\ carried[id] \in [all -> Cell]
  <2> DEFINE left == Without(rows[id], drop)
  <2>1. left = [p \in stays |-> rows[id][p]] BY <1>2, <1>4, <1>7 DEF Without
  <2>2. Set(left, Live(add), Null) =
          [p \in all |-> IF p \in stays THEN rows[id][p] ELSE Null]
    <3>1. Set(left, Live(add), Null) =
            [p \in stays \cup Live(add) |-> IF p \in Live(add) THEN Null ELSE left[p]]
      BY <2>1 DEF Set
    <3>2. stays \cup Live(add) = all BY <1>3
    <3>3. \A p \in all : (IF p \in Live(add) THEN Null ELSE left[p]) =
                         (IF p \in stays THEN rows[id][p] ELSE Null)
      BY <1>3, <2>1
    <3> HIDE DEF left
    <3> QED BY <3>1, <3>2, <3>3
  <2>3. carried[id] = [p \in all |-> IF p \in stays THEN rows[id][p] ELSE Null] BY <1>5
  <2>4. \A p \in all : (IF p \in stays THEN rows[id][p] ELSE Null) \in Cell
    BY <1>2, <1>4 DEF Cell
  <2> QED BY <2>2, <2>3, <2>4
<1>8. [id \in DOMAIN rows |-> Set(Without(rows[id], drop), Live(add), Null)] = carried
  <2>1. carried = [id \in DOMAIN rows |-> carried[id]] BY <1>5
  <2> QED BY <1>7, <2>1
<1>9. carried \in Rows(all)
  <2>1. DOMAIN carried = DOMAIN rows BY <1>5
  <2>2. carried \in [DOMAIN rows -> [all -> Cell]] BY <1>5, <1>7, <2>1
  <2> QED BY <1>2, <2>2 DEF Rows
<1>10. ASSUME NEW i \in new.indexes, Duplicates(carried, i.props)
       PROVE  /\ Duplicates(rows, i.props)
              /\ Range(i.props) \subseteq Live(cols) \ DropProperties(new, [props |-> cols])
  <2>1. PICK x \in DOMAIN rows, y \in DOMAIN rows : x # y /\ SameKey(carried[x], carried[y], i.props)
    BY <1>5, <1>10 DEF Duplicates
  <2>2. \A n \in DOMAIN i.props :
          carried[x][i.props[n]] # Null /\ carried[x][i.props[n]] = carried[y][i.props[n]]
    BY <2>1 DEF SameKey
  <2>3. \A z \in DOMAIN rows : \A p \in all : carried[z][p] = IF p \in stays THEN rows[z][p] ELSE Null
    BY <1>5
  <2>4. \A n \in DOMAIN i.props :
          /\ i.props[n] \in stays
          /\ rows[x][i.props[n]] # Null /\ rows[x][i.props[n]] = rows[y][i.props[n]]
    BY <1>6, <2>2, <2>3
  <2>5. Duplicates(rows, i.props) BY <2>1, <2>4 DEF Duplicates, SameKey
  <2>6. Range(i.props) \subseteq Live(cols) \ DropProperties(new, [props |-> cols])
    BY <1>3, <1>6, <2>4 DEF Range
  <2> QED BY <2>5, <2>6
<1> QED BY <1>8, <1>9, <1>10 DEF c, cols, rows, read, drop, add, all, carried

-----------------------------------------------------------------------------
(* update_table and the creation of a table, as a whole.                   *)

\* A database is what its parts are.
Database(tables, indexes) == [tables |-> tables, indexes |-> indexes]

\* Only collection c is touched.
Alters(d, e, c) ==
  /\ e = Database(e.tables, e.indexes)
  /\ DOMAIN e.tables = DOMAIN d.tables \cup {c}
  /\ \A i \in e.indexes : i.table \in DOMAIN e.tables
  /\ \A x \in DOMAIN d.tables : x # c => e.tables[x] = d.tables[x] /\ On(e, x) = On(d, x)

LEMMA DatabaseFacts ==
  ASSUME NEW tables, NEW indexes
  PROVE  LET d == Database(tables, indexes)
         IN /\ d.tables = tables /\ d.indexes = indexes /\ d # Failed
            /\ \A x : [d EXCEPT !.indexes = x] = Database(tables, x)
            /\ \A x : [d EXCEPT !.tables = x] = Database(x, indexes)
<1> DEFINE d == Database(tables, indexes)
<1>1. d.tables = tables /\ d.indexes = indexes BY DEF Database
<1>2. d # Failed
  <2>1. "tables" \in DOMAIN d BY DEF Database
  <2>2. "tables" \notin DOMAIN Failed BY DEF Failed
  <2> QED BY <2>1, <2>2
<1>3. \A x : [d EXCEPT !.indexes = x] = Database(tables, x) BY DEF Database
<1>4. \A x : [d EXCEPT !.tables = x] = Database(x, indexes) BY DEF Database
<1> QED BY <1>1, <1>2, <1>3, <1>4

LEMMA DropIndexDone ==
  ASSUME NEW tables, NEW indexes, NEW c, NEW gone, Distinct(c, gone),
         NamesApart(Database(tables, indexes)),
         {IndexName(c, i.name) : i \in gone} \subseteq {i.name : i \in indexes}
  PROVE  DropIndex(Database(tables, indexes), c, gone) =
           Database(tables, {i \in indexes : i.name \notin {IndexName(c, j.name) : j \in gone}})
<1> DEFINE d == Database(tables, indexes)
           stored == {IndexName(c, i.name) : i \in gone}
           left == {i \in indexes : i.name \notin stored}
<1>1. d.tables = tables /\ d.indexes = indexes /\ d # Failed BY DatabaseFacts
<1> DEFINE folded == {Fold(IndexName(c, i.name)) : i \in gone}
<1>2. folded \subseteq {Fold(i.name) : i \in d.indexes} BY <1>1
<1>5. left = {i \in d.indexes : Fold(i.name) \notin folded}
  <2>1. ASSUME NEW i \in indexes PROVE i.name \in stored <=> Fold(i.name) \in folded
    <3>1. ASSUME NEW j \in gone, Fold(i.name) = Fold(IndexName(c, j.name)) PROVE i.name \in stored
      <4>1. i.name \in NamesIn(d) /\ IndexName(c, j.name) \in NamesIn(d) BY <1>1 DEF NamesIn
      <4> QED BY <3>1, <4>1 DEF NamesApart
    <3> QED BY <3>1
  <2> QED BY <1>1, <2>1
<1>3. DropIndex(d, c, gone) = [d EXCEPT !.indexes = left]
  <2> HIDE DEF d, left
  <2> QED BY <1>1, <1>2, <1>5 DEF DropIndex
<1> HIDE DEF left
<1>4. DropIndex(d, c, gone) = Database(tables, left)
  BY <1>3, DatabaseFacts
<1> QED BY <1>4 DEF left

\* What dropping and adding columns makes of a table.
WithoutColumns(t, gone) ==
  [cols |-> Named(t.cols, Live(t.cols) \ gone),
   rows |-> [id \in DOMAIN t.rows |-> Without(t.rows[id], gone)]]

WithColumns(t, cols) ==
  [cols |-> t.cols \o cols,
   rows |-> [id \in DOMAIN t.rows |-> Set(t.rows[id], Live(cols), Null)]]

LEMMA DropColumnDone ==
  ASSUME NEW tables, NEW indexes, NEW c \in DOMAIN tables, NEW gone,
         \A i \in indexes : i.table = c => \A n \in DOMAIN i.props : i.props[n] \notin gone
  PROVE  DropColumn(Database(tables, indexes), c, gone) =
           Database([tables EXCEPT ![c] = WithoutColumns(tables[c], gone)], indexes)
<1> DEFINE d == Database(tables, indexes)
           made == WithoutColumns(tables[c], gone)
<1>1. d.tables = tables /\ d.indexes = indexes /\ d # Failed BY DatabaseFacts
<1>2. ~\E i \in d.indexes : i.table = c /\ \E n \in DOMAIN i.props : i.props[n] \in gone BY <1>1
<1>3. DropColumn(d, c, gone) = [d EXCEPT !.tables = [d.tables EXCEPT ![c] = made]]
  BY <1>1, <1>2 DEF DropColumn, WithoutColumns
<1> HIDE DEF made
<1>4. DropColumn(d, c, gone) = Database([tables EXCEPT ![c] = made], indexes)
  BY <1>1, <1>3, DatabaseFacts
<1> QED BY <1>4 DEF made

LEMMA AddColumnDone ==
  ASSUME NEW tables, NEW indexes, NEW c \in DOMAIN tables, NEW cols,
         ~BadColumns(tables[c].cols \o cols)
  PROVE  AddColumn(Database(tables, indexes), c, cols) =
           Database([tables EXCEPT ![c] = WithColumns(tables[c], cols)], indexes)
<1> DEFINE d == Database(tables, indexes)
           made == WithColumns(tables[c], cols)
<1>1. d.tables = tables /\ d.indexes = indexes /\ d # Failed BY DatabaseFacts
<1>2. ~BadColumns(d.tables[c].cols \o cols) BY <1>1
<1>3. AddColumn(d, c, cols) = [d EXCEPT !.tables = [d.tables EXCEPT ![c] = made]]
  BY <1>1, <1>2 DEF AddColumn, WithColumns
<1> HIDE DEF made
<1>4. AddColumn(d, c, cols) = Database([tables EXCEPT ![c] = made], indexes)
  BY <1>1, <1>3, DatabaseFacts
<1> QED BY <1>4 DEF made

Again(rows, new) == \E i \in new : i.unique /\ Duplicates(rows, i.props)

IndexesOn(c, new) == {IndexOn(c, i) : i \in new}

LEMMA NamesOn ==
  \A c, new : {i.name : i \in IndexesOn(c, new)} = {IndexName(c, i.name) : i \in new}
<1> SUFFICES ASSUME NEW c, NEW new
             PROVE  {i.name : i \in IndexesOn(c, new)} = {IndexName(c, i.name) : i \in new}
  OBVIOUS
<1>1. \A i : IndexOn(c, i).name = IndexName(c, i.name) BY DEF IndexOn
<1>2. \A x : x \in IndexesOn(c, new) <=> \E i \in new : x = IndexOn(c, i) BY DEF IndexesOn
<1> QED BY <1>1, <1>2

\* The indexes can be called what they are to be called.
Free(d, c, new) ==
  Distinct(c, new) /\ \A i \in new : Fold(IndexName(c, i.name)) \notin Taken(d)

\* Creating indexes under names that are free fails for equal keys only.
LEMMA CreateIndexDone ==
  ASSUME NEW tables, NEW indexes, NEW c \in DOMAIN tables, NEW new
  PROVE  LET d == Database(tables, indexes)
             again == Again(tables[c].rows, new)
         IN /\ again \/ ~Free(d, c, new) => CreateIndex(d, c, new) = Failed
            /\ ~again /\ Free(d, c, new) =>
                 CreateIndex(d, c, new) = Database(tables, indexes \cup IndexesOn(c, new))
<1> DEFINE d == Database(tables, indexes)
<1>1. d.tables = tables /\ d.indexes = indexes /\ d # Failed BY DatabaseFacts
<1>2. \A x : [d EXCEPT !.indexes = x] = Database(tables, x) BY DatabaseFacts
<1> HIDE DEF d
<1> QED BY <1>1, <1>2 DEF CreateIndex, Again, IndexesOn, Free, d

\* What SQLite has against the names of a schema, in this database.
Clash(d, s) ==
  \/ BadColumns(s.props)
  \/ \E x \in NamesOf(s) : Fold(x) \in Refused
  \/ \E x \in NamesOf(s), y \in NamesOf(s) \cup NamesIn(d) : x # y /\ Fold(x) = Fold(y)

\* Names that nothing has yet are free, unless SQLite has something against them.
LEMMA FreeOrClash ==
  ASSUME NEW d, NEW s \in TableSchemas, DeclarationsApart, NEW new \in SUBSET s.indexes,
         NEW e, NamesIn(e) \subseteq NamesIn(d) \cup {s.name},
         \A i \in new : IndexName(s.name, i.name) \notin NamesIn(e)
  PROVE  Free(e, s.name, new) \/ Clash(d, s)
<1> DEFINE N(i) == IndexName(s.name, i.name)
<1>1. s.name \in NamesOf(s) /\ \A i \in new : N(i) \in NamesOf(s) BY DEF NamesOf
<1>2. \A i, j \in new : N(i) = N(j) => i = j
  <2>1. \A i, j \in new : N(i) = N(j) => i.name = j.name BY OneName
  <2> QED BY <2>1, SchemaFacts DEF Verified, OneEach
<1> HIDE DEF N
<1>3. ASSUME NEW i \in new, NEW j \in new, i # j, Fold(N(i)) = Fold(N(j)) PROVE Clash(d, s)
  BY <1>1, <1>2, <1>3 DEF Clash
<1>4. ASSUME NEW i \in new, NEW y \in NamesIn(e), Fold(N(i)) = Fold(y) PROVE Clash(d, s)
  BY <1>1, <1>4 DEF Clash, N
<1>5. ASSUME NEW i \in new, Fold(N(i)) \in Refused PROVE Clash(d, s)
  BY <1>1, <1>5 DEF Clash
<1> QED BY <1>3, <1>4, <1>5 DEF Free, Distinct, Taken, N

\* Indexes under free names leave the names apart.
LEMMA StillApart ==
  ASSUME NEW d, NEW e, NEW c, NEW new, NamesApart(d), Free(d, c, new),
         NamesIn(e) = NamesIn(d) \cup {IndexName(c, i.name) : i \in new}
  PROVE  NamesApart(e)
BY DEF NamesApart, Free, Distinct, Taken

\* A failure says which keys are equal.
DuplicatesIn(d, s) ==
  LET cols == d.tables[s.name].cols
  IN \E i \in s.indexes :
       /\ i.unique
       /\ Range(i.props) \subseteq Live(cols) \ DropProperties(s, [props |-> cols])
       /\ Duplicates(d.tables[s.name].rows, i.props)

\* A column list is bad for the columns in it, in whatever order.
LEMMA BadAlike ==
  ASSUME NEW a, NEW b, Range(a) = Range(b), OneColumnEach(a), BadColumns(a)
  PROVE  BadColumns(b)
<1>1. \A n \in DOMAIN a : \E k \in DOMAIN b : b[k] = a[n] BY DEF Range
<1>2. CASE \E n \in DOMAIN a : <<Lower(a[n].name)>> \in Refused
  <2>1. PICK n \in DOMAIN a : <<Lower(a[n].name)>> \in Refused BY <1>2
  <2>2. PICK k \in DOMAIN b : b[k] = a[n] BY <1>1
  <2> QED BY <2>1, <2>2 DEF BadColumns
<1>3. CASE \E m, n \in DOMAIN a : m # n /\ Lower(a[m].name) = Lower(a[n].name)
  <2>1. PICK m \in DOMAIN a, n \in DOMAIN a : m # n /\ Lower(a[m].name) = Lower(a[n].name) BY <1>3
  <2>2. PICK k \in DOMAIN b, l \in DOMAIN b : b[k] = a[m] /\ b[l] = a[n] BY <1>1
  <2>3. k # l BY <2>1, <2>2 DEF OneColumnEach
  <2> QED BY <2>1, <2>2, <2>3 DEF BadColumns
<1> QED BY <1>2, <1>3 DEF BadColumns

\* A table is made as its new version wants it, and the rows are carried over,
\* or else there are equal keys, or a name that SQLite does not take
\* (update_table).
LEMMA Updated ==
  ASSUME NEW d, NEW old, NEW new, DbInv(d), Versions(d, old, new), new.name \in DOMAIN d.tables
  PROVE  LET e == UpdateTable(d, new)
         IN \/ e = Failed /\ (DuplicatesIn(d, new) \/ Clash(d, new))
            \/ /\ e # Failed /\ Alters(d, e, new.name) /\ Made(e, new) /\ NamesApart(e)
               /\ e.tables[new.name].rows = Carried(d, new)
<1> DEFINE c == new.name
           cols == d.tables[c].cols
           rows == d.tables[c].rows
           read == ReadColSchema(d, c)
           gone == DropIndexes(new, read)
           stored == {IndexName(c, i.name) : i \in gone}
           rest == {i \in d.indexes : i.name \notin stored}
           drop == DropProperties(new, read)
           keep == Named(cols, Live(cols) \ drop)
           add == AddProperties(new, read)
           addI == AddIndexes(new, read)
           more == IndexesOn(c, addI)
           t1 == WithoutColumns(d.tables[c], drop)
           t2 == [cols |-> keep \o add, rows |-> Carried(d, new)]
           T1 == [d.tables EXCEPT ![c] = t1]
           T2 == [d.tables EXCEPT ![c] = t2]
           d1 == DropIndex(d, c, gone)
           d2 == DropColumn(d1, c, drop)
           d3 == AddColumn(d2, c, add)
           e == CreateIndex(d3, c, addI)
<1>1. UpdateTable(d, new) = e BY DEF UpdateTable
<1>2. /\ DeclarationsApart /\ new \in TableSchemas /\ old \in TableSchemas /\ old.name = c
      /\ Made(d, old) /\ c \in DOMAIN d.tables
      /\ d = Database(d.tables, d.indexes) /\ \A i \in d.indexes : i.table \in DOMAIN d.tables
      /\ NamesApart(d)
  BY DEF Versions, DbInv, Database
<1>3. /\ Distinct(c, gone) /\ stored \subseteq {i.name : i \in d.indexes}
      /\ \A i \in d.indexes : i.table # c => i \in rest
      /\ \A i \in rest : i.table = c => \A n \in DOMAIN i.props : i.props[n] \notin drop
      /\ addI \subseteq new.indexes
      /\ \A i \in addI, j \in rest : j.name # IndexName(c, i.name)
      /\ {i \in rest : i.table = c} \cup more = {IndexOn(c, i) : i \in new.indexes}
  BY NewIndexes DEF IndexesOn
<1>4. /\ keep \o add \in Seq(Column) /\ OneColumnEach(keep \o add)
      /\ Range(keep \o add) = Range(new.props)
  BY NewColumns
<1>5. /\ [id \in DOMAIN rows |-> Set(Without(rows[id], drop), Live(add), Null)] = Carried(d, new)
      /\ Carried(d, new) \in Rows(Live(new.props))
      /\ \A i \in new.indexes : Duplicates(Carried(d, new), i.props) =>
           /\ Duplicates(rows, i.props)
           /\ Range(i.props) \subseteq Live(cols) \ DropProperties(new, [props |-> cols])
  BY CarriedRows
<1>6. rest \subseteq d.indexes OBVIOUS
<1>7. \A i \in more : \E j \in addI : i = IndexOn(c, j) BY DEF IndexesOn
<1>8. /\ t1.cols = keep /\ t1.rows = [id \in DOMAIN rows |-> Without(rows[id], drop)]
      /\ t2.cols = keep \o add /\ t2.rows = Carried(d, new)
      /\ t2 = [cols |-> t2.cols, rows |-> t2.rows]
  BY DEF WithoutColumns
<1>9. d1 = Database(d.tables, rest)
  <2> HIDE DEF gone
  <2>1. NamesApart(Database(d.tables, d.indexes)) BY <1>2
  <2> QED BY <1>2, <1>3, <2>1, DropIndexDone
<1>10. d2 = Database(T1, rest)
  <2>1. c \in DOMAIN d.tables BY <1>2
  <2>2. \A i \in rest : i.table = c => \A n \in DOMAIN i.props : i.props[n] \notin drop BY <1>3
  <2> HIDE DEF d1, rest, drop
  <2>3. DropColumn(Database(d.tables, rest), c, drop) = Database(T1, rest)
    BY <2>1, <2>2, DropColumnDone
  <2> QED BY <1>9, <2>3
<1> DEFINE bad == BadColumns(keep \o add)
<1>11. /\ ~bad => d3 = Database(T2, rest)
       /\ bad => e = Failed
  <2> HIDE DEF d2, d3, t1, t2, keep, add, rest, e
  <2>1. T1[c] = t1 /\ DOMAIN T1 = DOMAIN d.tables /\ \A t : [T1 EXCEPT ![c] = t] = [d.tables EXCEPT ![c] = t]
    BY <1>2
  <2>2. t1.cols = keep BY <1>8
  <2>3. ASSUME ~bad
        PROVE  AddColumn(Database(T1, rest), c, add) = Database([T1 EXCEPT ![c] = WithColumns(T1[c], add)], rest)
    <3>1. ~BadColumns(T1[c].cols \o add) BY <2>1, <2>2, <2>3
    <3>2. c \in DOMAIN T1 BY <1>2
    <3> HIDE DEF T1
    <3> QED BY <3>1, <3>2, AddColumnDone
  <2>4. [id \in DOMAIN t1.rows |-> Set(t1.rows[id], Live(add), Null)] = Carried(d, new)
    BY <1>5, <1>8
  <2>5. WithColumns(t1, add) = t2 BY <1>8, <2>4 DEF t2, WithColumns
  <2> HIDE DEF T1
  <2>6. ~bad => d3 = Database(T2, rest)
    <3> HIDE DEF bad
    <3> QED BY <1>10, <2>1, <2>3, <2>5 DEF d3
  <2>7. ASSUME bad PROVE e = Failed
    <3>1. d2 = Database(T1, rest) /\ Database(T1, rest).tables = T1 BY <1>10, DatabaseFacts
    <3>2. BadColumns(d2.tables[c].cols \o add) BY <2>1, <2>2, <2>7, <3>1
    <3>3. d3 = Failed BY <3>2 DEF d3, AddColumn
    <3> QED BY <3>3 DEF e, CreateIndex
  <2> QED BY <2>6, <2>7
<1>12. bad => Clash(d, new) BY <1>4, BadAlike DEF Clash
<1> HIDE DEF c, cols, rows, read, gone, rest, drop, keep, add, addI, more, t1, t2, d1, d2, d3, bad
<1>13. T2[c] = t2 /\ DOMAIN T2 = DOMAIN d.tables /\ \A x \in DOMAIN d.tables : x # c => T2[x] = d.tables[x]
  BY <1>2
<1> HIDE DEF T2
<1> DEFINE d4 == Database(T2, rest)
           again == Again(T2[c].rows, addI)
           free == Free(d4, c, addI)
<1>14. NamesIn(d4) \subseteq NamesIn(d) /\ NamesApart(d4)
  <2>1. d4.tables = T2 /\ d4.indexes = rest BY DatabaseFacts
  <2> HIDE DEF d4
  <2>2. NamesIn(d4) \subseteq NamesIn(d) BY <1>6, <1>13, <2>1 DEF NamesIn
  <2> QED BY <1>2, <2>2 DEF NamesApart
<1>15. free \/ Clash(d, new)
  <2>1. \A x \in DOMAIN T2 : \E s \in TableSchemas : s.name = x BY <1>13 DEF DbInv
  <2>2. \A i \in addI, s \in TableSchemas : IndexName(c, i.name) # s.name
    BY <1>2, <1>3 DEF DeclarationsApart, c
  <2>3. d4.tables = T2 /\ d4.indexes = rest BY DatabaseFacts
  <2> HIDE DEF d4
  <2>4. \A i \in addI : IndexName(c, i.name) \notin NamesIn(d4)
    BY <1>3, <2>1, <2>2, <2>3 DEF NamesIn
  <2>5. c = new.name BY DEF c
  <2> QED BY <1>2, <1>3, <1>14, <2>4, <2>5, FreeOrClash
<1>16. ~bad => /\ again \/ ~free => e = Failed
               /\ ~again /\ free => e = Database(T2, rest \cup more)
  <2>1. c \in DOMAIN T2 BY <1>2, <1>13
  <2>2. /\ again \/ ~free => CreateIndex(d4, c, addI) = Failed
        /\ ~again /\ free => CreateIndex(d4, c, addI) = Database(T2, rest \cup more)
    BY <2>1, CreateIndexDone DEF more
  <2> HIDE DEF again, free, d4
  <2> QED BY <1>11, <2>2 DEF d4
<1> HIDE DEF e, free
<1>17. CASE bad \/ ~free
  <2>1. e = Failed BY <1>11, <1>16, <1>17
  <2> QED BY <1>1, <1>12, <1>15, <1>17, <2>1
<1>18. CASE ~bad /\ again
  <2>1. PICK i \in addI : i.unique /\ Duplicates(Carried(d, new), i.props) BY <1>8, <1>13, <1>18 DEF Again
  <2>2. DuplicatesIn(d, new) BY <1>3, <1>5, <2>1 DEF DuplicatesIn, c, cols, rows
  <2> QED BY <1>1, <1>16, <1>18, <2>2
<1>19. CASE ~bad /\ free /\ ~again
  <2>1. e.tables = T2 /\ e.indexes = rest \cup more /\ e # Failed /\ e = Database(e.tables, e.indexes)
    BY <1>16, <1>19, DatabaseFacts
  <2>2. \A i \in more : i.table = c BY <1>7 DEF IndexOn
  <2>3. On(e, c) = {IndexOn(c, i) : i \in new.indexes}
    BY <1>3, <2>1, <2>2 DEF On
  <2>4. Alters(d, e, c)
    <3>1. DOMAIN e.tables = DOMAIN d.tables \cup {c} BY <1>2, <1>13, <2>1
    <3>2. \A i \in e.indexes : i.table \in DOMAIN e.tables BY <1>2, <1>6, <1>13, <2>1, <2>2
    <3>3. \A x : x # c => On(e, x) = On(d, x) BY <1>3, <1>6, <2>1, <2>2 DEF On
    <3> QED BY <1>13, <2>1, <3>1, <3>2, <3>3 DEF Alters
  <2>5. ASSUME NEW i \in new.indexes, i.unique PROVE ~Duplicates(Carried(d, new), i.props)
    <3>1. IndexOn(c, i) \in {x \in rest : x.table = c} \cup more BY <1>3
    <3>2. CASE IndexOn(c, i) \in more
      <4>1. PICK j \in addI : IndexOn(c, i) = IndexOn(c, j) BY <1>7, <3>2
      <4>2. i.props = j.props /\ i.unique = j.unique BY <4>1 DEF IndexOn
      <4> QED BY <1>8, <1>13, <1>19, <2>5, <4>2 DEF Again
    <3>3. CASE IndexOn(c, i) \in {x \in rest : x.table = c}
      <4>1. IndexOn(c, i) \in On(d, old.name) BY <1>2, <1>6, <3>3 DEF On
      <4>2. PICK x \in old.indexes : IndexOn(c, i) = IndexOn(old.name, x)
        BY <1>2, <4>1 DEF Made, MadeTable
      <4>3. i.props = x.props /\ i.unique = x.unique BY <4>2 DEF IndexOn
      <4>4. ~Duplicates(rows, x.props)
        BY <1>2, <2>5, <4>3 DEF Made, MadeTable, rows
      <4> QED BY <1>5, <4>3, <4>4
    <3> QED BY <3>1, <3>2, <3>3
  <2>6. Made(e, new)
    BY <1>4, <1>5, <1>8, <1>13, <2>1, <2>3, <2>5 DEF Made, MadeTable, c
  <2>7. e.tables[c].rows = Carried(d, new) BY <1>8, <1>13, <2>1
  <2>8. NamesApart(e)
    <3>1. d4.tables = T2 /\ d4.indexes = rest BY DatabaseFacts
    <3>2. {i.name : i \in more} = {IndexName(c, i.name) : i \in addI}
      BY NamesOn DEF more
    <3> HIDE DEF d4
    <3>3. NamesIn(e) = NamesIn(d4) \cup {IndexName(c, i.name) : i \in addI}
      BY <2>1, <3>1, <3>2 DEF NamesIn
    <3> QED BY <1>14, <1>19, <3>3, StillApart DEF free
  <2> QED BY <1>1, <2>1, <2>4, <2>6, <2>7, <2>8 DEF c
<1> QED BY <1>17, <1>18, <1>19

LEMMA NoRows ==
  /\ \A ps : <<>> \in Rows(ps)
  /\ \A props : ~Duplicates(<<>>, props)
<1>1. DOMAIN <<>> = {} OBVIOUS
<1>2. \A ps : <<>> \in [{} -> [ps -> Cell]] OBVIOUS
<1>3. {} \in SUBSET Id OBVIOUS
<1> QED BY <1>1, <1>2, <1>3 DEF Rows, Duplicates

\* A table that is not there yet is created, without rows; nothing can fail
\* but for its names (create_table).
LEMMA Created ==
  ASSUME DeclarationsApart, NEW d, NEW new \in TableSchemas, DbInv(d), new.name \notin DOMAIN d.tables
  PROVE  LET e == NewTable(d, new)
         IN \/ e = Failed /\ Clash(d, new)
            \/ /\ e # Failed /\ Alters(d, e, new.name) /\ Made(e, new) /\ NamesApart(e)
               /\ e.tables[new.name].rows = <<>>
<1> DEFINE c == new.name
           t == [cols |-> new.props, rows |-> <<>>]
           T == Set(d.tables, {c}, t)
           d1 == CreateTable(d, new)
           d2 == Database(T, d.indexes)
           e == CreateIndex(d1, c, new.indexes)
           more == IndexesOn(c, new.indexes)
           bad == Fold(c) \in Taken(d) \/ BadColumns(new.props)
           free == Free(d2, c, new.indexes)
<1>1. NewTable(d, new) = e BY DEF NewTable
<1>2. /\ d = Database(d.tables, d.indexes) /\ \A i \in d.indexes : i.table \in DOMAIN d.tables
      /\ \A x \in DOMAIN d.tables : \E s \in TableSchemas : s.name = x
      /\ NamesApart(d)
  BY DEF DbInv, Database
<1>3. /\ new.props \in Seq(Column) /\ OneColumnEach(new.props)
  BY SchemaFacts DEF Verified
<1>4. ASSUME NEW i \in d.indexes PROVE i.name # c /\ \A x \in new.indexes : i.name # IndexName(c, x.name)
  <2>1. PICK s \in TableSchemas : \E y \in s.indexes : i.table = s.name /\ i = IndexOn(s.name, y)
    BY IndexForm
  <2>2. PICK y \in s.indexes : i.table = s.name /\ i = IndexOn(s.name, y) BY <2>1
  <2>3. i.name = IndexName(s.name, y.name) BY <2>2 DEF IndexOn
  <2>4. s.name # c BY <1>2, <2>2
  <2> QED BY <2>3, <2>4, OneName DEF DeclarationsApart
<1>5. c \notin NamesIn(d) BY <1>4 DEF NamesIn
<1>6. ASSUME bad PROVE e = Failed /\ Clash(d, new)
  <2>1. d1 = Failed BY <1>6 DEF CreateTable
  <2>2. e = Failed BY <2>1 DEF CreateIndex
  <2>3. c \in NamesOf(new) BY DEF NamesOf
  <2>4. BadColumns(new.props) => Clash(d, new) BY DEF Clash
  <2>5. Fold(c) \in Refused => Clash(d, new) BY <2>3 DEF Clash
  <2>6. ASSUME NEW y \in NamesIn(d), Fold(c) = Fold(y) PROVE Clash(d, new)
    <3> HIDE DEF c
    <3> QED BY <1>5, <2>3, <2>6 DEF Clash
  <2> QED BY <1>6, <2>2, <2>4, <2>5, <2>6 DEF Taken
<1>7. ~bad => d1 = d2
  <2>1. ~bad => d1 = [d EXCEPT !.tables = T] BY DEF CreateTable
  <2> HIDE DEF T, d1, bad
  <2> QED BY <1>2, <2>1, DatabaseFacts
<1>8. DOMAIN T = DOMAIN d.tables \cup {c} /\ T[c] = t /\ \A x \in DOMAIN d.tables : T[x] = d.tables[x]
  BY DEF Set
<1>9. t.cols = new.props /\ t.rows = <<>> /\ t = [cols |-> t.cols, rows |-> t.rows] OBVIOUS
<1>10. d2.tables = T /\ d2.indexes = d.indexes BY DatabaseFacts
<1>11. ~bad => Fold(c) \notin Taken(d) OBVIOUS
<1> HIDE DEF c, t, T, d1, d2, bad
<1>12. NamesIn(d2) = NamesIn(d) \cup {c} BY <1>8, <1>10 DEF NamesIn
<1>13. ~bad => NamesApart(d2) BY <1>2, <1>11, <1>12 DEF NamesApart, Taken
<1>14. free \/ Clash(d, new)
  <2>1. \A s \in TableSchemas, i \in new.indexes : IndexName(c, i.name) # s.name
    BY DEF DeclarationsApart, c
  <2>2. c = new.name BY DEF c
  <2>3. \A i \in new.indexes : IndexName(c, i.name) \notin NamesIn(d2)
    BY <1>2, <1>4, <1>12, <2>1, <2>2 DEF NamesIn
  <2> QED BY <1>12, <2>2, <2>3, FreeOrClash
<1>15. ~Again(T[c].rows, new.indexes) BY <1>8, <1>9, NoRows DEF Again
<1>16. ~bad => /\ ~free => e = Failed
               /\ free => e = Database(T, d.indexes \cup more)
  <2>1. c \in DOMAIN T BY <1>8
  <2>2. /\ ~free => CreateIndex(d2, c, new.indexes) = Failed
        /\ free => CreateIndex(d2, c, new.indexes) = Database(T, d.indexes \cup more)
    BY <1>15, <2>1, CreateIndexDone DEF d2
  <2> HIDE DEF free
  <2> QED BY <1>7, <2>2
<1> HIDE DEF e, free
<1>17. CASE bad \/ ~free BY <1>1, <1>6, <1>14, <1>16, <1>17
<1>18. CASE ~bad /\ free
  <2>1. e.tables = T /\ e.indexes = d.indexes \cup more /\ e # Failed /\ e = Database(e.tables, e.indexes)
    BY <1>16, <1>18, DatabaseFacts
  <2>2. \A i \in more : i.table = c BY DEF IndexesOn, IndexOn
  <2>3. {i.name : i \in more} = {IndexName(c, i.name) : i \in new.indexes} BY NamesOn
  <2>4. On(e, c) = more
    <3>1. \A i \in d.indexes : i.table # c BY <1>2 DEF c
    <3> HIDE DEF more
    <3> QED BY <2>1, <2>2, <3>1 DEF On
  <2>5. Alters(d, e, c)
    <3>1. \A i \in e.indexes : i.table \in DOMAIN e.tables BY <1>2, <1>8, <2>1, <2>2
    <3>2. \A x : x # c => On(e, x) = On(d, x) BY <2>1, <2>2 DEF On
    <3> QED BY <1>8, <2>1, <3>1, <3>2 DEF Alters
  <2>6. Made(e, new)
    <3>1. On(e, c) = {IndexOn(c, i) : i \in new.indexes} BY <2>4 DEF IndexesOn
    <3> QED BY <1>3, <1>8, <1>9, <2>1, <3>1, NoRows DEF Made, MadeTable, c
  <2>7. NamesApart(e)
    <3> HIDE DEF more
    <3>1. NamesIn(e) = NamesIn(d2) \cup {IndexName(c, i.name) : i \in new.indexes}
      BY <1>10, <2>1, <2>3 DEF NamesIn
    <3> QED BY <1>13, <1>18, <3>1, StillApart DEF free
  <2> QED BY <1>1, <1>8, <1>9, <2>1, <2>5, <2>6, <2>7 DEF c
<1> QED BY <1>17, <1>18

\* A database in which one table was made anew is one.
LEMMA Altered ==
  ASSUME NEW d, NEW e, NEW s \in TableSchemas, DbInv(d), Alters(d, e, s.name), Made(e, s), NamesApart(e)
  PROVE  /\ DbInv(e)
         /\ \A t \in TableSchemas :
              t.name \in DOMAIN d.tables /\ t.name # s.name /\ Made(d, t) => Made(e, t)
<1>1. \A t \in TableSchemas :
        t.name \in DOMAIN d.tables /\ t.name # s.name /\ Made(d, t) => Made(e, t)
  BY DEF Alters, Made
<1>2. ASSUME NEW c \in DOMAIN e.tables PROVE \E t \in TableSchemas : t.name = c /\ Made(e, t)
  BY <1>1 DEF DbInv, Alters
<1>3. /\ e = [tables |-> e.tables, indexes |-> e.indexes]
      /\ \A i \in e.indexes : i.table \in DOMAIN e.tables
  BY DEF Alters, Database
<1> QED BY <1>1, <1>2, <1>3 DEF DbInv

-----------------------------------------------------------------------------
(* The migration, from schema to schema.                                   *)

LEMMA WantFacts ==
  ASSUME want \in Schemas
  PROVE  /\ Len(want) \in Nat /\ DOMAIN want = 1..Len(want)
         /\ \A m, n \in DOMAIN want : want[m].name = want[n].name => m = n
         /\ \A n \in DOMAIN want :
              /\ ~want[n].embedded => want[n] \in TableSchemas /\ want[n].name \in Tables(want)
              /\ SchemaOf(want[n].name) = want[n]
         /\ \A c \in Tables(want) :
              \E n \in DOMAIN want : ~want[n].embedded /\ want[n].name = c
<1>1. /\ Len(want) \in Nat /\ DOMAIN want = 1..Len(want)
      /\ \A m, n \in DOMAIN want : want[m].name = want[n].name => m = n
  BY SQLiteStoreAssumption
<1>2. ASSUME NEW n \in DOMAIN want, ~want[n].embedded
      PROVE  want[n] \in TableSchemas /\ want[n].name \in Tables(want)
  BY <1>2 DEF TableSchemas, Tables, Range
<1>3. ASSUME NEW n \in DOMAIN want PROVE SchemaOf(want[n].name) = want[n]
  <2> DEFINE k == CHOOSE m \in DOMAIN want : want[m].name = want[n].name
  <2>1. k \in DOMAIN want /\ want[k].name = want[n].name OBVIOUS
  <2>2. SchemaOf(want[n].name) = want[k] BY DEF SchemaOf
  <2> HIDE DEF k
  <2> QED BY <1>1, <2>1, <2>2
<1>4. \A c \in Tables(want) : \E n \in DOMAIN want : ~want[n].embedded /\ want[n].name = c
  BY DEF Tables
<1> QED BY <1>1, <1>2, <1>3, <1>4

\* What depends on one table only.
LEMMA OfOneTable ==
  ASSUME NEW d, NEW e, NEW s, d.tables[s.name] = e.tables[s.name], On(d, s.name) = On(e, s.name)
  PROVE  /\ Made(d, s) <=> Made(e, s)
         /\ DuplicatesIn(d, s) <=> DuplicatesIn(e, s)
         /\ Carried(d, s) = Carried(e, s)
<1>1. Made(d, s) <=> Made(e, s) BY DEF Made
<1>2. DuplicatesIn(d, s) <=> DuplicatesIn(e, s) BY DEF DuplicatesIn
<1>3. ReadColSchema(d, s.name) = ReadColSchema(e, s.name) BY DEF ReadColSchema, On
<1>4. Stays(d, s) = Stays(e, s) BY <1>3 DEF Stays
<1>5. Carried(d, s) = Carried(e, s) BY <1>4 DEF Carried
<1> QED BY <1>1, <1>2, <1>5

\* One schema's turn: its table is as the old database left it until then.
LEMMA InTurn ==
  ASSUME DeclarationsApart, DbInv(disk), Migrating, step \in DOMAIN want, ~want[step].embedded
  PROVE  LET s == want[step]
             e == Migrated(work, s)
         IN \/ e = Failed /\ ((s.name \in names /\ DuplicatesIn(disk, s)) \/ Clash(work, s))
            \/ /\ e # Failed /\ DbInv(e) /\ Made(e, s) /\ Alters(work, e, s.name)
               /\ e.tables[s.name].rows = IF s.name \in names THEN Carried(disk, s) ELSE <<>>
<1> DEFINE s == want[step]
           c == s.name
           e == Migrated(work, s)
<1>1. /\ want \in Schemas /\ DbInv(work) /\ names = DOMAIN disk.tables
      /\ DOMAIN work.tables = names \cup {want[m].name : m \in Behind}
      /\ \A x \in names : (\A m \in Behind : want[m].name # x) =>
           work.tables[x] = disk.tables[x] /\ On(work, x) = On(disk, x)
  BY DEF Migrating
<1>2. /\ s \in TableSchemas /\ DOMAIN want = 1..Len(want) /\ Len(want) \in Nat
      /\ \A m, n \in DOMAIN want : want[m].name = want[n].name => m = n
  BY <1>1, WantFacts
<1>3. \A m \in Behind : want[m].name # c
  <2>1. \A m \in Behind : m \in DOMAIN want /\ m # step BY <1>2 DEF Behind
  <2> QED BY <1>2, <2>1
<1> HIDE DEF s, c
<1>4. c = s.name BY DEF c
<1>5. ~s.embedded BY DEF s
<1>6. CASE c \in names
  <2>1. c \in DOMAIN work.tables /\ work.tables[c] = disk.tables[c] /\ On(work, c) = On(disk, c)
    BY <1>1, <1>3, <1>6
  <2>2. PICK old \in TableSchemas : old.name = c /\ Made(work, old) BY <1>1, <2>1 DEF DbInv
  <2>3. Versions(work, old, s) BY <1>2, <1>4, <2>2 DEF Versions
  <2>4. e = UpdateTable(work, s) BY <1>4, <1>5, <1>6 DEF Migrated
  <2>5. \/ e = Failed /\ (DuplicatesIn(work, s) \/ Clash(work, s))
        \/ /\ e # Failed /\ Alters(work, e, c) /\ Made(e, s) /\ NamesApart(e)
           /\ e.tables[c].rows = Carried(work, s)
    <3> HIDE DEF e
    <3> QED BY <1>1, <1>4, <2>1, <2>3, <2>4, Updated
  <2>6. /\ DuplicatesIn(work, s) <=> DuplicatesIn(disk, s)
        /\ Carried(work, s) = Carried(disk, s)
    BY <1>4, <2>1, OfOneTable
  <2>7. e # Failed => DbInv(e) BY <1>1, <1>2, <1>4, <2>5, Altered
  <2> QED BY <1>4, <1>6, <2>5, <2>6, <2>7 DEF s
<1>7. CASE c \notin names
  <2>1. c \notin DOMAIN work.tables BY <1>1, <1>3, <1>7
  <2>2. e = NewTable(work, s) BY <1>4, <1>5, <1>7 DEF Migrated
  <2>3. \/ e = Failed /\ Clash(work, s)
        \/ /\ e # Failed /\ Alters(work, e, c) /\ Made(e, s) /\ NamesApart(e)
           /\ e.tables[c].rows = <<>>
    <3> HIDE DEF e
    <3> QED BY <1>1, <1>2, <1>4, <2>1, <2>2, Created
  <2>4. e # Failed => DbInv(e) BY <1>1, <1>2, <1>4, <2>3, Altered
  <2> QED BY <1>4, <1>7, <2>3, <2>4 DEF s
<1> QED BY <1>6, <1>7

LEMMA StartKeeps ==
  ASSUME StoreInv, OpenStart
  PROVE  Migrating'
<1>1. /\ want' \in Schemas /\ step' = 1 /\ names' = DOMAIN disk.tables /\ disk' = disk
      /\ work' = disk /\ DbInv(disk)
  BY DEF OpenStart, StoreInv
<1>2. Behind' = {} BY <1>1 DEF Behind
<1>3. 1 \in 1..(Len(want') + 1)
  <2>1. Len(want') \in Nat BY <1>1, SQLiteStoreAssumption
  <2> QED BY <2>1
<1> QED BY <1>1, <1>2, <1>3 DEF Migrating

LEMMA MigrateKeeps ==
  ASSUME DeclarationsApart, StoreInv, MigrateTable
  PROVE  Migrating'
<1> DEFINE s == want[step]
<1>1. /\ DbInv(disk) /\ Migrating /\ step \in DOMAIN want
      /\ work' = Migrated(work, s) /\ Migrated(work, s) # Failed
      /\ step' = step + 1 /\ want' = want /\ names' = names /\ disk' = disk
  BY DEF StoreInv, MigrateTable
<1>2. /\ want \in Schemas /\ names = DOMAIN disk.tables /\ DbInv(work)
      /\ DOMAIN work.tables = names \cup {want[m].name : m \in Behind}
      /\ \A m \in Behind :
           /\ Made(work, want[m])
           /\ work.tables[want[m].name].rows =
                IF want[m].name \in names THEN Carried(disk, want[m]) ELSE <<>>
      /\ \A c \in names : (\A m \in Behind : want[m].name # c) =>
           work.tables[c] = disk.tables[c] /\ On(work, c) = On(disk, c)
  BY <1>1 DEF Migrating
<1>3. /\ DOMAIN want = 1..Len(want) /\ Len(want) \in Nat
      /\ \A m, n \in DOMAIN want : want[m].name = want[n].name => m = n
      /\ \A n \in DOMAIN want : ~want[n].embedded => want[n] \in TableSchemas
  BY <1>2, WantFacts
<1>4. step' \in 1..(Len(want) + 1) BY <1>1, <1>3
<1>5. \A m \in Behind : m \in DOMAIN want /\ m # step /\ ~want[m].embedded
  BY <1>1, <1>3 DEF Behind
<1>6. CASE s.embedded
  <2>1. work' = work BY <1>1, <1>6 DEF Migrated
  <2>2. Behind' = Behind BY <1>1, <1>3, <1>6 DEF Behind
  <2> QED BY <1>1, <1>2, <1>4, <2>1, <2>2 DEF Migrating
<1>7. CASE ~s.embedded
  <2> DEFINE c == s.name
  <2>1. /\ DbInv(work') /\ Made(work', s) /\ Alters(work, work', c)
        /\ work'.tables[c].rows = IF c \in names THEN Carried(disk, s) ELSE <<>>
    BY <1>1, <1>7, InTurn
  <2>2. Behind' = Behind \cup {step} BY <1>1, <1>3, <1>7 DEF Behind
  <2>3. s \in TableSchemas BY <1>1, <1>3, <1>7
  <2>4. \A m \in Behind : want[m].name # c BY <1>1, <1>3, <1>5
  <2>5. /\ DOMAIN work'.tables = DOMAIN work.tables \cup {c}
        /\ \A x \in DOMAIN work.tables : x # c =>
             work'.tables[x] = work.tables[x] /\ On(work', x) = On(work, x)
    BY <2>1 DEF Alters
  <2>6. DOMAIN work'.tables = names \cup {want[m].name : m \in Behind \cup {step}}
    BY <1>2, <2>5
  <2>7. ASSUME NEW m \in Behind \cup {step}
        PROVE  /\ Made(work', want[m])
               /\ work'.tables[want[m].name].rows =
                    IF want[m].name \in names THEN Carried(disk, want[m]) ELSE <<>>
    <3>1. CASE m = step BY <2>1, <3>1
    <3>2. CASE m \in Behind
      <4>1. want[m].name \in DOMAIN work.tables /\ want[m].name # c /\ want[m] \in TableSchemas
        BY <1>2, <1>3, <1>5, <2>4, <3>2
      <4>2. Made(work', want[m]) BY <1>2, <2>1, <2>3, <3>2, <4>1, Altered DEF DbInv
      <4>3. work'.tables[want[m].name] = work.tables[want[m].name] BY <2>5, <4>1
      <4> QED BY <1>2, <3>2, <4>2, <4>3
    <3> QED BY <3>1, <3>2
  <2>8. ASSUME NEW x \in names, \A m \in Behind \cup {step} : want[m].name # x
        PROVE  work'.tables[x] = disk.tables[x] /\ On(work', x) = On(disk, x)
    <3>1. x # c /\ x \in DOMAIN work.tables BY <1>2, <2>8
    <3> QED BY <1>2, <2>5, <2>8, <3>1
  <2> HIDE DEF s
  <2> QED BY <1>1, <1>2, <1>4, <2>1, <2>2, <2>6, <2>7, <2>8 DEF Migrating
<1> QED BY <1>6, <1>7

\* Half way through, every name is one that the file has or the schemas ask for.
LEMMA NamesOnTheWay ==
  ASSUME DbInv(disk), Migrating
  PROVE  NamesIn(work) \subseteq NamesIn(disk) \cup UNION {NamesOf(SchemaOf(c)) : c \in Tables(want)}
<1> DEFINE asked == UNION {NamesOf(SchemaOf(c)) : c \in Tables(want)}
<1>1. /\ want \in Schemas /\ DbInv(work) /\ names = DOMAIN disk.tables
      /\ DOMAIN work.tables = names \cup {want[m].name : m \in Behind}
      /\ \A m \in Behind : Made(work, want[m])
      /\ \A c \in names : (\A m \in Behind : want[m].name # c) => On(work, c) = On(disk, c)
  BY DEF Migrating
<1>2. ASSUME NEW m \in Behind PROVE NamesOf(want[m]) \subseteq asked
  <2>1. m \in DOMAIN want /\ ~want[m].embedded
    <3>1. DOMAIN want = 1..Len(want) /\ Len(want) \in Nat BY <1>1, WantFacts
    <3>2. step \in 1..(Len(want) + 1) BY DEF Migrating
    <3> QED BY <3>1, <3>2 DEF Behind
  <2>2. want[m].name \in Tables(want) /\ SchemaOf(want[m].name) = want[m] BY <1>1, <2>1, WantFacts
  <2> QED BY <2>2
<1> HIDE DEF asked
<1>3. ASSUME NEW c \in DOMAIN work.tables PROVE c \in NamesIn(disk) \cup asked
  <2>1. CASE c \in names BY <1>1, <2>1 DEF NamesIn
  <2>2. ASSUME NEW m \in Behind, want[m].name = c PROVE c \in asked
    BY <1>2, <2>2 DEF NamesOf
  <2> QED BY <1>1, <2>1, <2>2
<1>4. ASSUME NEW i \in work.indexes PROVE i.name \in NamesIn(disk) \cup asked
  <2>1. i.table \in DOMAIN work.tables /\ i \in On(work, i.table) BY <1>1 DEF DbInv, On
  <2>2. ASSUME NEW m \in Behind, want[m].name = i.table PROVE i.name \in asked
    <3>1. On(work, want[m].name) = {IndexOn(want[m].name, x) : x \in want[m].indexes}
      BY <1>1 DEF Made, MadeTable
    <3>2. PICK x \in want[m].indexes : i = IndexOn(want[m].name, x) BY <2>1, <2>2, <3>1
    <3>3. i.name = IndexName(want[m].name, x.name) BY <3>2 DEF IndexOn
    <3> QED BY <1>2, <3>3 DEF NamesOf
  <2>3. CASE \A m \in Behind : want[m].name # i.table
    <3>1. i.table \in names BY <1>1, <2>1, <2>3
    <3>2. i \in On(disk, i.table) BY <1>1, <2>1, <2>3, <3>1
    <3> QED BY <3>2 DEF On, NamesIn
  <2> QED BY <2>2, <2>3
<1>5. NamesIn(work) \subseteq NamesIn(disk) \cup asked BY <1>3, <1>4 DEF NamesIn
<1> QED BY <1>5 DEF asked

LEMMA FailsOnDuplicates ==
  ASSUME DeclarationsApart, StoreInv, OpenFails
  PROVE  OnlyDuplicatesFail'
<1> DEFINE s == want[step]
           c == s.name
           Why(x) == \E i \in SchemaOf(x).indexes :
                       LET old == [props |-> disk.tables[x].cols]
                       IN /\ i.unique
                          /\ Range(i.props) \subseteq Live(old.props) \ DropProperties(SchemaOf(x), old)
                          /\ Duplicates(disk.tables[x].rows, i.props)
<1>1. /\ DbInv(disk) /\ Migrating /\ step \in DOMAIN want /\ Migrated(work, s) = Failed
      /\ want' = want /\ disk' = disk
  BY DEF StoreInv, OpenFails
<1>2. want \in Schemas /\ names = DOMAIN disk.tables /\ DbInv(work) BY <1>1 DEF Migrating
<1>3. ~s.embedded
  <2>1. \A d : DbInv(d) => d # Failed
    <3>1. \A d : DbInv(d) => d = Database(d.tables, d.indexes) BY DEF DbInv, Database
    <3>2. \A t, i : Database(t, i) # Failed BY DatabaseFacts
    <3> QED BY <3>1, <3>2
  <2> QED BY <1>1, <1>2, <2>1 DEF Migrated
<1>4. (c \in names /\ DuplicatesIn(disk, s)) \/ Clash(work, s) BY <1>1, <1>3, InTurn
<1>5. c \in Tables(want) /\ SchemaOf(c) = s BY <1>1, <1>2, <1>3, WantFacts
<1>6. ASSUME Clash(work, s) PROVE Unnameable
  <2> DEFINE asked == UNION {NamesOf(SchemaOf(x)) : x \in Tables(want)}
  <2>1. NamesOf(s) \subseteq asked BY <1>5
  <2>2. NamesIn(work) \subseteq NamesIn(disk) \cup asked BY <1>1, NamesOnTheWay
  <2> HIDE DEF asked
  <2>3. CASE BadColumns(s.props) BY <1>5, <2>3 DEF Unnameable
  <2>4. CASE \E x \in asked : Fold(x) \in Refused BY <2>4 DEF Unnameable, asked
  <2>5. CASE \E x \in asked, y \in asked \cup NamesIn(disk) : x # y /\ Fold(x) = Fold(y)
    BY <2>5 DEF Unnameable, asked
  <2>6. (\E x \in NamesOf(s) : Fold(x) \in Refused) => \E x \in asked : Fold(x) \in Refused
    BY <2>1
  <2>7. (\E x \in NamesOf(s), y \in NamesOf(s) \cup NamesIn(work) : x # y /\ Fold(x) = Fold(y)) =>
           \E x \in asked, y \in asked \cup NamesIn(disk) : x # y /\ Fold(x) = Fold(y)
    BY <2>1, <2>2
  <2> QED BY <1>6, <2>3, <2>4, <2>5, <2>6, <2>7 DEF Clash
<1>7. ASSUME c \in names, DuplicatesIn(disk, s) PROVE \E x \in Tables(want) \cap DOMAIN disk.tables : Why(x)
  <2>1. c \in Tables(want) \cap DOMAIN disk.tables BY <1>2, <1>5, <1>7
  <2>2. PICK i \in s.indexes :
          /\ i.unique
          /\ Range(i.props) \subseteq
               Live(disk.tables[c].cols) \ DropProperties(s, [props |-> disk.tables[c].cols])
          /\ Duplicates(disk.tables[c].rows, i.props)
    BY <1>7 DEF DuplicatesIn
  <2>3. Why(c) BY <1>5, <2>2
  <2> HIDE DEF Why
  <2> QED BY <2>1, <2>3
<1>8. Unnameable \/ \E x \in Tables(want) \cap DOMAIN disk.tables : Why(x)
  <2> HIDE DEF Why
  <2> QED BY <1>4, <1>6, <1>7
<1>9. OnlyDuplicatesFail' <=> (phase = "failed" => Unnameable \/ \E x \in Tables(want) \cap DOMAIN disk.tables : Why(x))'
  BY DEF OnlyDuplicatesFail
<1>10. /\ Unnameable' <=> Unnameable
       /\ (\E x \in Tables(want) \cap DOMAIN disk.tables : Why(x))' <=>
             \E x \in Tables(want) \cap DOMAIN disk.tables : Why(x)
  BY <1>1 DEF Unnameable, SchemaOf, Tables, NamesIn
<1> HIDE DEF Why
<1> QED BY <1>8, <1>9, <1>10

\* What the application expects of its objects is what is carried over, as far
\* as types can be read back.
LEMMA CarriedAsMeant ==
  ASSUME DeclarationsApart, NEW s \in TableSchemas, SchemaOf(s.name) = s,
         DbInv(disk), Agrees(disk, kept), s.name \in DOMAIN disk.tables,
         NEW cols, Live(cols) = Live(s.props), Exact(cols) = Exact(s.props)
  PROVE  SameRows(Carried(disk, s), MeantAfter(s.name), cols)
<1> DEFINE c == s.name
           t == disk.tables[c]
           was == [props |-> t.cols]
           expected == Live(t.cols) \ DropProperties(s, was)
           stays == Stays(disk, s)
           all == Live(s.props)
           meantThen == MeantAfter(c)
           rows == Carried(disk, s)
<1>1. PICK old \in TableSchemas : old.name = c /\ Made(disk, old) BY DEF DbInv
<1>2. Versions(disk, old, s) BY <1>1 DEF Versions
<1>3. /\ \A p \in stays : TypeIn(t.cols, p) = TypeIn(s.props, p)
      /\ \A p \in Exact(s.props) : p \in stays <=> p \in expected
  BY <1>2, NewColumns
<1>4. /\ kept[c] \in Rows(Live(t.cols)) /\ DOMAIN kept[c] = DOMAIN t.rows
      /\ \A id \in DOMAIN t.rows : \A p \in Exact(t.cols) : t.rows[id][p] = kept[c][id][p]
  BY DEF Agrees, SameRows
<1>5. DOMAIN kept[c] \subseteq Id /\ \A id \in DOMAIN kept[c] : kept[c][id] \in [Live(t.cols) -> Cell]
  BY <1>4, RowFacts
<1>6. meantThen = [id \in DOMAIN kept[c] |-> [p \in all |->
                     IF p \in expected THEN kept[c][id][p] ELSE Null]]
  BY DEF MeantAfter
<1>7. rows = [id \in DOMAIN t.rows |-> [p \in all |-> IF p \in stays THEN t.rows[id][p] ELSE Null]]
  BY DEF Carried
<1>8. \A p \in stays : p \in Live(t.cols) BY DEF Stays
<1>9. \A p \in expected : p \in Live(t.cols) OBVIOUS
<1> HIDE DEF t, was, expected, stays, all, meantThen, rows
<1>10. meantThen \in Rows(all)
  <2>1. \A id \in DOMAIN kept[c] : \A p \in all :
          (IF p \in expected THEN kept[c][id][p] ELSE Null) \in Cell
    BY <1>5, <1>9 DEF Cell
  <2>2. \A id \in DOMAIN kept[c] :
          [p \in all |-> IF p \in expected THEN kept[c][id][p] ELSE Null] \in [all -> Cell]
    BY <2>1
  <2>3. meantThen \in [DOMAIN kept[c] -> [all -> Cell]] BY <1>6, <2>2
  <2> QED BY <1>5, <2>3 DEF Rows
<1>11. DOMAIN meantThen = DOMAIN rows BY <1>4, <1>6, <1>7
<1>12. ASSUME NEW id \in DOMAIN rows, NEW p \in Exact(s.props) PROVE rows[id][p] = meantThen[id][p]
  <2>1. p \in all BY DEF Exact, all
  <2>2. id \in DOMAIN t.rows /\ id \in DOMAIN kept[c] BY <1>4, <1>7
  <2>3. /\ rows[id][p] = IF p \in stays THEN t.rows[id][p] ELSE Null
        /\ meantThen[id][p] = IF p \in expected THEN kept[c][id][p] ELSE Null
    BY <1>6, <1>7, <2>1, <2>2
  <2>4. CASE p \in stays
    <3>1. p \in Exact(t.cols) BY <1>3, <1>8, <2>4 DEF Exact
    <3> QED BY <1>3, <1>4, <2>2, <2>3, <2>4, <3>1
  <2>5. CASE p \notin stays BY <1>3, <2>3, <2>5
  <2> QED BY <2>4, <2>5
<1> QED BY <1>10, <1>11, <1>12 DEF SameRows, all, meantThen, rows

LEMMA DroppedTables ==
  ASSUME NEW d, NEW gone, DbInv(d)
  PROVE  LET e == DropTables(d, gone)
         IN /\ DbInv(e) /\ DOMAIN e.tables = DOMAIN d.tables \ gone
            /\ \A c \in DOMAIN e.tables : e.tables[c] = d.tables[c]
            /\ \A s \in TableSchemas : s.name \notin gone /\ s.name \in DOMAIN d.tables /\ Made(d, s) =>
                 Made(e, s)
<1> DEFINE e == DropTables(d, gone)
<1>1. /\ e = [tables |-> e.tables, indexes |-> e.indexes]
      /\ e.tables = [x \in DOMAIN d.tables \ gone |-> d.tables[x]]
      /\ e.indexes = {i \in d.indexes : i.table \notin gone}
  BY DEF DropTables, Without
<1> HIDE DEF e
<1>2. \A c : c \notin gone => On(e, c) = On(d, c) BY <1>1 DEF On
<1>3. \A s \in TableSchemas : s.name \notin gone /\ s.name \in DOMAIN d.tables /\ Made(d, s) => Made(e, s)
  BY <1>1, <1>2 DEF Made
<1>4. \A i \in e.indexes : i.table \in DOMAIN e.tables BY <1>1 DEF DbInv
<1>5. \A c \in DOMAIN e.tables : \E s \in TableSchemas : s.name = c /\ Made(e, s)
  BY <1>1, <1>3 DEF DbInv
<1>6. NamesApart(e) BY <1>1 DEF NamesApart, NamesIn, DbInv
<1> QED BY <1>1, <1>3, <1>4, <1>5, <1>6 DEF DbInv, e

LEMMA DoneKeeps ==
  ASSUME DeclarationsApart, StoreInv, OpenDone
  PROVE  want' \in Schemas /\ Wanted(disk)' /\ DbInv(disk') /\ Agrees(disk', kept')
<1> DEFINE gone == names \ Tables(want)
<1>1. /\ DbInv(disk) /\ Agrees(disk, kept) /\ Migrating /\ step = Len(want) + 1
      /\ disk' = DropTables(work, gone) /\ kept' = meant'
      /\ meant' = [c \in Tables(want) |-> IF c \in names THEN MeantAfter(c) ELSE <<>>]
      /\ want' = want
  BY DEF StoreInv, OpenDone
<1>2. /\ want \in Schemas /\ names = DOMAIN disk.tables /\ DbInv(work)
      /\ DOMAIN work.tables = names \cup {want[m].name : m \in Behind}
      /\ \A m \in Behind :
           /\ Made(work, want[m])
           /\ work.tables[want[m].name].rows =
                IF want[m].name \in names THEN Carried(disk, want[m]) ELSE <<>>
  BY <1>1 DEF Migrating
<1>3. /\ DOMAIN want = 1..Len(want) /\ Len(want) \in Nat
      /\ \A n \in DOMAIN want :
           /\ ~want[n].embedded => want[n] \in TableSchemas /\ want[n].name \in Tables(want)
           /\ SchemaOf(want[n].name) = want[n]
      /\ \A c \in Tables(want) : \E n \in DOMAIN want : ~want[n].embedded /\ want[n].name = c
  BY <1>2, WantFacts
<1>4. Behind = {m \in DOMAIN want : ~want[m].embedded} BY <1>1, <1>3 DEF Behind
<1>5. DOMAIN work.tables = names \cup Tables(want) BY <1>2, <1>4 DEF Tables
<1>6. /\ DbInv(disk') /\ DOMAIN disk'.tables = DOMAIN work.tables \ gone
      /\ \A c \in DOMAIN disk'.tables : disk'.tables[c] = work.tables[c]
      /\ \A s \in TableSchemas : s.name \notin gone /\ s.name \in DOMAIN work.tables /\ Made(work, s) =>
           Made(disk', s)
  BY <1>1, <1>2, DroppedTables
<1>7. DOMAIN disk'.tables = Tables(want) BY <1>5, <1>6
<1>8. ASSUME NEW n \in DOMAIN want, ~want[n].embedded PROVE Made(disk', want[n])
  BY <1>2, <1>3, <1>4, <1>5, <1>6, <1>8
<1>9. Tables(want)' = Tables(want) BY <1>1 DEF Tables
<1>10. Wanted(disk)' BY <1>1, <1>7, <1>8, <1>9 DEF Wanted
<1>11. ASSUME NEW c \in Tables(want) PROVE SameRows(disk'.tables[c].rows, kept'[c], disk'.tables[c].cols)
  <2>1. PICK n \in DOMAIN want : ~want[n].embedded /\ want[n].name = c BY <1>3
  <2> DEFINE s == want[n]
             cols == disk'.tables[c].cols
  <2>2. s \in TableSchemas /\ SchemaOf(c) = s /\ n \in Behind /\ s.name = c BY <1>3, <1>4, <2>1
  <2>3. Made(disk', s) BY <1>8, <2>1
  <2>4. Live(cols) = Live(s.props) /\ Exact(cols) = Exact(s.props) BY <2>2, <2>3, MadeFacts
  <2>5. disk'.tables[c].rows = IF c \in names THEN Carried(disk, s) ELSE <<>>
    BY <1>2, <1>6, <1>7, <2>2
  <2>6. kept'[c] = IF c \in names THEN MeantAfter(c) ELSE <<>> BY <1>1
  <2>7. CASE c \in names
    <3> HIDE DEF s, cols
    <3>1. SameRows(Carried(disk, s), MeantAfter(c), cols)
      BY <1>1, <1>2, <2>2, <2>4, <2>7, CarriedAsMeant
    <3> QED BY <2>5, <2>6, <2>7, <3>1 DEF cols
  <2>8. CASE c \notin names
    <3>1. DOMAIN <<>> = {} OBVIOUS
    <3> QED BY <2>5, <2>6, <2>8, <3>1, NoRows DEF SameRows
  <2> QED BY <2>7, <2>8
<1>12. Agrees(disk', kept') BY <1>1, <1>7, <1>11 DEF Agrees
<1> QED BY <1>1, <1>2, <1>6, <1>10, <1>12

-----------------------------------------------------------------------------
(* Objects that are inserted.                                              *)

Given(ps) == Id \X [ps -> Cell]

\* The rows after so many objects.
Inserting(f, rows, c, objects) ==
  f[0] = rows /\ \A n \in 1..Len(objects) : f[n] = Replace(f[n - 1], c, objects[n])

LEMMA ReplaceIsRows ==
  ASSUME NEW ps, NEW rows \in Rows(ps), NEW c, NEW o \in Given(ps)
  PROVE  Replace(rows, c, o) \in Rows(ps)
<1> DEFINE gone == {x \in DOMAIN rows : \E i \in work.indexes :
                      i.table = c /\ i.unique /\ SameKey(o[2], rows[x], i.props)}
           left == Without(rows, gone)
           made == Set(left, {o[1]}, o[2])
<1>1. Replace(rows, c, o) = made BY DEF Replace
<1>2. DOMAIN rows \subseteq Id /\ \A id \in DOMAIN rows : rows[id] \in [ps -> Cell] BY RowFacts
<1>3. o[1] \in Id /\ o[2] \in [ps -> Cell] BY DEF Given
<1> HIDE DEF gone
<1>4. DOMAIN left \subseteq Id /\ \A id \in DOMAIN left : left[id] \in [ps -> Cell]
  BY <1>2 DEF Without
<1> HIDE DEF left
<1>5. made \in [DOMAIN left \cup {o[1]} -> [ps -> Cell]] BY <1>3, <1>4 DEF Set
<1>6. DOMAIN left \cup {o[1]} \in SUBSET Id BY <1>3, <1>4
<1> HIDE DEF made
<1>7. made \in Rows(ps) BY <1>5, <1>6 DEF Rows
<1> QED BY <1>1, <1>7

LEMMA InsertSteps ==
  ASSUME NEW ps, NEW rows \in Rows(ps), NEW c, NEW objects \in Seq(Given(ps))
  PROVE  \E f \in [0..Len(objects) -> Rows(ps)] :
           Inserting(f, rows, c, objects) /\ InsertRows(rows, c, objects) = f[Len(objects)]
<1> DEFINE L == Len(objects)
           V == Rows(ps)
           Def(f) == [n \in 0..L |-> IF n = 0 THEN rows ELSE Replace(f[n - 1], c, objects[n])]
           after == CHOOSE f : f = Def(f)
           G == [x \in V \X (1..L) |-> Replace(x[1], c, objects[x[2]])]
<1>1. L \in Nat /\ \A n \in 1..L : objects[n] \in Given(ps) BY LenProperties, ElementOfSeq
<1>2. InsertRows(rows, c, objects) = after[L] BY DEF InsertRows
<1> HIDE DEF L
<1>3. G \in [V \X (1..L) -> V]
  <2> HIDE DEF V
  <2>1. ASSUME NEW x \in V \X (1..L) PROVE Replace(x[1], c, objects[x[2]]) \in V
    BY <1>1, ReplaceIsRows DEF V
  <2> QED BY <2>1
<1>4. PICK f \in [0..L -> V] : Steps(f, rows, G, L)
  <2> HIDE DEF G
  <2> QED BY <1>1, <1>3, Recursion
<1>5. \A n \in 1..L : f[n] = Replace(f[n - 1], c, objects[n])
  <2>1. ASSUME NEW n \in 1..L PROVE f[n] = Replace(f[n - 1], c, objects[n])
    <3>1. n - 1 \in 0..L BY <1>1
    <3>2. <<f[n - 1], n>> \in V \X (1..L) BY <3>1
    <3>3. f[n] = G[<<f[n - 1], n>>] BY <1>4 DEF Steps
    <3> HIDE DEF V
    <3> QED BY <3>2, <3>3
  <2> QED BY <2>1
<1>6. f[0] = rows BY <1>4 DEF Steps
<1>7. f = Def(f)
  <2>1. \A n \in 0..L : n = 0 \/ n \in 1..L BY <1>1
  <2>2. \A n \in 0..L : f[n] = IF n = 0 THEN rows ELSE Replace(f[n - 1], c, objects[n])
    BY <1>5, <1>6, <2>1
  <2> QED BY <2>2
<1>8. after = Def(after) BY <1>7
<1> HIDE DEF after
<1>9. after[0] = rows BY <1>1, <1>8
<1>10. ASSUME NEW n \in 1..L PROVE after[n] = Replace(after[n - 1], c, objects[n])
  <2>1. n \in 0..L /\ n # 0 BY <1>1
  <2>2. after[n] = Def(after)[n] BY <1>8
  <2> HIDE <1>8
  <2> QED BY <2>1, <2>2
<1> HIDE DEF Def, V
<1> DEFINE T == {n \in 0..L : after[n] = f[n]}
<1>11. 0..L \subseteq T
  <2>1. 0 \in T BY <1>1, <1>6, <1>9
  <2>2. \A n \in 1..L : n - 1 \in T => n \in T BY <1>1, <1>5, <1>10
  <2> HIDE DEF T
  <2> QED BY <1>1, <2>1, <2>2, Upward
<1>12. after[L] = f[L] BY <1>1, <1>11
<1>13. Inserting(f, rows, c, objects) BY <1>5, <1>6 DEF Inserting, L
<1> QED BY <1>2, <1>4, <1>12, <1>13 DEF L, V

\* Rows that are inserted one by one are those that are inserted.
LEMMA InsertedSoFar ==
  ASSUME NEW ps, NEW rows \in Rows(ps), NEW c, NEW objects \in Seq(Given(ps)),
         NEW g, Inserting(g, rows, c, objects)
  PROVE  g[Len(objects)] = InsertRows(rows, c, objects)
<1> DEFINE L == Len(objects)
<1>1. PICK f \in [0..L -> Rows(ps)] :
        Inserting(f, rows, c, objects) /\ InsertRows(rows, c, objects) = f[L]
  <2>1. PICK all : all = InsertRows(rows, c, objects) OBVIOUS
  <2> QED BY <2>1, InsertSteps
<1>2. L \in Nat BY LenProperties
<1> HIDE DEF L
<1> DEFINE T == {n \in 0..L : g[n] = f[n]}
<1>3. 0..L \subseteq T
  <2>1. 0 \in T BY <1>1, <1>2 DEF Inserting
  <2>2. \A n \in 1..L : n - 1 \in T => n \in T
    <3>1. \A n \in 1..L : /\ f[n] = Replace(f[n - 1], c, objects[n])
                          /\ g[n] = Replace(g[n - 1], c, objects[n])
      BY <1>1 DEF Inserting, L
    <3> QED BY <1>2, <3>1
  <2> HIDE DEF T
  <2> QED BY <1>2, <2>1, <2>2, Upward
<1> QED BY <1>1, <1>2, <1>3 DEF L

LEMMA InsertNone ==
  ASSUME NEW ps, NEW rows \in Rows(ps), NEW c
  PROVE  InsertRows(rows, c, <<>>) = rows
<1> DEFINE g == [n \in {0} |-> rows]
<1>1. Len(<<>>) = 0 /\ <<>> \in Seq(Given(ps)) OBVIOUS
<1>2. 1..0 = {} OBVIOUS
<1>3. Inserting(g, rows, c, <<>>) BY <1>1, <1>2 DEF Inserting
<1>4. g[0] = rows OBVIOUS
<1> HIDE DEF g
<1> DEFINE none == <<>>
<1> HIDE DEF none
<1>5. none \in Seq(Given(ps)) /\ Len(none) = 0 /\ Inserting(g, rows, c, none)
  BY <1>1, <1>3 DEF none
<1>6. g[Len(none)] = InsertRows(rows, c, none) BY <1>5, InsertedSoFar
<1> QED BY <1>4, <1>5, <1>6 DEF none

LEMMA InsertOneMore ==
  ASSUME NEW ps, NEW rows \in Rows(ps), NEW c, NEW objects \in Seq(Given(ps)), NEW o \in Given(ps)
  PROVE  /\ InsertRows(rows, c, objects) \in Rows(ps)
         /\ InsertRows(rows, c, Append(objects, o)) = Replace(InsertRows(rows, c, objects), c, o)
<1> DEFINE L == Len(objects)
           more == Append(objects, o)
<1>1. PICK f \in [0..L -> Rows(ps)] :
        Inserting(f, rows, c, objects) /\ InsertRows(rows, c, objects) = f[L]
  <2>1. PICK all : all = InsertRows(rows, c, objects) OBVIOUS
  <2> QED BY <2>1, InsertSteps
<1>2. /\ L \in Nat /\ more \in Seq(Given(ps)) /\ Len(more) = L + 1 /\ more[L + 1] = o
      /\ \A n \in 1..L : more[n] = objects[n]
  BY LenProperties, AppendProperties
<1> DEFINE g == [n \in 0..(L + 1) |-> IF n = L + 1 THEN Replace(f[L], c, o) ELSE f[n]]
<1> HIDE DEF L, more
<1>3. /\ g[0] = f[0] /\ g[L + 1] = Replace(f[L], c, o) /\ g[L] = f[L]
      /\ \A n \in 1..L : g[n] = f[n] /\ g[n - 1] = f[n - 1]
  BY <1>2
<1> HIDE DEF g
<1>4. Inserting(g, rows, c, more)
  <2>1. g[0] = rows BY <1>1, <1>3 DEF Inserting
  <2>2. ASSUME NEW n \in 1..(L + 1) PROVE g[n] = Replace(g[n - 1], c, more[n])
    <3>1. CASE n = L + 1
      <4>1. n - 1 = L BY <1>2, <3>1
      <4> QED BY <1>2, <1>3, <3>1, <4>1
    <3>2. CASE n # L + 1
      <4>1. n \in 1..L BY <1>2, <3>2
      <4>2. f[n] = Replace(f[n - 1], c, objects[n]) BY <1>1, <4>1 DEF Inserting, L
      <4> QED BY <1>2, <1>3, <4>1, <4>2
    <3> QED BY <3>1, <3>2
  <2> QED BY <1>2, <2>1, <2>2 DEF Inserting
<1>5. g[L + 1] = InsertRows(rows, c, more) BY <1>2, <1>4, InsertedSoFar
<1>6. f[L] \in Rows(ps) BY <1>1, <1>2
<1> QED BY <1>1, <1>3, <1>5, <1>6 DEF L, more

\* The unique indexes are on properties that can be read back.
KeysIn(c, cols) ==
  \A i \in work.indexes : i.table = c => \A n \in DOMAIN i.props : i.props[n] \in Exact(cols)

\* An object takes the place of the same objects in the rows and in what the
\* application knows of them, and no two rows get equal keys.
LEMMA ReplaceAgrees ==
  ASSUME NEW cols, NEW rows, NEW known, SameRows(rows, known, cols), rows \in Rows(Live(cols)),
         NEW c, NEW o \in Given(Live(cols)), KeysIn(c, cols), ~Violates(rows, c)
  PROVE  /\ SameRows(Replace(rows, c, o), Replace(known, c, o), cols)
         /\ ~Violates(Replace(rows, c, o), c)
<1> DEFINE Gone(r) == {x \in DOMAIN r : \E i \in work.indexes :
                         i.table = c /\ i.unique /\ SameKey(o[2], r[x], i.props)}
           Put(r) == Set(Without(r, Gone(r)), {o[1]}, o[2])
           gone == Gone(rows)
           new == Put(rows)
<1>1. \A r : Replace(r, c, o) = Put(r) BY DEF Replace
<1>2. /\ known \in Rows(Live(cols)) /\ DOMAIN known = DOMAIN rows
      /\ \A id \in DOMAIN rows : \A p \in Exact(cols) : rows[id][p] = known[id][p]
  BY DEF SameRows
<1>3. Replace(rows, c, o) \in Rows(Live(cols)) /\ Replace(known, c, o) \in Rows(Live(cols))
  BY <1>2, ReplaceIsRows
<1>4. Gone(known) = gone
  <2>1. ASSUME NEW x \in DOMAIN rows, NEW i \in work.indexes, i.table = c
        PROVE  SameKey(o[2], rows[x], i.props) <=> SameKey(o[2], known[x], i.props)
    <3>1. \A n \in DOMAIN i.props : rows[x][i.props[n]] = known[x][i.props[n]]
      BY <1>2, <2>1 DEF KeysIn
    <3> QED BY <3>1 DEF SameKey
  <2> QED BY <1>2, <2>1
<1> DEFINE left == DOMAIN rows \ gone
<1>5. /\ DOMAIN new = left \cup {o[1]} /\ new[o[1]] = o[2]
      /\ \A x \in left : x # o[1] => new[x] = rows[x]
  BY DEF Set, Without
<1>6. /\ DOMAIN Put(known) = left \cup {o[1]} /\ Put(known)[o[1]] = o[2]
      /\ \A x \in left : x # o[1] => Put(known)[x] = known[x]
  <2> HIDE DEF Gone
  <2> QED BY <1>2, <1>4 DEF Set, Without
<1>7. ASSUME NEW x \in left, NEW i \in work.indexes, i.table = c, i.unique
      PROVE  ~SameKey(o[2], rows[x], i.props)
  BY <1>7
<1>8. left \subseteq DOMAIN rows OBVIOUS
<1> HIDE DEF left, new, gone, Put
<1>9. SameRows(new, Put(known), cols)
  <2>1. \A x \in left : \A p \in Exact(cols) : rows[x][p] = known[x][p] BY <1>2, <1>8
  <2>2. \A x \in DOMAIN new : \A p \in Exact(cols) : new[x][p] = Put(known)[x][p]
    BY <1>5, <1>6, <2>1
  <2> QED BY <1>1, <1>3, <1>5, <1>6, <2>2 DEF SameRows
<1>10. ASSUME NEW i \in work.indexes, i.table = c, i.unique, Duplicates(new, i.props) PROVE FALSE
  <2>1. PICK x \in DOMAIN new, y \in DOMAIN new : x # y /\ SameKey(new[x], new[y], i.props)
    BY <1>10 DEF Duplicates
  <2>2. SameKey(new[y], new[x], i.props) BY <2>1 DEF SameKey
  <2>3. CASE x # o[1] /\ y # o[1]
    <3>1. x \in left /\ y \in left /\ new[x] = rows[x] /\ new[y] = rows[y] BY <1>5, <2>3
    <3>2. Duplicates(rows, i.props) BY <1>8, <2>1, <3>1 DEF Duplicates
    <3> QED BY <1>10, <3>2 DEF Violates
  <2>4. CASE x = o[1]
    <3>1. y \in left /\ new[y] = rows[y] /\ new[x] = o[2] BY <1>5, <2>1, <2>4
    <3> QED BY <1>7, <1>10, <2>1, <3>1
  <2>5. CASE y = o[1]
    <3>1. x \in left /\ new[x] = rows[x] /\ new[y] = o[2] BY <1>5, <2>1, <2>5
    <3> QED BY <1>7, <1>10, <2>2, <3>1
  <2> QED BY <2>3, <2>4, <2>5
<1>11. ~Violates(new, c) BY <1>10 DEF Violates
<1>12. Replace(rows, c, o) = new /\ Replace(known, c, o) = Put(known) BY <1>1 DEF new
<1> QED BY <1>9, <1>11, <1>12

LEMMA InsertAgrees ==
  ASSUME NEW cols, NEW rows, NEW known, SameRows(rows, known, cols), rows \in Rows(Live(cols)),
         NEW c, NEW objects \in Seq(Given(Live(cols))), KeysIn(c, cols), ~Violates(rows, c)
  PROVE  LET made == InsertRows(rows, c, objects)
         IN /\ made \in Rows(Live(cols)) /\ ~Violates(made, c)
            /\ SameRows(made, InsertRows(known, c, objects), cols)
<1> DEFINE L == Len(objects)
           V == Rows(Live(cols))
<1>1. known \in V BY DEF SameRows
<1>2. PICK f \in [0..L -> V] :
        Inserting(f, rows, c, objects) /\ InsertRows(rows, c, objects) = f[L]
  <2>1. PICK all : all = InsertRows(rows, c, objects) OBVIOUS
  <2> QED BY <2>1, InsertSteps
<1>3. PICK g \in [0..L -> V] :
        Inserting(g, known, c, objects) /\ InsertRows(known, c, objects) = g[L]
  <2>1. PICK all : all = InsertRows(known, c, objects) OBVIOUS
  <2> QED BY <1>1, <2>1, InsertSteps
<1>4. L \in Nat /\ \A n \in 1..L : objects[n] \in Given(Live(cols)) BY LenProperties, ElementOfSeq
<1>5. /\ f[0] = rows /\ \A n \in 1..L : f[n] = Replace(f[n - 1], c, objects[n])
      /\ g[0] = known /\ \A n \in 1..L : g[n] = Replace(g[n - 1], c, objects[n])
  BY <1>2, <1>3 DEF Inserting
<1> HIDE DEF L, V
<1> DEFINE T == {n \in 0..L : SameRows(f[n], g[n], cols) /\ ~Violates(f[n], c)}
<1>6. 0..L \subseteq T
  <2>1. 0 \in T BY <1>4, <1>5
  <2>2. ASSUME NEW n \in 1..L, n - 1 \in T PROVE n \in T
    <3>1. n - 1 \in 0..L /\ n \in 0..L BY <1>4
    <3>2. f[n - 1] \in Rows(Live(cols)) BY <1>2, <3>1 DEF V
    <3>3. /\ SameRows(Replace(f[n - 1], c, objects[n]), Replace(g[n - 1], c, objects[n]), cols)
          /\ ~Violates(Replace(f[n - 1], c, objects[n]), c)
      BY <1>4, <2>2, <3>2, ReplaceAgrees
    <3> QED BY <1>5, <3>1, <3>3
  <2> HIDE DEF T
  <2> QED BY <1>4, <2>1, <2>2, Upward
<1>7. L \in 0..L BY <1>4
<1> QED BY <1>2, <1>3, <1>6, <1>7 DEF V

\* The states of an insert session.
Sessions(ps) ==
  {Failed} \cup [rows : Rows(ps), bound : Seq(Given(ps)), batch : Int, remaining : Int]

LEMMA SessionFacts ==
  ASSUME NEW ps, NEW s \in Sessions(ps), s # Failed
  PROVE  /\ s \in [rows : Rows(ps), bound : Seq(Given(ps)), batch : Int, remaining : Int]
         /\ s.rows \in Rows(ps) /\ s.bound \in Seq(Given(ps)) /\ s.batch \in Int /\ s.remaining \in Int
BY DEF Sessions

LEMMA InsertIsSession ==
  ASSUME NEW ps, NEW c, Len(SchemaOf(c).props) \in Nat, NEW count \in Int, NEW rows \in Rows(ps)
  PROVE  LET s == Insert(c, count, rows)
         IN s \in Sessions(ps) /\ s # Failed /\ s.rows = rows /\ s.bound = <<>>
<1> DEFINE fits == MaxParams \div (Len(SchemaOf(c).props) + 1)
           size == BatchSize(c, count)
           s == Insert(c, count, rows)
<1>1. fits \in Int BY SQLiteStoreAssumption
<1>2. size = Min({count, fits}) BY DEF BatchSize
<1> HIDE DEF fits, size
<1>3. size \in Int
  <2>1. \E x \in {count, fits} : \A y \in {count, fits} : x <= y BY <1>1
  <2> QED BY <1>1, <1>2, <2>1 DEF Min
<1>4. s = [rows |-> rows, bound |-> <<>>, batch |-> size, remaining |-> count - size]
  BY DEF Insert, size
<1>5. <<>> \in Seq(Given(ps)) /\ count - size \in Int BY <1>3
<1>6. s # Failed
  <2>1. "rows" \in DOMAIN s BY <1>4
  <2>2. "rows" \notin DOMAIN Failed BY DEF Failed
  <2> QED BY <2>1, <2>2
<1> QED BY <1>3, <1>4, <1>5, <1>6 DEF Sessions

\* What the rows of a session will be when its last statement is executed.
Amounts(s, c) == InsertRows(s.rows, c, s.bound)

LEMMA SaveInserts ==
  ASSUME NEW ps, NEW c, Len(SchemaOf(c).props) \in Nat, NEW s \in Sessions(ps), NEW o \in Given(ps)
  PROVE  /\ Save(s, c, o) \in Sessions(ps)
         /\ Save(s, c, o) # Failed =>
              /\ s # Failed
              /\ Amounts(Save(s, c, o), c) = Replace(Amounts(s, c), c, o)
<1>1. CASE s = Failed \/ (s # Failed /\ s.batch = 0)
  <2>1. Save(s, c, o) = Failed BY <1>1 DEF Save
  <2> QED BY <2>1 DEF Sessions
<1>2. CASE s # Failed /\ s.batch # 0
  <2> DEFINE b == Append(s.bound, o)
             t == [s EXCEPT !.bound = b, !.batch = s.batch - 1]
             all == InsertRows(s.rows, c, b)
  <2>1. s.rows \in Rows(ps) /\ s.bound \in Seq(Given(ps)) /\ s.batch \in Int BY <1>2, SessionFacts
  <2>2. b \in Seq(Given(ps)) /\ s.batch - 1 \in Int BY <2>1, AppendProperties
  <2>3. /\ t \in Sessions(ps) /\ t.rows = s.rows /\ t.bound = b /\ t.remaining = s.remaining
        /\ t.remaining \in Int
    <3>1. s \in [rows : Rows(ps), bound : Seq(Given(ps)), batch : Int, remaining : Int]
      BY <1>2, SessionFacts
    <3> HIDE DEF b
    <3> QED BY <2>2, <3>1 DEF Sessions
  <2>4. all = Replace(Amounts(s, c), c, o) BY <2>1, InsertOneMore DEF Amounts
  <2>5. all \in Rows(ps)
    <3>1. Amounts(s, c) \in Rows(ps) BY <2>1, InsertOneMore DEF Amounts
    <3> QED BY <2>4, <3>1, ReplaceIsRows
  <2>6. Save(s, c, o) = IF t.batch = 0 /\ t.remaining > 0
                        THEN Insert(c, t.remaining, InsertRows(t.rows, c, t.bound)) ELSE t
    BY <1>2 DEF Save
  <2>7. InsertRows(t.rows, c, t.bound) = all BY <2>3
  <2> HIDE DEF t, all, b
  <2>8. CASE t.batch = 0 /\ t.remaining > 0
    <3> DEFINE u == Insert(c, t.remaining, all)
    <3>1. u \in Sessions(ps) /\ u.rows = all /\ u.bound = <<>> BY <2>3, <2>5, InsertIsSession
    <3>2. Save(s, c, o) = u BY <2>6, <2>7, <2>8
    <3> HIDE DEF u
    <3>3. Amounts(u, c) = all BY <2>5, <3>1, InsertNone DEF Amounts
    <3> QED BY <1>2, <2>4, <3>1, <3>2, <3>3
  <2>9. CASE ~(t.batch = 0 /\ t.remaining > 0)
    <3>1. Save(s, c, o) = t BY <2>6, <2>9
    <3> QED BY <1>2, <2>3, <2>4, <2>7, <3>1 DEF Amounts
  <2> QED BY <2>8, <2>9
<1> QED BY <1>1, <1>2

\* However the session cuts the objects into statements, it inserts them one
\* after the other (SQLiteInsert::save).
LEMMA SavedInserts ==
  ASSUME NEW ps, NEW c, Len(SchemaOf(c).props) \in Nat, work.tables[c].rows \in Rows(ps),
         NEW objects \in Seq(Given(ps)), Saved(c, objects) # Failed
  PROVE  Amounts(Saved(c, objects), c) = InsertRows(work.tables[c].rows, c, objects)
<1> DEFINE rows == work.tables[c].rows
           L == Len(objects)
           V == Sessions(ps)
           start == Insert(c, L, rows)
           Def(f) == [n \in 0..L |-> IF n = 0 THEN start ELSE Save(f[n - 1], c, objects[n])]
           after == CHOOSE f : f = Def(f)
           G == [x \in V \X (1..L) |-> Save(x[1], c, objects[x[2]])]
<1>1. L \in Nat /\ \A n \in 1..L : objects[n] \in Given(ps) BY LenProperties, ElementOfSeq
<1>2. Saved(c, objects) = after[L] BY DEF Saved
<1>3. PICK g \in [0..L -> Rows(ps)] :
        Inserting(g, rows, c, objects) /\ InsertRows(rows, c, objects) = g[L]
  <2>1. PICK all : all = InsertRows(rows, c, objects) OBVIOUS
  <2> QED BY <2>1, InsertSteps
<1>4. g[0] = rows /\ \A n \in 1..L : g[n] = Replace(g[n - 1], c, objects[n]) BY <1>3 DEF Inserting
<1> HIDE DEF L, rows
<1>5. rows \in Rows(ps) BY DEF rows
<1>6. start \in V /\ start # Failed /\ start.rows = rows /\ start.bound = <<>>
  BY <1>1, <1>5, InsertIsSession
<1>7. Amounts(start, c) = g[0] BY <1>4, <1>5, <1>6, InsertNone DEF Amounts
<1> HIDE DEF start
<1>8. G \in [V \X (1..L) -> V]
  <2> HIDE DEF V
  <2>1. ASSUME NEW x \in V \X (1..L) PROVE Save(x[1], c, objects[x[2]]) \in V
    BY <1>1, SaveInserts DEF V
  <2> QED BY <2>1
<1>9. PICK f \in [0..L -> V] : Steps(f, start, G, L)
  <2> HIDE DEF G, V
  <2> QED BY <1>1, <1>6, <1>8, Recursion
<1>10. ASSUME NEW n \in 1..L PROVE f[n] = Save(f[n - 1], c, objects[n])
  <2>1. n - 1 \in 0..L BY <1>1
  <2>2. <<f[n - 1], n>> \in V \X (1..L) BY <2>1
  <2>3. f[n] = G[<<f[n - 1], n>>] BY <1>9 DEF Steps
  <2> HIDE DEF V
  <2> QED BY <2>2, <2>3
<1>11. f[0] = start BY <1>9 DEF Steps
<1>12. f = Def(f)
  <2>1. \A n \in 0..L : n = 0 \/ n \in 1..L BY <1>1
  <2>2. \A n \in 0..L : f[n] = IF n = 0 THEN start ELSE Save(f[n - 1], c, objects[n])
    BY <1>10, <1>11, <2>1
  <2> QED BY <2>2
<1>13. after = Def(after) BY <1>12
<1> HIDE DEF after, G, V
<1>14. after[0] = start BY <1>1, <1>13
<1>15. ASSUME NEW n \in 1..L PROVE after[n] = Save(after[n - 1], c, objects[n])
  <2>1. n \in 0..L /\ n # 0 BY <1>1
  <2>2. after[n] = Def(after)[n] BY <1>13
  <2> HIDE <1>13
  <2> QED BY <2>1, <2>2
<1> HIDE DEF Def
<1> DEFINE T == {n \in 0..L : after[n] \in V /\ (after[n] # Failed => Amounts(after[n], c) = g[n])}
<1>16. 0..L \subseteq T
  <2>1. 0 \in T BY <1>1, <1>6, <1>7, <1>14
  <2>2. ASSUME NEW n \in 1..L, n - 1 \in T PROVE n \in T
    <3>1. n \in 0..L BY <1>1
    <3>2. after[n - 1] \in Sessions(ps) /\ objects[n] \in Given(ps) BY <1>1, <2>2 DEF V
    <3>3. /\ after[n] \in Sessions(ps)
          /\ after[n] # Failed => /\ after[n - 1] # Failed
                                  /\ Amounts(after[n], c) = Replace(Amounts(after[n - 1], c), c, objects[n])
      BY <1>15, <3>2, SaveInserts
    <3> QED BY <1>4, <2>2, <3>1, <3>3 DEF V
  <2> HIDE DEF T
  <2> QED BY <1>1, <2>1, <2>2, Upward
<1>17. L \in 0..L BY <1>1
<1> QED BY <1>2, <1>3, <1>16, <1>17 DEF rows

-----------------------------------------------------------------------------
(* Writing to a collection of an open database.                            *)

LEMMA OpenTable ==
  ASSUME StoreInv, phase = "write", NEW c \in DOMAIN work.tables
  PROVE  LET s == SchemaOf(c)
             t == work.tables[c]
         IN /\ s \in TableSchemas /\ s.name = c /\ c \in Tables(want) /\ Len(s.props) \in Nat
            /\ Made(work, s) /\ Live(t.cols) = Live(s.props)
            /\ t.rows \in Rows(Live(t.cols)) /\ SameRows(t.rows, meant[c], t.cols)
            /\ KeysIn(c, t.cols) /\ ~Violates(t.rows, c)
<1> DEFINE s == SchemaOf(c)
           t == work.tables[c]
<1>1. want \in Schemas /\ Wanted(work) /\ Agrees(work, meant) BY DEF StoreInv
<1>2. c \in Tables(want) BY <1>1 DEF Wanted
<1>3. PICK n \in DOMAIN want : ~want[n].embedded /\ want[n].name = c BY <1>1, <1>2, WantFacts
<1>4. s = want[n] /\ want[n] \in TableSchemas BY <1>1, <1>3, WantFacts
<1>5. s \in TableSchemas /\ s.name = c /\ Made(work, s) BY <1>1, <1>3, <1>4 DEF Wanted
<1> HIDE DEF s
<1>6. Len(s.props) \in Nat BY <1>5, SchemaFacts, LenProperties
<1>7. Live(t.cols) = Live(s.props) /\ Exact(t.cols) = Exact(s.props) BY <1>5, MadeFacts
<1>8. /\ t.rows \in Rows(Live(s.props)) /\ On(work, c) = {IndexOn(c, i) : i \in s.indexes}
      /\ \A i \in s.indexes : i.unique => ~Duplicates(t.rows, i.props)
  BY <1>5 DEF Made, MadeTable
<1>9. SameRows(t.rows, meant[c], t.cols) BY <1>1 DEF Agrees
<1>10. ASSUME NEW i \in work.indexes, i.table = c
       PROVE  /\ \A n2 \in DOMAIN i.props : i.props[n2] \in Exact(s.props)
              /\ i.unique => ~Duplicates(t.rows, i.props)
  <2>1. PICK x \in s.indexes : i = IndexOn(c, x) BY <1>8, <1>10 DEF On
  <2>2. i.props = x.props /\ i.unique = x.unique BY <2>1 DEF IndexOn
  <2> QED BY <1>5, <1>8, <2>2, KeysAreExact
<1>11. KeysIn(c, t.cols) BY <1>7, <1>10 DEF KeysIn
<1>12. ~Violates(t.rows, c) BY <1>10 DEF Violates
<1> QED BY <1>2, <1>5, <1>6, <1>7, <1>8, <1>9, <1>11, <1>12 DEF s

\* The rows of one table are replaced.
LEMMA Rewritten ==
  ASSUME StoreInv, phase = "write", NEW c \in DOMAIN work.tables, NEW rows, NEW known,
         rows \in Rows(Live(work.tables[c].cols)), ~Violates(rows, c),
         SameRows(rows, known, work.tables[c].cols)
  PROVE  LET e == [work EXCEPT !.tables[c].rows = rows]
         IN DbInv(e) /\ Wanted(e) /\ Agrees(e, [meant EXCEPT ![c] = known])
<1> DEFINE e == [work EXCEPT !.tables[c].rows = rows]
           s == SchemaOf(c)
           t == work.tables[c]
<1>1. /\ want \in Schemas /\ DbInv(work) /\ Wanted(work) /\ Agrees(work, meant) BY DEF StoreInv
<1>2. s \in TableSchemas /\ s.name = c /\ Made(work, s) /\ Live(t.cols) = Live(s.props) BY OpenTable
<1>3. /\ t = [cols |-> t.cols, rows |-> t.rows]
      /\ t.cols \in Seq(Column) /\ OneColumnEach(t.cols) /\ Range(t.cols) = Range(s.props)
      /\ On(work, c) = {IndexOn(c, i) : i \in s.indexes}
  BY <1>2 DEF Made, MadeTable
<1>4. /\ work = [tables |-> work.tables, indexes |-> work.indexes]
      /\ \A i \in work.indexes : i.table \in DOMAIN work.tables
  BY <1>1 DEF DbInv
<1> DEFINE new == [cols |-> t.cols, rows |-> rows]
           T == [work.tables EXCEPT ![c] = new]
<1>5. e = Database(T, work.indexes)
  <2>1. [t EXCEPT !.rows = rows] = new BY <1>3
  <2>2. e = [work EXCEPT !.tables = [work.tables EXCEPT ![c] = [t EXCEPT !.rows = rows]]] OBVIOUS
  <2>3. e = [work EXCEPT !.tables = T] BY <2>1, <2>2
  <2>4. work = Database(work.tables, work.indexes) BY <1>4 DEF Database
  <2> HIDE DEF T, e
  <2> QED BY <2>3, <2>4, DatabaseFacts
<1>6. new.cols = t.cols /\ new.rows = rows /\ new = [cols |-> new.cols, rows |-> new.rows] OBVIOUS
<1> HIDE DEF e, new
<1>7. /\ T[c] = new /\ DOMAIN T = DOMAIN work.tables
      /\ \A x \in DOMAIN work.tables : x # c => T[x] = work.tables[x]
  OBVIOUS
<1> HIDE DEF T, s, t
<1>8. e.tables = T /\ e.indexes = work.indexes /\ e = Database(e.tables, e.indexes)
  BY <1>5, DatabaseFacts
<1>9. \A x : On(e, x) = On(work, x) BY <1>8 DEF On
<1>10. Alters(work, e, c) BY <1>4, <1>7, <1>8, <1>9 DEF Alters
<1>11. \A i \in s.indexes : i.unique => ~Duplicates(rows, i.props)
  <2>1. ASSUME NEW i \in s.indexes, i.unique PROVE ~Duplicates(rows, i.props)
    <3>1. IndexOn(c, i) \in On(work, c) BY <1>3
    <3>2. IndexOn(c, i) \in work.indexes BY <3>1 DEF On
    <3>3. IndexOn(c, i).table = c /\ IndexOn(c, i).unique /\ IndexOn(c, i).props = i.props
      BY <2>1 DEF IndexOn
    <3> QED BY <3>2, <3>3 DEF Violates
  <2> QED BY <2>1
<1>12. rows \in Rows(Live(s.props)) BY <1>2 DEF t
<1>13. Made(e, s)
  BY <1>2, <1>3, <1>6, <1>7, <1>8, <1>9, <1>11, <1>12 DEF Made, MadeTable
<1>14. /\ DbInv(e)
       /\ \A x \in TableSchemas : x.name \in DOMAIN work.tables /\ x.name # c /\ Made(work, x) => Made(e, x)
  <2>1. NamesApart(e) BY <1>1, <1>7, <1>8 DEF DbInv, NamesApart, NamesIn
  <2> QED BY <1>1, <1>2, <1>10, <1>13, <2>1, Altered
<1>15. Wanted(e)
  <2>1. ASSUME NEW n \in DOMAIN want, ~want[n].embedded PROVE Made(e, want[n])
    <3>1. /\ want[n] \in TableSchemas /\ SchemaOf(want[n].name) = want[n] /\ want[n].name \in Tables(want)
      BY <1>1, <2>1, WantFacts
    <3>2. CASE want[n].name = c BY <1>13, <3>1, <3>2 DEF s
    <3>3. CASE want[n].name # c BY <1>1, <1>14, <2>1, <3>1, <3>3 DEF Wanted
    <3> QED BY <3>2, <3>3
  <2> QED BY <1>1, <1>7, <1>8, <2>1 DEF Wanted
<1>16. Agrees(e, [meant EXCEPT ![c] = known])
  <2> DEFINE m == [meant EXCEPT ![c] = known]
  <2>1. DOMAIN meant = DOMAIN work.tables BY <1>1 DEF Agrees
  <2>2. /\ m[c] = known /\ DOMAIN m = DOMAIN work.tables
        /\ \A x \in DOMAIN work.tables : x # c => m[x] = meant[x]
    BY <2>1
  <2> HIDE DEF m
  <2>3. ASSUME NEW x \in DOMAIN work.tables PROVE SameRows(e.tables[x].rows, m[x], e.tables[x].cols)
    <3>1. CASE x = c BY <1>6, <1>7, <1>8, <2>2, <3>1 DEF t
    <3>2. CASE x # c BY <1>1, <1>7, <1>8, <2>2, <3>2 DEF Agrees
    <3> QED BY <3>1, <3>2
  <2>4. Agrees(e, m) BY <1>7, <1>8, <2>2, <2>3 DEF Agrees
  <2> QED BY <2>4 DEF m
<1> QED BY <1>14, <1>15, <1>16 DEF e

\* Rewriting one table, and what the application knows of it, is all that a
\* write does to the state the invariant is about.
LEMMA RewriteKeeps ==
  ASSUME StoreInv, phase = "write", phase' = "write", NEW c \in DOMAIN work.tables, NEW rows, NEW known,
         rows \in Rows(Live(work.tables[c].cols)), ~Violates(rows, c),
         SameRows(rows, known, work.tables[c].cols),
         work' = [work EXCEPT !.tables[c].rows = rows], meant' = [meant EXCEPT ![c] = known],
         disk' = disk, kept' = kept, want' = want, writes' \in Nat
  PROVE  StoreInv'
<1>1. DbInv(work') /\ Wanted(work') /\ Agrees(work', meant') BY Rewritten
<1>2. Tables(want)' = Tables(want) BY DEF Tables
<1>3. Wanted(work)' /\ Wanted(disk)' BY <1>1, <1>2 DEF Wanted, StoreInv
<1> QED BY <1>1, <1>3 DEF StoreInv, OnlyDuplicatesFail

LEMMA PutAllKeeps ==
  ASSUME StoreInv, phase = "write", NEW c \in DOMAIN work.tables,
         NEW objects \in BoundedSeq(Objects(c), Min({MaxObjects, MaxWrites - writes})),
         PutAll(c, objects), phase' = phase
  PROVE  StoreInv'
<1> DEFINE s == SchemaOf(c)
           t == work.tables[c]
           ps == Live(t.cols)
           session == Saved(c, objects)
           rows == InsertRows(t.rows, c, objects)
           known == InsertRows(meant[c], c, objects)
<1>1. /\ s \in TableSchemas /\ Len(s.props) \in Nat /\ ps = Live(s.props)
      /\ t.rows \in Rows(ps) /\ SameRows(t.rows, meant[c], t.cols)
      /\ KeysIn(c, t.cols) /\ ~Violates(t.rows, c)
  BY OpenTable
<1>2. objects \in Seq(Given(ps))
  <2>1. Objects(c) = Given(ps) BY <1>1 DEF Objects, Given, Cell
  <2>2. Min({MaxObjects, MaxWrites - writes}) \in Int
    <3>1. MaxObjects \in Int /\ MaxWrites - writes \in Int BY SQLiteStoreAssumption DEF StoreInv
    <3>2. \E x \in {MaxObjects, MaxWrites - writes} :
            \A y \in {MaxObjects, MaxWrites - writes} : x <= y
      BY <3>1
    <3> QED BY <3>1, <3>2 DEF Min
  <2>3. PICK m \in 0..Min({MaxObjects, MaxWrites - writes}) : objects \in [1..m -> Objects(c)]
    BY DEF BoundedSeq, SeqOf
  <2>4. m \in Nat BY <2>2
  <2> QED BY <2>1, <2>3, <2>4
<1>3. session # Failed /\ work' = [work EXCEPT !.tables[c].rows = InsertRows(session.rows, c, session.bound)]
  BY DEF PutAll
<1>4. Amounts(session, c) = rows BY <1>1, <1>2, <1>3, SavedInserts
<1>5. work' = [work EXCEPT !.tables[c].rows = rows] BY <1>3, <1>4 DEF Amounts
<1>6. meant' = [meant EXCEPT ![c] = known] BY DEF PutAll
<1>7. rows \in Rows(ps) /\ ~Violates(rows, c) /\ SameRows(rows, known, t.cols)
  BY <1>1, <1>2, InsertAgrees
<1>8. /\ disk' = disk /\ kept' = kept /\ want' = want /\ writes' \in Nat
  <2>1. Len(objects) \in Nat BY <1>2, LenProperties
  <2> QED BY <2>1 DEF PutAll, Written, StoreInv
<1> HIDE DEF rows, known
<1> QED BY <1>5, <1>6, <1>7, <1>8, RewriteKeeps

LEMMA UpdateKeeps ==
  ASSUME StoreInv, phase = "write", NEW c \in DOMAIN work.tables,
         NEW id \in DOMAIN work.tables[c].rows, NEW p \in Live(SchemaOf(c).props), NEW value \in Cell,
         Update(c, id, p, value), phase' = phase
  PROVE  StoreInv'
<1> DEFINE t == work.tables[c]
           ps == Live(t.cols)
           rows == [t.rows EXCEPT ![id][p] = value]
           known == [meant[c] EXCEPT ![id][p] = value]
<1>1. p \in ps /\ t.rows \in Rows(ps) /\ SameRows(t.rows, meant[c], t.cols) BY OpenTable
<1>2. meant[c] \in Rows(ps) /\ DOMAIN meant[c] = DOMAIN t.rows BY <1>1 DEF SameRows
<1>3. /\ DOMAIN t.rows \subseteq Id
      /\ \A x \in DOMAIN t.rows : t.rows[x] \in [ps -> Cell] /\ meant[c][x] \in [ps -> Cell]
  BY <1>1, <1>2, RowFacts
<1>4. /\ DOMAIN rows = DOMAIN t.rows /\ DOMAIN known = DOMAIN t.rows
      /\ \A x \in DOMAIN t.rows :
           /\ rows[x] = IF x = id THEN [t.rows[x] EXCEPT ![p] = value] ELSE t.rows[x]
           /\ known[x] = IF x = id THEN [meant[c][x] EXCEPT ![p] = value] ELSE meant[c][x]
      /\ rows = [x \in DOMAIN t.rows |-> rows[x]] /\ known = [x \in DOMAIN t.rows |-> known[x]]
  BY <1>2
<1>5. /\ ~Violates(rows, c) /\ work' = [work EXCEPT !.tables[c].rows = rows]
      /\ meant' = [meant EXCEPT ![c] = known]
      /\ disk' = disk /\ kept' = kept /\ want' = want /\ writes' \in Nat
  BY DEF Update, Written, StoreInv
<1> HIDE DEF t, ps, rows, known
<1>6. ASSUME NEW x \in DOMAIN t.rows
      PROVE  /\ rows[x] \in [ps -> Cell] /\ known[x] \in [ps -> Cell]
             /\ \A q \in ps :
                  /\ rows[x][q] = IF x = id /\ q = p THEN value ELSE t.rows[x][q]
                  /\ known[x][q] = IF x = id /\ q = p THEN value ELSE meant[c][x][q]
  <2>1. \A r \in [ps -> Cell] :
          /\ [r EXCEPT ![p] = value] \in [ps -> Cell]
          /\ \A q \in ps : [r EXCEPT ![p] = value][q] = IF q = p THEN value ELSE r[q]
    BY <1>1
  <2>2. CASE x = id
    <3>1. rows[x] = [t.rows[x] EXCEPT ![p] = value] /\ known[x] = [meant[c][x] EXCEPT ![p] = value]
      BY <1>4, <2>2
    <3> QED BY <1>3, <2>1, <2>2, <3>1
  <2>3. CASE x # id BY <1>3, <1>4, <2>3
  <2> QED BY <2>2, <2>3
<1>7. rows \in Rows(ps) /\ known \in Rows(ps)
  <2>1. rows \in [DOMAIN t.rows -> [ps -> Cell]] /\ known \in [DOMAIN t.rows -> [ps -> Cell]]
    BY <1>4, <1>6
  <2> QED BY <1>3, <2>1 DEF Rows
<1>8. SameRows(rows, known, t.cols)
  <2>1. \A q \in Exact(t.cols) : q \in ps BY DEF Exact, ps
  <2>2. \A x \in DOMAIN t.rows : \A q \in Exact(t.cols) : t.rows[x][q] = meant[c][x][q]
    BY <1>1 DEF SameRows
  <2>3. ASSUME NEW x \in DOMAIN rows, NEW q \in Exact(t.cols) PROVE rows[x][q] = known[x][q]
    <3>1. x \in DOMAIN t.rows /\ q \in ps BY <1>4, <2>1
    <3> QED BY <1>6, <2>2, <3>1
  <2> QED BY <1>4, <1>7, <2>3 DEF SameRows, ps
<1> QED BY <1>5, <1>7, <1>8, RewriteKeeps DEF t, ps

\* Fewer rows.
LEMMA FewerKeeps ==
  ASSUME StoreInv, phase = "write", NEW c \in DOMAIN work.tables, NEW gone, phase' = phase,
         work' = [work EXCEPT !.tables[c].rows = Without(work.tables[c].rows, gone)],
         meant' = [meant EXCEPT ![c] = Without(meant[c], gone)],
         disk' = disk, kept' = kept, want' = want, writes' \in Nat
  PROVE  StoreInv'
<1> DEFINE t == work.tables[c]
           rows == Without(t.rows, gone)
           known == Without(meant[c], gone)
<1>1. t.rows \in Rows(Live(t.cols)) /\ SameRows(t.rows, meant[c], t.cols) /\ ~Violates(t.rows, c)
  BY OpenTable
<1>2. /\ meant[c] \in Rows(Live(t.cols)) /\ DOMAIN meant[c] = DOMAIN t.rows
      /\ \A x \in DOMAIN t.rows : \A p \in Exact(t.cols) : t.rows[x][p] = meant[c][x][p]
  BY <1>1 DEF SameRows
<1> HIDE DEF t
<1>3. \A r \in Rows(Live(t.cols)) : Without(r, gone) \in Rows(Live(t.cols))
  <2>1. ASSUME NEW r \in Rows(Live(t.cols)) PROVE Without(r, gone) \in Rows(Live(t.cols))
    <3>1. DOMAIN r \subseteq Id /\ \A x \in DOMAIN r : r[x] \in [Live(t.cols) -> Cell] BY RowFacts
    <3>2. Without(r, gone) \in [DOMAIN r \ gone -> [Live(t.cols) -> Cell]] BY <3>1 DEF Without
    <3>3. DOMAIN r \ gone \in SUBSET Id BY <3>1
    <3> QED BY <3>2, <3>3 DEF Rows
  <2> QED BY <2>1
<1>4. rows \in Rows(Live(t.cols)) /\ known \in Rows(Live(t.cols)) BY <1>1, <1>2, <1>3
<1>5. /\ DOMAIN rows = DOMAIN t.rows \ gone /\ DOMAIN known = DOMAIN rows
      /\ \A x \in DOMAIN rows : rows[x] = t.rows[x] /\ known[x] = meant[c][x]
  BY <1>2 DEF Without
<1> HIDE DEF rows, known
<1>6. SameRows(rows, known, t.cols) BY <1>2, <1>4, <1>5 DEF SameRows
<1>7. ~Violates(rows, c)
  <2>1. \A props : Duplicates(rows, props) => Duplicates(t.rows, props) BY <1>5 DEF Duplicates
  <2> QED BY <1>1, <2>1 DEF Violates
<1> QED BY <1>4, <1>6, <1>7, RewriteKeeps DEF t, rows, known

LEMMA DeleteKeeps ==
  ASSUME StoreInv, phase = "write", NEW c \in DOMAIN work.tables, NEW id, phase' = phase,
         Delete(c, id)
  PROVE  StoreInv'
<1>1. /\ work' = [work EXCEPT !.tables[c].rows = Without(work.tables[c].rows, {id})]
      /\ meant' = [meant EXCEPT ![c] = Without(meant[c], {id})]
  BY DEF Delete
<1>2. disk' = disk /\ kept' = kept /\ want' = want /\ writes' \in Nat
  BY DEF Delete, Written, StoreInv
<1> QED BY <1>1, <1>2, FewerKeeps

LEMMA ClearKeeps ==
  ASSUME StoreInv, phase = "write", NEW c \in DOMAIN work.tables, phase' = phase, Clear(c)
  PROVE  StoreInv'
<1>1. work' = [work EXCEPT !.tables[c].rows = <<>>] /\ meant' = [meant EXCEPT ![c] = <<>>]
  BY DEF Clear
<1>2. disk' = disk /\ kept' = kept /\ want' = want /\ writes' \in Nat
  BY DEF Clear, Written, StoreInv
<1>3. DOMAIN <<>> = {} OBVIOUS
<1>4. ~Violates(<<>>, c) BY NoRows DEF Violates
<1>5. SameRows(<<>>, <<>>, work.tables[c].cols) BY <1>3, NoRows DEF SameRows
<1> QED BY <1>1, <1>2, <1>4, <1>5, NoRows, RewriteKeeps

LEMMA WritesKeep ==
  ASSUME StoreInv, phase = "write", NEW c \in DOMAIN work.tables, Writes(c), phase' = phase
  PROVE  StoreInv'
<1>1. ASSUME NEW objects \in BoundedSeq(Objects(c), Min({MaxObjects, MaxWrites - writes})),
             PutAll(c, objects)
      PROVE  StoreInv'
  BY <1>1, PutAllKeeps
<1>2. ASSUME NEW id \in DOMAIN work.tables[c].rows, NEW p \in Live(SchemaOf(c).props),
             NEW value \in Cell, Update(c, id, p, value)
      PROVE  StoreInv'
  BY <1>2, UpdateKeeps
<1>3. ASSUME NEW id, Delete(c, id) PROVE StoreInv' BY <1>3, DeleteKeeps
<1>4. CASE Clear(c) BY <1>4, ClearKeeps
<1>5. ASSUME NEW objects, PutAllFails(c, objects) PROVE FALSE BY <1>5 DEF PutAllFails
<1>6. ASSUME NEW id, NEW p, NEW value, UpdateFails(c, id, p, value) PROVE FALSE
  BY <1>6 DEF UpdateFails
<1> QED BY <1>1, <1>2, <1>3, <1>4, <1>5, <1>6 DEF Writes, Cell

LEMMA Initially == Init => StoreInv
<1> SUFFICES ASSUME Init PROVE StoreInv OBVIOUS
<1>1. DOMAIN <<>> = {} OBVIOUS
<1>2. Empty.tables = <<>> /\ Empty.indexes = {} /\ Empty = [tables |-> <<>>, indexes |-> {}]
  BY DEF Empty
<1>3. DbInv(Empty) BY <1>1, <1>2 DEF DbInv, NamesApart, NamesIn
<1>4. Agrees(Empty, <<>>) BY <1>1, <1>2 DEF Agrees
<1> QED BY <1>3, <1>4 DEF Init, StoreInv, OnlyDuplicatesFail

LEMMA StoreInvKept ==
  ASSUME DeclarationsApart, StoreInv, [Next]_vars
  PROVE  StoreInv'
<1>1. CASE OpenStart
  <2>1. Migrating' BY <1>1, StartKeeps
  <2>2. /\ phase' = "migrating" /\ disk' = disk /\ kept' = kept /\ writes' = writes
    BY <1>1 DEF OpenStart
  <2> QED BY <2>1, <2>2 DEF StoreInv, OnlyDuplicatesFail
<1>2. CASE MigrateTable
  <2>1. Migrating' BY <1>2, MigrateKeeps
  <2>2. /\ phase' = "migrating" /\ disk' = disk /\ kept' = kept /\ writes' = writes
    BY <1>2 DEF MigrateTable
  <2> QED BY <2>1, <2>2 DEF StoreInv, OnlyDuplicatesFail
<1>3. CASE OpenFails
  <2>1. OnlyDuplicatesFail' BY <1>3, FailsOnDuplicates
  <2>2. /\ phase' = "failed" /\ disk' = disk /\ kept' = kept /\ writes' = writes
        /\ work' = disk /\ meant' = kept
    BY <1>3 DEF OpenFails, Undone
  <2> QED BY <2>1, <2>2 DEF StoreInv
<1>4. CASE OpenDone
  <2>1. want' \in Schemas /\ Wanted(disk)' /\ DbInv(disk') /\ Agrees(disk', kept')
    BY <1>4, DoneKeeps
  <2>2. phase' = "open" /\ disk' = work' /\ kept' = meant' /\ writes' = writes BY <1>4 DEF OpenDone
  <2>3. Wanted(work)' BY <2>1, <2>2 DEF Wanted
  <2> QED BY <2>1, <2>2, <2>3 DEF StoreInv, OnlyDuplicatesFail
<1>5. CASE Leave
  <2>1. /\ phase' = "closed" /\ disk' = disk /\ kept' = kept /\ writes' = writes
        /\ work' = disk /\ meant' = kept
    BY <1>5 DEF Leave, Undone
  <2> QED BY <2>1 DEF StoreInv, OnlyDuplicatesFail
<1>6. CASE BeginWrite
  <2>1. /\ phase = "open" /\ phase' = "write" /\ UNCHANGED <<disk, work, want, meant, kept, writes>>
    BY <1>6 DEF BeginWrite
  <2>2. Wanted(disk)' /\ Wanted(work)' BY <2>1 DEF StoreInv, Wanted, Tables
  <2> QED BY <2>1, <2>2 DEF StoreInv, OnlyDuplicatesFail
<1>7. CASE Commit
  <2>1. /\ phase = "write" /\ phase' = "open" /\ disk' = work /\ kept' = meant
        /\ UNCHANGED <<work, want, meant, writes>>
    BY <1>7 DEF Commit
  <2>2. Wanted(disk)' /\ Wanted(work)' BY <2>1 DEF StoreInv, Wanted, Tables
  <2> QED BY <2>1, <2>2 DEF StoreInv, OnlyDuplicatesFail
<1> DEFINE Back == /\ phase = "write" /\ work' = disk /\ meant' = kept /\ writes' \in Nat
                   /\ UNCHANGED <<disk, want, kept>>
\* A transaction that is undone leaves what was committed.
<1>8. ASSUME Back, phase' \in {"open", "stuck"} PROVE StoreInv'
  <2>1. Wanted(disk)' /\ Wanted(work)' BY <1>8 DEF StoreInv, Wanted, Tables
  <2> QED BY <1>8, <2>1 DEF StoreInv, OnlyDuplicatesFail
<1>9. CASE Abort
  <2>1. Back /\ phase' = "open" BY <1>9 DEF Abort, Undone, StoreInv
  <2> QED BY <1>8, <2>1
<1>10. ASSUME phase = "write", NEW c \in DOMAIN work.tables, Writes(c) PROVE StoreInv'
  <2>1. writes + 1 \in Nat BY DEF StoreInv
  <2>2. ASSUME NEW objects, PutAllFails(c, objects) PROVE StoreInv'
    <3>1. Back /\ phase' = "stuck" BY <1>10, <2>1, <2>2 DEF PutAllFails, RolledBack, Undone
    <3> QED BY <1>8, <3>1
  <2>3. ASSUME NEW id, NEW p, NEW value, UpdateFails(c, id, p, value) PROVE StoreInv'
    <3>1. Back /\ phase' = "open" BY <1>10, <2>1, <2>3 DEF UpdateFails, RolledBack, Undone
    <3> QED BY <1>8, <3>1
  <2>4. CASE phase' = phase BY <1>10, <2>4, WritesKeep
  <2>5. CASE phase' # phase BY <1>10, <2>2, <2>3, <2>5 DEF Writes
  <2> QED BY <2>4, <2>5
<1>11. CASE UNCHANGED vars
  <2>1. UNCHANGED <<disk, work, phase, want, names, step, meant, kept, writes>> BY <1>11 DEF vars
  <2>2. Migrating => Migrating' BY <2>1 DEF Migrating, Behind
  <2>3. OnlyDuplicatesFail'
    <3>1. Tables(want)' = Tables(want) /\ \A x : SchemaOf(x)' = SchemaOf(x)
      BY <2>1 DEF Tables, SchemaOf
    <3>2. OnlyDuplicatesFail BY DEF StoreInv
    <3>3. Unnameable => Unnameable' BY <2>1, <3>1 DEF Unnameable, NamesIn
    <3> QED BY <2>1, <3>1, <3>2, <3>3 DEF OnlyDuplicatesFail
  <2>4. (Wanted(disk) => Wanted(disk)') /\ (Wanted(work) => Wanted(work)')
    BY <2>1 DEF Wanted, Tables
  <2> QED BY <2>1, <2>2, <2>3, <2>4 DEF StoreInv
<1> QED
  BY <1>1, <1>2, <1>3, <1>4, <1>5, <1>6, <1>7, <1>9, <1>10, <1>11 DEF Next

LEMMA StoreInvAlways == ASSUME DeclarationsApart PROVE Spec => []StoreInv
<1>1. StoreInv /\ [Next]_vars => StoreInv' BY StoreInvKept
<1> QED BY <1>1, Initially, PTL DEF Spec

-----------------------------------------------------------------------------
(* What follows.                                                           *)

\* An opening fails for a name that SQLite does not take, or for equal keys
\* under an index that is to be unique, and for nothing else: no statement of
\* update_table is in the way of another.
THEOREM OnlyDuplicates == ASSUME DeclarationsApart PROVE Spec => []OnlyDuplicatesFail
<1>1. StoreInv => OnlyDuplicatesFail BY DEF StoreInv
<1> QED BY <1>1, StoreInvAlways, PTL

\* An open database has the tables, columns and indexes of its schemas, in
\* the file and in the transaction, and its unique indexes hold
\* (perform_migration, SQLiteInsert, query_update).
THEOREM AsWantedAlways == ASSUME DeclarationsApart PROVE Spec => []TablesAsWanted
<1>1. ASSUME StoreInv, phase \in {"open", "write"} PROVE TablesAsWanted
  <2>1. /\ want \in Schemas /\ Wanted(disk) /\ Wanted(work) /\ DbInv(work) BY <1>1 DEF StoreInv
  <2>2. ASSUME NEW d, Wanted(d) PROVE AsWanted(d)
    <3>1. ASSUME NEW c \in Tables(want)
          PROVE  /\ Range(d.tables[c].cols) = Range(SchemaOf(c).props)
                 /\ {i \in d.indexes : i.table = c} = {IndexOn(c, i) : i \in SchemaOf(c).indexes}
      <4>1. PICK n \in DOMAIN want : ~want[n].embedded /\ want[n].name = c /\ SchemaOf(c) = want[n]
        BY <2>1, WantFacts
      <4>2. Made(d, want[n]) BY <2>2, <4>1 DEF Wanted
      <4> QED BY <4>1, <4>2 DEF Made, MadeTable, On
    <3> QED BY <2>2, <3>1 DEF AsWanted, Wanted
  <2>3. ASSUME NEW i \in work.indexes, i.unique
        PROVE  ~Duplicates(work.tables[i.table].rows, i.props)
    <3>1. PICK s \in TableSchemas : \E x \in s.indexes :
            i.table = s.name /\ i = IndexOn(s.name, x) /\ Made(work, s)
      BY <2>1, IndexForm
    <3>2. PICK x \in s.indexes : i.table = s.name /\ i = IndexOn(s.name, x) /\ Made(work, s) BY <3>1
    <3>3. i.props = x.props /\ i.unique = x.unique BY <3>2 DEF IndexOn
    <3> QED BY <2>3, <3>2, <3>3 DEF Made, MadeTable
  <2> QED BY <2>1, <2>2, <2>3 DEF TablesAsWanted
<1>2. StoreInv => TablesAsWanted BY <1>1 DEF TablesAsWanted
<1> QED BY <1>2, StoreInvAlways, PTL

\* Objects are what the application made them, in whatever statements putAll
\* cuts them, whatever was rolled back, and through every migration.
THEOREM AsMeantAlways == ASSUME DeclarationsApart PROVE Spec => []RowsAreMeant
<1>1. ASSUME StoreInv, phase \in {"open", "write"} PROVE RowsAreMeant
  <2>1. /\ want \in Schemas /\ Wanted(work) /\ Agrees(work, meant) BY <1>1 DEF StoreInv
  <2>2. ASSUME NEW c \in DOMAIN meant
        PROVE  LET rows  == work.tables[c].rows
                   exact == {p \in Live(SchemaOf(c).props) : ~Misread(TypeIn(SchemaOf(c).props, p))}
               IN /\ DOMAIN rows = DOMAIN meant[c]
                  /\ \A id \in DOMAIN rows, p \in exact : rows[id][p] = meant[c][id][p]
    <3> DEFINE t == work.tables[c]
    <3>1. c \in Tables(want) /\ SameRows(t.rows, meant[c], t.cols) BY <2>1 DEF Agrees, Wanted
    <3>2. PICK n \in DOMAIN want :
            ~want[n].embedded /\ want[n].name = c /\ SchemaOf(c) = want[n] /\ want[n] \in TableSchemas
      BY <2>1, <3>1, WantFacts
    <3>3. Made(work, want[n]) BY <2>1, <3>2 DEF Wanted
    <3>4. Exact(t.cols) = Exact(SchemaOf(c).props) BY <3>2, <3>3, MadeFacts
    <3> QED BY <3>1, <3>4 DEF SameRows, Exact
  <2> QED BY <2>1, <2>2 DEF RowsAreMeant, Agrees
<1>2. StoreInv => RowsAreMeant BY <1>1 DEF RowsAreMeant
<1> QED BY <1>2, StoreInvAlways, PTL
=============================================================================
