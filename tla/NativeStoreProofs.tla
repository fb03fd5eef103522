-------------------------- MODULE NativeStoreProofs --------------------------
(***************************************************************************)
(* Proofs about NativeStore for every set of ids, values and indexes.      *)
(***************************************************************************)
EXTENDS NativeStore, TLAPS

-----------------------------------------------------------------------------
(* Type correctness.                                                       *)

Calls == [at : 1..(NumIndexes + 1), id : Id, value : Value]

LEMMA CallFields ==
  ASSUME NEW c \in Calls
  PROVE  /\ c.at \in 1..(NumIndexes + 1) /\ c.id \in Id /\ c.value \in Value
         /\ c # Idle
BY StoreAssumption DEF Idle, Calls

LEMMA CallInProgress ==
  ASSUME TypeOK, call.at # 0
  PROVE  call \in Calls
BY DEF TypeOK, Idle, Calls

LEMMA BumpedType ==
  ASSUME TypeOK, NEW id \in Id
  PROVE  Bumped(id) \in MinId..MaxId
BY StoreAssumption DEF TypeOK, Bumped, Succ

LEMMA SuccType == \A n \in MinId..MaxId : Succ(n) \in MinId..MaxId
BY StoreAssumption DEF Succ

LEMMA DropEntriesType ==
  ASSUME NEW e \in Entries, NEW id, NEW v
  PROVE  DropEntries(e, id, v) \in Entries
BY DEF DropEntries, Entries

LEMMA PutStartType ==
  ASSUME TypeOK, NEW id \in Id, NEW v \in Value, PutStart(id, v)
  PROVE  call' \in Calls /\ entries' \in Entries
<1>1. call' \in Calls
  BY StoreAssumption DEF PutStart, Calls
<1>2. entries' \in Entries
  BY DropEntriesType DEF PutStart, TypeOK
<1>3. QED BY <1>1, <1>2

LEMMA ApplyType ==
  ASSUME NEW u \in Update, NEW v \in Value, Apply[u][v] # None
  PROVE  Apply[u][v] \in Value
BY StoreAssumption

LEMMA KeyType ==
  ASSUME NEW i \in Index, NEW v \in Value PROVE KeyOf[i][v] \in Key
BY StoreAssumption

LEMMA InitType == Init => TypeOK
<1> SUFFICES ASSUME Init PROVE TypeOK
  OBVIOUS
<1>1. disk \in [objects : Objects, entries : Entries]
  BY DEF Init, Objects, Entries
<1>2. objects \in Objects /\ entries \in Entries
  BY <1>1 DEF Init
<1>3. bulk \in Bulks
  BY DEF Init, Bulks
<1>4. remaining \in -1..MaxBatch /\ nextId \in MinId..MaxId
  BY StoreAssumption DEF Init, NoInsert
<1>5. QED BY <1>1, <1>2, <1>3, <1>4 DEF Init, TypeOK

LEMMA RollbackType ==
  ASSUME TypeOK, Rollback, nextId' \in MinId..MaxId, running' \in BOOLEAN
  PROVE  TypeOK'
<1>1. NoBulk \in Bulks
  BY DEF Bulks
<1>2. NoInsert \in -1..MaxBatch
  BY StoreAssumption DEF NoInsert
<1>3. QED BY <1>1, <1>2 DEF TypeOK, Rollback

LEMMA NextType == TypeOK /\ [Next]_vars => TypeOK'
<1> SUFFICES ASSUME TypeOK, [Next]_vars PROVE TypeOK'
  OBVIOUS
<1> USE DEF Calls
<1>0. NoBulk \in Bulks
  BY DEF Bulks
<1>1. CASE UNCHANGED vars
  BY <1>1 DEF vars, TypeOK
<1>2. CASE BeginWrite
  BY <1>2 DEF BeginWrite, TypeOK
<1>3. CASE Commit
  BY <1>3 DEF Commit, TypeOK
<1>4. CASE CommitBroken \/ CommitFails \/ Abort \/ InsertFinishEarly
  BY <1>4, RollbackType DEF CommitBroken, CommitFails, Abort, InsertFinishEarly, TypeOK
<1>5. CASE Crash
  BY <1>5, RollbackType DEF Crash, TypeOK
<1>6. CASE Open
  <2>1. nextId' \in MinId..MaxId
    BY <1>6, SuccType, StoreAssumption DEF Open, TypeOK
  <2>2. QED BY <1>6, <2>1 DEF Open, TypeOK
<1>7. CASE AutoIncrement
  BY <1>7, SuccType DEF AutoIncrement, TypeOK
<1>8. CASE Clear
  BY <1>8 DEF Clear, TypeOK, Objects, Entries
<1>9. CASE OperationFails
  <2>1. call # Idle => call \in Calls
    BY DEF TypeOK
  <2>2. nextId' \in MinId..MaxId
    BY <1>9, <2>1, CallFields, BumpedType DEF OperationFails, TypeOK
  <2>3. QED BY <1>9, <2>2, <1>0 DEF OperationFails, TypeOK
<1>10. CASE PutIndex
  <2> DEFINE i == call.at
  <2>1. call \in Calls /\ i \in Index
    BY <1>10, CallInProgress DEF PutIndex, Index
  <2>2. call' \in Calls
    <3>1. call' = [call EXCEPT !.at = call.at + 1]
      BY <1>10 DEF PutIndex
    <3>2. call.at + 1 \in 1..(NumIndexes + 1)
      BY <2>1, StoreAssumption DEF Index
    <3>3. QED BY <2>1, <3>1, <3>2
  <2>3. ASSUME NEW e \in Entries PROVE AddEntry(e, i) \in Entries
    BY <2>1, KeyType DEF AddEntry, Entries
  <2>4. objects' \in Objects /\ entries' \in Entries
    <3>1. ASSUME NEW x \in Id PROVE DropEntries(entries, x, objects[x]) \in Entries
      BY DropEntriesType DEF TypeOK
    <3>2. CASE MustEvict(i)
      <4>1. PICK x \in Holders(i) :
              /\ objects' = [objects EXCEPT ![x] = None]
              /\ entries' = AddEntry(IF objects[x] # None
                                     THEN DropEntries(entries, x, objects[x])
                                     ELSE entries, i)
        BY <1>10, <3>2 DEF PutIndex
      <4>2. objects' \in Objects
        BY <4>1 DEF TypeOK, Objects
      <4>3. entries' \in Entries
        BY <2>3, <3>1, <4>1 DEF Holders, TypeOK
      <4>4. QED BY <4>2, <4>3
    <3>3. CASE ~MustEvict(i)
      BY <1>10, <2>3, <3>3 DEF PutIndex, TypeOK
    <3>4. QED BY <3>2, <3>3
  <2>5. QED BY <1>10, <2>2, <2>4 DEF PutIndex, TypeOK
<1>11. CASE PutFinish
  <2>1. call \in Calls
    BY <1>11, CallInProgress, StoreAssumption DEF PutFinish
  <2>2. objects' \in Objects
    BY <1>11, <2>1, CallFields DEF PutFinish, TypeOK, Objects
  <2>3. nextId' \in MinId..MaxId
    BY <1>11, <2>1, CallFields, BumpedType DEF PutFinish
  <2>4. remaining' \in -1..MaxBatch
    BY <1>11, StoreAssumption DEF PutFinish, TypeOK, NoInsert
  <2>5. QED BY <1>11, <2>2, <2>3, <2>4 DEF PutFinish, TypeOK
<1>12. CASE InsertFinish
  BY <1>12, StoreAssumption DEF InsertFinish, NoInsert, TypeOK
<1>13. ASSUME NEW count \in 0..MaxBatch, InsertBegin(count) PROVE TypeOK'
  BY <1>13 DEF InsertBegin, TypeOK
<1>14. ASSUME NEW id \in Id, NEW v \in Value, InsertSave(id, v) PROVE TypeOK'
  <2>1. PutStart(id, v)
    BY <1>14 DEF InsertSave
  <2>2. QED BY <1>14, <2>1, PutStartType DEF InsertSave, PutStart, TypeOK
<1>15. ASSUME NEW id \in Id, NEW u \in Update, UpdateObject(id, u) PROVE TypeOK'
  <2>1. Apply[u][objects[id]] \in Value
    BY <1>15, ApplyType DEF UpdateObject, TypeOK, Objects
  <2>2. PutStart(id, Apply[u][objects[id]])
    BY <1>15 DEF UpdateObject
  <2>3. call' \in Calls /\ entries' \in Entries
    BY <2>1, <2>2, PutStartType
  <2>4. QED BY <1>15, <2>2, <2>3 DEF UpdateObject, PutStart, TypeOK
<1>16. ASSUME NEW id \in Id, DeleteFrom(id) PROVE objects' \in Objects /\ entries' \in Entries
  BY <1>16, DropEntriesType DEF DeleteFrom, TypeOK, Objects
<1>17. ASSUME NEW id \in Id, DeleteObject(id) PROVE TypeOK'
  BY <1>16, <1>17 DEF DeleteObject, TypeOK
<1>18. ASSUME NEW id, bulk.kind # "none" PROVE [bulk EXCEPT !.ids = @ \ {id}] \in Bulks
  BY <1>18 DEF TypeOK, Bulks, NoBulk
<1>19. ASSUME NEW id \in Id, QueryUpdateStep(id) PROVE TypeOK'
  <2>1. bulk' \in Bulks
    BY <1>18, <1>19 DEF QueryUpdateStep, InBulk
  <2>2. CASE objects[id] = None
    BY <1>19, <2>1, <2>2 DEF QueryUpdateStep, TypeOK
  <2>3. CASE objects[id] # None
    <3> DEFINE v == Apply[bulk.update][objects[id]]
    <3>1. bulk.update \in Update /\ objects[id] \in Value
      BY <1>19, <2>3 DEF QueryUpdateStep, InBulk, TypeOK, Objects, Bulks, NoBulk
    <3>2. v # None /\ PutStart(id, v)
      BY <1>19, <2>3 DEF QueryUpdateStep
    <3>3. call' \in Calls /\ entries' \in Entries
      BY <3>1, <3>2, ApplyType, PutStartType
    <3>4. QED BY <1>19, <2>1, <2>3, <3>2, <3>3 DEF QueryUpdateStep, PutStart, TypeOK
  <2>4. QED BY <2>2, <2>3
<1>20. ASSUME NEW id \in Id, QueryDeleteStep(id) PROVE TypeOK'
  <2>1. bulk' \in Bulks
    BY <1>18, <1>20 DEF QueryDeleteStep, InBulk
  <2>2. QED BY <1>16, <1>20, <2>1 DEF QueryDeleteStep, TypeOK
<1>21. ASSUME NEW ids \in SUBSET Stored(objects), QueryDeleteBegin(ids) PROVE TypeOK'
  BY <1>21 DEF QueryDeleteBegin, TypeOK, Stored, Bulks
<1>22. ASSUME NEW ids \in SUBSET Stored(objects), NEW u \in Update,
              QueryUpdateBegin(ids, u)
       PROVE  TypeOK'
  BY <1>22 DEF QueryUpdateBegin, TypeOK, Stored, Bulks
<1>23. CASE QueryReturn
  BY <1>0, <1>23 DEF QueryReturn, TypeOK
<1>24. QED
  BY <1>1, <1>2, <1>3, <1>4, <1>5, <1>6, <1>7, <1>8, <1>9, <1>10, <1>11, <1>12,
     <1>13, <1>14, <1>15, <1>17, <1>19, <1>20, <1>21, <1>22, <1>23 DEF Next

\* The variables of the collection keep their types in every reachable state.
THEOREM TypeCorrect == Spec => []TypeOK
BY InitType, NextType, PTL DEF Spec

-----------------------------------------------------------------------------
(* Consistency of the indexes and uniqueness of the keys.                  *)

\* A key with a null part equals no key without one.  create_key gives it for
\* every property type except strings that contain a NUL character.
NullKeysApart ==
  \A i \in Unique : \A v, w \in Value :
    KeyOf[i][v] = KeyOf[i][w] => (v \in HasNull[i] <=> w \in HasNull[i])

\* The objects other than the one being put.
Rest == [objects EXCEPT ![call.id] = None]

NewEntry(i) == <<KeyOf[i][call.value], call.id>>

\* A put in progress has entered its object in the indexes behind it, in none
\* of those ahead, and has evicted its rivals in those behind.
MidPut ==
  /\ \A i \in Index : entries[i] = IF i < call.at THEN IndexOf(i, Rest) \cup {NewEntry(i)}
                                                 ELSE IndexOf(i, Rest)
  /\ KeysUnique(Rest)
  /\ \A i \in Unique : i < call.at /\ call.value \notin HasNull[i] =>
       \A x \in Stored(Rest) : objects[x] \notin HasNull[i]
                                => KeyOf[i][objects[x]] # KeyOf[i][call.value]

Consistent(o, e) == IndexesAgree(o, e) /\ KeysUnique(o)

InductiveInv ==
  /\ TypeOK
  /\ Consistent(disk.objects, disk.entries)
  /\ txn = "none" => objects = disk.objects /\ entries = disk.entries /\ call = Idle
  /\ txn = "broken" => call = Idle
  /\ txn = "open" /\ call = Idle => Consistent(objects, entries)
  /\ call # Idle => MidPut

-----------------------------------------------------------------------------
(* How an index and the uniqueness of keys change with one object.         *)

LEMMA InIndexOf ==
  ASSUME NEW o, NEW i, NEW k, NEW x
  PROVE  <<k, x>> \in IndexOf(i, o) <=> x \in Stored(o) /\ k = KeyOf[i][o[x]]
BY DEF IndexOf

LEMMA IndexOfRemove ==
  ASSUME NEW o \in Objects, NEW id \in Id, o[id] # None, NEW i
  PROVE  IndexOf(i, [o EXCEPT ![id] = None]) = IndexOf(i, o) \ {<<KeyOf[i][o[id]], id>>}
<1> DEFINE p == [o EXCEPT ![id] = None]
<1>1. Stored(p) = Stored(o) \ {id}
  BY DEF Stored, Objects
<1>2. \A x \in Stored(p) : p[x] = o[x]
  BY <1>1 DEF Stored, Objects
<1>3. id \in Stored(o)
  BY DEF Stored
<1>4. ASSUME NEW t \in IndexOf(i, p)
      PROVE  t \in IndexOf(i, o) /\ t # <<KeyOf[i][o[id]], id>>
  <2>1. PICK x \in Stored(p) : t = <<KeyOf[i][p[x]], x>>
    BY DEF IndexOf
  <2>2. x \in Stored(o) /\ x # id /\ t = <<KeyOf[i][o[x]], x>>
    BY <1>1, <1>2, <2>1
  <2>3. QED BY <2>2 DEF IndexOf
<1>5. ASSUME NEW t \in IndexOf(i, o), t # <<KeyOf[i][o[id]], id>>
      PROVE  t \in IndexOf(i, p)
  <2>1. PICK x \in Stored(o) : t = <<KeyOf[i][o[x]], x>>
    BY DEF IndexOf
  <2>2. x \in Stored(p) /\ t = <<KeyOf[i][p[x]], x>>
    BY <1>1, <1>2, <1>5, <2>1
  <2>3. QED BY <2>2 DEF IndexOf
<1>6. QED BY <1>4, <1>5

LEMMA IndexOfAdd ==
  ASSUME NEW o \in Objects, NEW id \in Id, NEW v \in Value, NEW i
  PROVE  IndexOf(i, [o EXCEPT ![id] = v]) =
           IndexOf(i, [o EXCEPT ![id] = None]) \cup {<<KeyOf[i][v], id>>}
<1> DEFINE p == [o EXCEPT ![id] = v]
           q == [o EXCEPT ![id] = None]
<1>1. v # None
  BY StoreAssumption
<1>2. Stored(p) = Stored(q) \cup {id} /\ id \notin Stored(q)
  BY <1>1 DEF Stored, Objects
<1>3. p[id] = v /\ \A x \in Stored(q) : p[x] = q[x]
  BY <1>2 DEF Stored, Objects
<1>4. QED BY <1>2, <1>3 DEF IndexOf

LEMMA KeysUniqueRemove ==
  ASSUME NEW o \in Objects, NEW id \in Id, KeysUnique(o)
  PROVE  KeysUnique([o EXCEPT ![id] = None])
<1> DEFINE p == [o EXCEPT ![id] = None]
<1>1. \A x \in Stored(p) : x \in Stored(o) /\ p[x] = o[x]
  BY DEF Stored, Objects
<1>2. QED BY <1>1 DEF KeysUnique

LEMMA RemoveConsistent ==
  ASSUME NEW o \in Objects, NEW e \in Entries, NEW id \in Id, Consistent(o, e)
  PROVE  Consistent([o EXCEPT ![id] = None],
                    IF o[id] # None THEN DropEntries(e, id, o[id]) ELSE e)
<1> DEFINE p == [o EXCEPT ![id] = None]
<1>1. KeysUnique(p)
  BY KeysUniqueRemove DEF Consistent
<1>2. CASE o[id] # None
  <2>1. \A i \in Index : DropEntries(e, id, o[id])[i] = IndexOf(i, p)
    BY <1>2, IndexOfRemove DEF Consistent, IndexesAgree, DropEntries
  <2>2. QED BY <1>1, <1>2, <2>1 DEF Consistent, IndexesAgree
<1>3. CASE o[id] = None
  <2>1. p = o
    BY <1>3 DEF Objects
  <2>2. QED BY <1>3, <2>1
<1>4. QED BY <1>2, <1>3

LEMMA EmptyConsistent ==
  Consistent([id \in Id |-> None], [i \in Index |-> {}])
<1>1. Stored([id \in Id |-> None]) = {}
  BY DEF Stored
<1>2. \A i : IndexOf(i, [id \in Id |-> None]) = {}
  BY <1>1 DEF IndexOf
<1>3. QED BY <1>1, <1>2, StoreAssumption DEF Consistent, IndexesAgree, KeysUnique

(***************************************************************************)
(* The inductive step, an action at a time.                                *)
(***************************************************************************)
LEMMA InitInductive == Init => InductiveInv
<1> SUFFICES ASSUME Init PROVE InductiveInv
  OBVIOUS
<1>1. Consistent(disk.objects, disk.entries)
  BY EmptyConsistent DEF Init
<1>2. QED BY <1>1, InitType DEF Init, InductiveInv

\* Removing the object being put from the objects, when put begins.
LEMMA PutStartInductive ==
  ASSUME InductiveInv, TypeOK', txn = "open", call = Idle,
         NEW id \in Id, NEW v \in Value, PutStart(id, v)
  PROVE  InductiveInv'
<1>1. call' # Idle /\ call'.at = 1 /\ call'.id = id /\ call'.value = v
  BY DEF PutStart, Idle
<1>2. Rest' = [objects EXCEPT ![id] = None]
  BY <1>1 DEF PutStart, Rest
<1>3. Consistent(Rest', entries')
  BY <1>2, RemoveConsistent DEF PutStart, InductiveInv, TypeOK
<1>4. MidPut'
  <2>1. \A i \in Index : ~(i < call'.at)
    BY <1>1, StoreAssumption DEF Index
  <2>2. QED BY <1>3, <2>1, StoreAssumption DEF MidPut, Consistent, IndexesAgree
<1>5. QED BY <1>1, <1>4 DEF InductiveInv, PutStart

----------------------------------------------------------------------------

\* One index of a put: whoever held the key is gone from every index.
LEMMA PutIndexInductive ==
  ASSUME NullKeysApart, InductiveInv, TypeOK', PutIndex
  PROVE  InductiveInv'
<1> DEFINE i == call.at
           k == KeyOf[i][call.value]
<1>1. call \in Calls /\ i \in Index /\ MidPut /\ call # Idle
  BY CallInProgress, CallFields DEF PutIndex, Index, InductiveInv
<1>2. /\ call'.at = i + 1 /\ call'.id = call.id /\ call'.value = call.value
      /\ call' # Idle
  BY <1>1, StoreAssumption DEF PutIndex, Calls, Idle, Index
<1>3. /\ objects \in Objects /\ entries \in Entries /\ Rest \in Objects
      /\ call.id \in Id /\ call.value \in Value /\ i \in Int /\ Index \subseteq Int
  BY <1>1, CallFields DEF InductiveInv, TypeOK, Rest, Objects, Index
<1>a. \A j \in Index : entries[j] = IF j < call.at THEN IndexOf(j, Rest) \cup {NewEntry(j)}
                                                ELSE IndexOf(j, Rest)
  BY <1>1 DEF MidPut
<1>4. entries[i] = IndexOf(i, Rest)
  <2>1. ~(i < call.at)
    BY <1>3
  <2>2. QED BY <1>1, <1>a, <2>1
<1>5. \A x \in Stored(Rest) : x # call.id /\ x \in Stored(objects) /\ Rest[x] = objects[x]
  BY <1>3 DEF Rest, Stored, Objects
<1>6. \A x \in Id : x \in Holders(i) <=> x \in Stored(Rest) /\ KeyOf[i][objects[x]] = k
  BY <1>4, <1>5, InIndexOf DEF Holders, Stored
<1>7. \A j \in Index : NewEntry(j)' = NewEntry(j)
  BY <1>2 DEF NewEntry
<1>8. CASE MustEvict(i)
  <2>1. PICK x \in Holders(i) :
          /\ objects' = [objects EXCEPT ![x] = None]
          /\ entries' = AddEntry(IF objects[x] # None
                                 THEN DropEntries(entries, x, objects[x])
                                 ELSE entries, i)
    BY <1>8 DEF PutIndex
  <2>2. x \in Id /\ x \in Stored(Rest) /\ x # call.id /\ objects[x] # None /\ objects[x] \in Value
    BY <1>3, <1>5, <1>6, <2>1 DEF Holders, Stored, Objects
  <2>3. Rest' = [Rest EXCEPT ![x] = None]
    BY <1>2, <1>3, <2>1, <2>2 DEF Rest, Objects
  <2>4. KeysUnique(Rest')
    <3>1. KeysUnique(Rest)
      BY <1>1 DEF MidPut
    <3>2. x \in Id /\ Rest \in Objects
      BY <1>3, <2>2
    <3>3. KeysUnique([Rest EXCEPT ![x] = None])
      BY <3>1, <3>2, KeysUniqueRemove
    <3>4. QED BY <2>3, <3>3
  <2>5. ASSUME NEW j \in Index
        PROVE  IndexOf(j, Rest') = IndexOf(j, Rest) \ {<<KeyOf[j][objects[x]], x>>}
    <3>1. x \in Id /\ Rest \in Objects /\ Rest[x] = objects[x] /\ Rest[x] # None
      BY <1>3, <1>5, <2>2
    <3>2. IndexOf(j, [Rest EXCEPT ![x] = None])
            = IndexOf(j, Rest) \ {<<KeyOf[j][Rest[x]], x>>}
      BY <3>1, IndexOfRemove
    <3>3. QED BY <2>3, <3>1, <3>2
  <2>6. ASSUME NEW j \in Index
        PROVE  entries'[j] = IF j < call'.at THEN IndexOf(j, Rest') \cup {NewEntry(j)}
                                             ELSE IndexOf(j, Rest')
    <3>1. NewEntry(j) # <<KeyOf[j][objects[x]], x>>
      BY <2>2 DEF NewEntry
    <3>2. entries[j] = IF j < i THEN IndexOf(j, Rest) \cup {NewEntry(j)}
                                ELSE IndexOf(j, Rest)
      BY <1>1 DEF MidPut
    <3>3. entries'[j] = (entries[j] \ {<<KeyOf[j][objects[x]], x>>})
                          \cup (IF j = i THEN {NewEntry(j)} ELSE {})
      BY <2>1, <2>2 DEF AddEntry, DropEntries, NewEntry
    <3>4. j < call'.at <=> j < i \/ j = i
      BY <1>2, <1>3
    <3>5. CASE j = i
      BY <2>5, <3>1, <3>2, <3>3, <3>4, <3>5, <1>3
    <3>6. CASE j # i
      BY <2>5, <3>1, <3>2, <3>3, <3>4, <3>6
    <3>7. QED BY <3>5, <3>6
  <2>7. ASSUME NEW j \in Unique, j < call'.at, call.value \notin HasNull[j],
               NEW y \in Stored(Rest'), objects'[y] \notin HasNull[j]
        PROVE  KeyOf[j][objects'[y]] # KeyOf[j][call.value]
    <3>1. y \in Stored(Rest) /\ y # x /\ objects'[y] = objects[y] /\ objects[y] = Rest[y]
      BY <1>3, <1>5, <2>1, <2>2, <2>3 DEF Stored, Objects
    <3>2. j \in Index
      BY StoreAssumption
    <3>3. CASE j < i
      BY <1>1, <2>7, <3>1, <3>3 DEF MidPut
    <3>4. CASE j = i
      <4>1. SUFFICES ASSUME KeyOf[i][objects[y]] = k PROVE FALSE
        BY <3>1, <3>4
      <4>2. KeyOf[i][objects[x]] = k
        BY <1>6, <2>1, <2>2
      <4>3. objects[x] \notin HasNull[i] /\ objects[y] \notin HasNull[i]
        BY <2>2, <2>7, <3>1, <3>4, <4>2, <1>3 DEF NullKeysApart
      <4>4. KeysUnique(Rest) /\ i \in Unique
        BY <1>1, <3>4 DEF MidPut
      <4>5. Rest[x] = objects[x] /\ Rest[y] = objects[y]
        BY <1>5, <2>2, <3>1
      <4>6. /\ Rest[x] \notin HasNull[i] /\ Rest[y] \notin HasNull[i]
            /\ x \in Stored(Rest) /\ y \in Stored(Rest) /\ x # y
        BY <2>2, <3>1, <4>3, <4>5
      <4>7. KeyOf[i][Rest[x]] # KeyOf[i][Rest[y]]
        BY <4>4, <4>6 DEF KeysUnique
      <4>8. QED BY <4>1, <4>2, <4>5, <4>7
    <3>5. j < i \/ j = i
      BY <1>2, <1>3, <2>7, <3>2
    <3>6. QED BY <3>3, <3>4, <3>5
  <2>8. MidPut'
    BY <1>2, <1>7, <2>4, <2>6, <2>7 DEF MidPut
  <2>9. QED BY <1>1, <1>2, <2>8 DEF InductiveInv, PutIndex
<1>9. CASE ~MustEvict(i)
  <2>1. objects' = objects /\ entries' = AddEntry(entries, i)
    BY <1>9 DEF PutIndex
  <2>2. Rest' = Rest
    BY <1>2, <2>1 DEF Rest
  <2>3. ASSUME NEW j \in Index
        PROVE  entries'[j] = IF j < call'.at THEN IndexOf(j, Rest') \cup {NewEntry(j)}
                                             ELSE IndexOf(j, Rest')
    <3>1. entries'[j] = entries[j] \cup (IF j = i THEN {NewEntry(j)} ELSE {})
      BY <1>3, <2>1 DEF AddEntry, NewEntry, Entries
    <3>2. entries[j] = IF j < i THEN IndexOf(j, Rest) \cup {NewEntry(j)}
                                ELSE IndexOf(j, Rest)
      BY <1>1 DEF MidPut
    <3>3. j < call'.at <=> j < i \/ j = i
      BY <1>2, <1>3
    <3>4. CASE j = i
      BY <1>3, <2>2, <3>1, <3>2, <3>3, <3>4
    <3>5. CASE j # i
      BY <2>2, <3>1, <3>2, <3>3, <3>5
    <3>6. QED BY <3>4, <3>5
  <2>4. ASSUME NEW j \in Unique, j < call'.at, call.value \notin HasNull[j],
               NEW y \in Stored(Rest'), objects'[y] \notin HasNull[j]
        PROVE  KeyOf[j][objects'[y]] # KeyOf[j][call.value]
    <3>1. y \in Stored(Rest) /\ objects'[y] = objects[y] /\ y \in Id
      BY <2>1, <2>2, <2>4 DEF Stored
    <3>2. j \in Index
      BY StoreAssumption
    <3>3. CASE j < i
      BY <1>1, <2>4, <3>1, <3>3 DEF MidPut
    <3>4. CASE j = i
      BY <1>6, <1>9, <2>4, <3>1, <3>4 DEF MustEvict
    <3>5. QED BY <1>2, <1>3, <2>4, <3>2, <3>3, <3>4
  <2>5. MidPut'
    BY <1>1, <1>2, <1>7, <2>2, <2>3, <2>4 DEF MidPut
  <2>6. QED BY <1>1, <1>2, <2>5 DEF InductiveInv, PutIndex
<1>10. QED BY <1>8, <1>9

\* The last write of a put completes the collection.
LEMMA PutFinishInductive ==
  ASSUME InductiveInv, TypeOK', PutFinish
  PROVE  InductiveInv'
<1>1. call \in Calls /\ MidPut /\ call.at = NumIndexes + 1 /\ txn = "open"
  BY CallInProgress, CallFields, StoreAssumption DEF PutFinish, InductiveInv, TypeOK
<1>2. call.id \in Id /\ call.value \in Value /\ objects \in Objects
  BY <1>1, CallFields DEF InductiveInv, TypeOK
<1>3. objects' = [objects EXCEPT ![call.id] = call.value] /\ entries' = entries
  BY DEF PutFinish
<1>4. ASSUME NEW i \in Index PROVE entries[i] = IndexOf(i, objects')
  <2>1. i < call.at
    BY <1>1, StoreAssumption DEF Index
  <2>2. entries[i] = IndexOf(i, Rest) \cup {NewEntry(i)}
    BY <1>1, <2>1 DEF MidPut
  <2>3. IndexOf(i, [objects EXCEPT ![call.id] = call.value])
          = IndexOf(i, Rest) \cup {NewEntry(i)}
    BY <1>2, IndexOfAdd DEF Rest, NewEntry
  <2>4. QED BY <1>3, <2>2, <2>3
<1>5. KeysUnique(objects')
  <2>1. \A x \in Stored(objects') :
          \/ x = call.id /\ objects'[x] = call.value
          \/ x # call.id /\ x \in Stored(Rest) /\ objects'[x] = objects[x] /\ Rest[x] = objects[x]
    BY <1>2, <1>3 DEF Rest, Stored, Objects
  <2>2. \A i \in Unique : i < call.at
    BY <1>1, StoreAssumption DEF Index
  <2>3. /\ KeysUnique(Rest)
        /\ \A i \in Unique : call.value \notin HasNull[i] =>
             \A x \in Stored(Rest) : objects[x] \notin HasNull[i]
                                      => KeyOf[i][objects[x]] # KeyOf[i][call.value]
    BY <1>1, <2>2 DEF MidPut
  <2>4. SUFFICES ASSUME NEW i \in Unique, NEW x \in Stored(objects'),
                        NEW y \in Stored(objects'), x # y,
                        objects'[x] \notin HasNull[i], objects'[y] \notin HasNull[i]
                 PROVE  KeyOf[i][objects'[x]] # KeyOf[i][objects'[y]]
    BY DEF KeysUnique
  <2>5. CASE x = call.id
    BY <2>1, <2>3, <2>4, <2>5
  <2>6. CASE y = call.id
    BY <2>1, <2>3, <2>4, <2>6
  <2>7. CASE x # call.id /\ y # call.id
    <3>1. /\ x \in Stored(Rest) /\ objects'[x] = Rest[x]
          /\ y \in Stored(Rest) /\ objects'[y] = Rest[y]
      BY <2>1, <2>7
    <3>2. QED BY <2>3, <2>4, <3>1 DEF KeysUnique
  <2>8. QED BY <2>5, <2>6, <2>7
<1>6. QED BY <1>1, <1>3, <1>4, <1>5 DEF InductiveInv, Consistent, IndexesAgree, PutFinish

----------------------------------------------------------------------------

LEMMA DeleteFromConsistent ==
  ASSUME InductiveInv, Consistent(objects, entries), NEW id \in Id, DeleteFrom(id)
  PROVE  Consistent(objects, entries)'
BY RemoveConsistent DEF DeleteFrom, InductiveInv, TypeOK

LEMMA RollbackInductive ==
  ASSUME InductiveInv, TypeOK', Rollback
  PROVE  InductiveInv'
BY DEF InductiveInv, Rollback

LEMMA NextInductive ==
  ASSUME NullKeysApart
  PROVE  InductiveInv /\ [Next]_vars => InductiveInv'
<1> SUFFICES ASSUME InductiveInv, [Next]_vars PROVE InductiveInv'
  OBVIOUS
<1>0. TypeOK /\ TypeOK'
  BY NextType DEF InductiveInv
<1>1. CASE UNCHANGED vars
  BY <1>1, <1>0 DEF vars, InductiveInv, MidPut, Rest, NewEntry, Consistent, IndexesAgree
<1>2. CASE BeginWrite
  BY <1>2, <1>0 DEF BeginWrite, InductiveInv
<1>3. CASE Commit
  BY <1>3, <1>0 DEF Commit, Free, Ready, InductiveInv
<1>4. CASE CommitBroken \/ CommitFails \/ Abort \/ InsertFinishEarly \/ Crash
  BY <1>4, <1>0, RollbackInductive DEF CommitBroken, CommitFails, Abort, InsertFinishEarly, Crash
<1>5. CASE Open \/ AutoIncrement \/ InsertFinish
  <2>1. UNCHANGED <<disk, objects, entries, txn, call>>
    BY <1>5 DEF Open, AutoIncrement, InsertFinish
  <2>2. QED
    BY <2>1, <1>0 DEF InductiveInv, MidPut, Rest, NewEntry, Consistent, IndexesAgree
<1>6. CASE Clear
  BY <1>6, <1>0, EmptyConsistent DEF Clear, Free, Ready, InductiveInv
<1>7. CASE OperationFails
  BY <1>7, <1>0 DEF OperationFails, InductiveInv
<1>8. CASE PutIndex
  BY <1>8, <1>0, PutIndexInductive
<1>9. CASE PutFinish
  BY <1>9, <1>0, PutFinishInductive
<1>10. ASSUME NEW count \in 0..MaxBatch, InsertBegin(count) PROVE InductiveInv'
  BY <1>10, <1>0 DEF InsertBegin, Free, Ready, InductiveInv
<1>11. ASSUME NEW id \in Id, NEW v \in Value, InsertSave(id, v) PROVE InductiveInv'
  BY <1>11, <1>0, PutStartInductive DEF InsertSave, Ready
<1>12. ASSUME NEW id \in Id, NEW u \in Update, UpdateObject(id, u) PROVE InductiveInv'
  <2>1. Apply[u][objects[id]] \in Value
    BY <1>12, <1>0, ApplyType DEF UpdateObject, TypeOK, Objects
  <2>2. QED BY <1>12, <1>0, <2>1, PutStartInductive DEF UpdateObject, Free, Ready
<1>13. ASSUME NEW id \in Id, DeleteObject(id) PROVE InductiveInv'
  <2>1. txn = "open" /\ call = Idle /\ Consistent(objects, entries)
    BY <1>13 DEF DeleteObject, Free, Ready, InductiveInv
  <2>2. Consistent(objects, entries)'
    BY <1>13, <2>1, DeleteFromConsistent DEF DeleteObject
  <2>3. QED BY <1>13, <1>0, <2>1, <2>2 DEF DeleteObject, InductiveInv
<1>14. ASSUME NEW id \in Id, QueryUpdateStep(id) PROVE InductiveInv'
  <2>1. CASE objects[id] = None
    BY <1>14, <1>0, <2>1 DEF QueryUpdateStep, InBulk, InductiveInv
  <2>2. CASE objects[id] # None
    <3>1. Apply[bulk.update][objects[id]] \in Value
      BY <1>14, <1>0, <2>2, ApplyType
         DEF QueryUpdateStep, InBulk, TypeOK, Objects, Bulks, NoBulk
    <3>2. QED BY <1>14, <1>0, <2>2, <3>1, PutStartInductive DEF QueryUpdateStep, InBulk
  <2>3. QED BY <2>1, <2>2
<1>15. ASSUME NEW id \in Id, QueryDeleteStep(id) PROVE InductiveInv'
  <2>1. txn = "open" /\ call = Idle /\ Consistent(objects, entries)
    BY <1>15 DEF QueryDeleteStep, InBulk, InductiveInv
  <2>2. Consistent(objects, entries)'
    BY <1>15, <2>1, DeleteFromConsistent DEF QueryDeleteStep
  <2>3. QED BY <1>15, <1>0, <2>1, <2>2 DEF QueryDeleteStep, InductiveInv
<1>16. ASSUME NEW ids \in SUBSET Stored(objects),
              QueryDeleteBegin(ids) \/ \E u \in Update : QueryUpdateBegin(ids, u)
       PROVE  InductiveInv'
  BY <1>16, <1>0 DEF QueryDeleteBegin, QueryUpdateBegin, Free, Ready, InductiveInv
<1>17. CASE QueryReturn
  BY <1>17, <1>0 DEF QueryReturn, InductiveInv
<1>18. QED
  BY <1>1, <1>2, <1>3, <1>4, <1>5, <1>6, <1>7, <1>8, <1>9, <1>10, <1>11, <1>12,
     <1>13, <1>14, <1>15, <1>16, <1>17 DEF Next

LEMMA Inductive ==
  ASSUME NullKeysApart
  PROVE  Spec => []InductiveInv
BY InitInductive, NextInductive, PTL DEF Spec

\* The committed indexes list exactly the committed objects, after any mix of
\* puts, deletes, clears, failures, aborts and crashes.
THEOREM IndexesAgreeWithObjects ==
  ASSUME NullKeysApart
  PROVE  Spec => []DiskIndexesAgree
<1>1. InductiveInv => DiskIndexesAgree
  BY DEF InductiveInv, Consistent, DiskIndexesAgree
<1>2. QED BY <1>1, Inductive, PTL

\* No two committed objects share the key of a unique index.
THEOREM UniqueIndexesHold ==
  ASSUME NullKeysApart
  PROVE  Spec => []DiskKeysUnique
<1>1. InductiveInv => DiskKeysUnique
  BY DEF InductiveInv, Consistent, DiskKeysUnique
<1>2. QED BY <1>1, Inductive, PTL

\* The transaction that makes the changes reads them consistently between calls.
THEOREM TransactionViewConsistent ==
  ASSUME NullKeysApart
  PROVE  Spec => []ViewConsistent
<1>1. InductiveInv => ViewConsistent
  BY DEF InductiveInv, Consistent, ViewConsistent, Ready
<1>2. QED BY <1>1, Inductive, PTL

----------------------------------------------------------------------------

-----------------------------------------------------------------------------
(* The auto-increment counter.                                             *)

CounterInv ==
  /\ TypeOK
  /\ CounterAboveIds
  /\ ~running => txn = "none"
  /\ call # Idle => txn = "open"
  /\ txn = "none" => objects = disk.objects

LEMMA InitCounter == Init => CounterInv
BY InitType DEF Init, CounterInv, CounterAboveIds, Stored

\* While the transaction, the objects and the counter do not grow apart, the
\* invariant is kept: no id is added and the counter is not lowered.
LEMMA CounterKept ==
  ASSUME CounterInv, TypeOK', running' => running,
         nextId' >= nextId, Stored(objects') \subseteq Stored(objects) \cup Stored(disk.objects),
         Stored(disk'.objects) \subseteq Stored(objects) \cup Stored(disk.objects)
  PROVE  CounterAboveIds'
<1>1. nextId \in Int /\ nextId' \in Int
  BY StoreAssumption DEF CounterInv, TypeOK
<1>2. ASSUME running', NEW id \in Stored(objects') \cup Stored(disk'.objects)
      PROVE  id < nextId'
  <2>1. id \in Int /\ id < nextId
    BY <1>2, StoreAssumption DEF CounterInv, CounterAboveIds, Stored
  <2>2. QED BY <1>1, <2>1
<1>3. QED BY <1>2 DEF CounterAboveIds

LEMMA NextCounter ==
  ASSUME MaxId \notin Id
  PROVE  CounterInv /\ [Next]_vars => CounterInv'
<1> SUFFICES ASSUME CounterInv, [Next]_vars PROVE CounterInv'
  OBVIOUS
<1>0. TypeOK /\ TypeOK' /\ nextId \in Int /\ Id \subseteq Int
  BY NextType, StoreAssumption DEF CounterInv, TypeOK
<1>1. ASSUME UNCHANGED <<disk, objects, txn, call, nextId, running>> PROVE CounterInv'
  BY <1>0, <1>1 DEF CounterInv, CounterAboveIds
<1>2. CASE UNCHANGED vars
  BY <1>1, <1>2 DEF vars
<1>3. CASE BeginWrite
  BY <1>0, <1>3, CounterKept DEF BeginWrite, CounterInv
<1>4. CASE Commit
  BY <1>0, <1>4, CounterKept DEF Commit, Free, Ready, CounterInv
<1>5. CASE CommitBroken \/ CommitFails \/ Abort \/ InsertFinishEarly \/ Crash
  BY <1>0, <1>5, CounterKept
     DEF CommitBroken, CommitFails, Abort, InsertFinishEarly, Crash, Rollback, CounterInv
<1>6. CASE Open
  <2>1. objects' = objects /\ disk' = disk /\ objects = disk.objects /\ UNCHANGED <<txn, call>>
    BY <1>6 DEF Open, CounterInv
  <2>2. ASSUME NEW x \in Stored(disk.objects) PROVE x < nextId'
    <3>1. PICK id \in Id : IsLast(id, disk.objects) /\ nextId' = Succ(id)
      BY <1>6 DEF Open
    <3>2. x \in Int /\ id \in Int /\ x <= id /\ nextId' = id + 1
      BY <1>0, <3>1 DEF IsLast, Succ, Stored
    <3>3. QED BY <3>2
  <2>3. QED BY <1>0, <1>6, <2>1, <2>2 DEF CounterInv, CounterAboveIds, Open
<1>7. CASE AutoIncrement
  <2>1. nextId' = nextId + 1
    BY <1>7, StoreAssumption, <1>0 DEF AutoIncrement, Succ
  <2>2. QED BY <1>0, <1>7, <2>1, CounterKept DEF AutoIncrement, CounterInv
<1>8. CASE Clear
  <2>1. Stored(objects') = {}
    BY <1>8 DEF Clear, Stored
  <2>2. UNCHANGED <<disk, txn, call, nextId, running>> /\ txn = "open"
    BY <1>8 DEF Clear, Free, Ready
  <2>3. CounterAboveIds'
    BY <1>0, <2>1, <2>2, CounterKept
  <2>4. QED BY <1>0, <2>2, <2>3 DEF CounterInv
<1>9. ASSUME NEW id \in Id PROVE Bumped(id) \in Int /\ Bumped(id) >= nextId /\ id < Bumped(id)
  BY <1>0, StoreAssumption DEF Bumped, Succ
<1>10. CASE OperationFails
  <2>1. call # Idle => call.id \in Id
    BY <1>0, CallFields DEF TypeOK, Calls
  <2>2. nextId' >= nextId
    <3>1. \/ UNCHANGED nextId
          \/ call.at = NumIndexes + 1 /\ call # Idle /\ nextId' = Bumped(call.id)
      BY <1>10 DEF OperationFails
    <3>2. CASE nextId' = nextId
      BY <1>0, <3>2
    <3>3. CASE call # Idle /\ nextId' = Bumped(call.id)
      BY <1>9, <2>1, <3>3
    <3>4. QED BY <3>1, <3>2, <3>3
  <2>3. QED BY <1>0, <1>10, <2>2, CounterKept DEF OperationFails, CounterInv
<1>11. ASSUME NEW x, objects' = [objects EXCEPT ![x] = None]
       PROVE  Stored(objects') \subseteq Stored(objects)
  BY <1>0, <1>11 DEF Stored, TypeOK, Objects
<1>12. CASE PutIndex
  <2>1. call.at # 0 /\ UNCHANGED <<disk, txn, nextId, running>>
    BY <1>12, StoreAssumption DEF PutIndex, Index
  <2>2. txn = "open"
    BY <2>1 DEF CounterInv, Idle
  <2>3. Stored(objects') \subseteq Stored(objects)
    BY <1>11, <1>12 DEF PutIndex
  <2>4. QED BY <1>0, <2>1, <2>2, <2>3, CounterKept DEF CounterInv
<1>13. CASE PutFinish
  <2>1. call \in Calls /\ txn = "open"
    BY <1>0, <1>13, CallInProgress, CallFields, StoreAssumption DEF PutFinish, CounterInv
  <2>2. Stored(objects') \subseteq Stored(objects) \cup {call.id}
    BY <1>0, <1>13 DEF PutFinish, Stored, TypeOK, Objects
  <2>3. nextId' \in Int /\ nextId' >= nextId /\ call.id < nextId' /\ call.id \in Id
    BY <1>9, <1>13, <2>1, CallFields DEF PutFinish
  <2>4. ASSUME running, NEW id \in Stored(objects') \cup Stored(disk.objects)
        PROVE  id < nextId'
    <3>1. id \in Int /\ (id = call.id \/ id < nextId)
      BY <1>0, <2>2, <2>4 DEF CounterInv, CounterAboveIds, Stored
    <3>2. QED BY <1>0, <2>3, <3>1
  <2>5. CounterAboveIds'
    BY <1>13, <2>4 DEF PutFinish, CounterAboveIds
  <2>6. QED BY <1>0, <1>13, <2>1, <2>5 DEF PutFinish, CounterInv
<1>14. ASSUME NEW id, NEW v, PutStart(id, v), txn = "open" PROVE CounterInv'
  BY <1>0, <1>14, CounterKept DEF PutStart, CounterInv
<1>15. ASSUME NEW id, DeleteFrom(id), txn = "open", UNCHANGED <<disk, txn, call, nextId, running>>
       PROVE  CounterInv'
  <2>1. Stored(objects') \subseteq Stored(objects)
    BY <1>11, <1>15 DEF DeleteFrom
  <2>2. CounterAboveIds'
    BY <1>0, <1>15, <2>1, CounterKept
  <2>3. QED BY <1>0, <1>15, <2>2 DEF CounterInv
<1>16. CASE InsertFinish \/ QueryReturn \/ (\E count \in 0..MaxBatch : InsertBegin(count))
  BY <1>1, <1>16 DEF InsertFinish, QueryReturn, InsertBegin
<1>17. ASSUME NEW id \in Id, NEW v \in Value, InsertSave(id, v) PROVE CounterInv'
  BY <1>14, <1>17 DEF InsertSave, Ready
<1>18. ASSUME NEW id \in Id, NEW u \in Update, UpdateObject(id, u) PROVE CounterInv'
  BY <1>14, <1>18 DEF UpdateObject, Free, Ready
<1>19. ASSUME NEW id \in Id, DeleteObject(id) \/ QueryDeleteStep(id) PROVE CounterInv'
  BY <1>15, <1>19 DEF DeleteObject, QueryDeleteStep, InBulk, Free, Ready
<1>20. ASSUME NEW id \in Id, QueryUpdateStep(id) PROVE CounterInv'
  BY <1>1, <1>14, <1>20 DEF QueryUpdateStep, InBulk
<1>21. ASSUME NEW ids \in SUBSET Stored(objects),
              QueryDeleteBegin(ids) \/ \E u \in Update : QueryUpdateBegin(ids, u)
       PROVE  CounterInv'
  BY <1>1, <1>21 DEF QueryDeleteBegin, QueryUpdateBegin
<1>22. QED
  BY <1>2, <1>3, <1>4, <1>5, <1>6, <1>7, <1>8, <1>10, <1>12, <1>13, <1>16,
     <1>17, <1>18, <1>19, <1>20, <1>21 DEF Next

\* auto_increment never returns an id that is stored or about to be committed,
\* as long as i64::MAX itself is not used as an id: after that one, the next id
\* computed on restart wraps to i64::MIN.
THEOREM AutoIncrementFresh ==
  ASSUME MaxId \notin Id
  PROVE  Spec => []CounterAboveIds
<1>1. CounterInv => CounterAboveIds
  BY DEF CounterInv
<1>2. QED BY <1>1, InitCounter, NextCounter, PTL DEF Spec

-----------------------------------------------------------------------------
(* The collection with its indexes implements the transactional map: every *)
(* step of NativeStore is a step of TxnMap or leaves the map as it is, for *)
(* every number of indexes, ids and objects.                               *)

LEMMA InitMaps == Init => Map!MapInit
BY DEF Init, View, Map!MapInit

\* The first write of a put is the put of the map: the rivals in every unique
\* index vanish from the view together with the old object.
LEMMA PutStartMaps ==
  ASSUME InductiveInv, Ready \/ InBulk("update"), NEW id \in Id, NEW v \in Value, PutStart(id, v)
  PROVE  Map!MapPut(id, v)
<1>1. txn = "open" /\ call = Idle /\ View = objects /\ objects \in Objects
  BY DEF Ready, InBulk, View, InductiveInv, TypeOK
<1>2. /\ call' = [at |-> 1, id |-> id, value |-> v] /\ call' # Idle
      /\ objects' = objects /\ disk' = disk /\ txn' = txn
  BY DEF PutStart, Idle
<1>3. ASSUME NEW x \in Id
      PROVE  Doomed(x)' <=> Map!Conflict(objects[x], v)
  <2>1. call'.at = 1 /\ call'.value = v
    BY <1>2
  <2>2. Unique \subseteq 1..NumIndexes
    BY StoreAssumption DEF Index
  <2> QED BY <1>2, <2>1, <2>2 DEF Doomed, Map!Conflict
<1>4. View' = [x \in Id |-> IF x = id THEN v
                            ELSE IF objects[x] # None /\ Doomed(x)' THEN None
                            ELSE objects[x]]
  BY <1>1, <1>2 DEF View
<1> QED BY <1>1, <1>2, <1>3, <1>4 DEF Map!MapPut

\* One index of a put takes away what the view has already lost.
LEMMA PutIndexMaps ==
  ASSUME NullKeysApart, InductiveInv, PutIndex
  PROVE  View' = View
<1> DEFINE i == call.at
<1>1. call \in Calls /\ i \in Index /\ MidPut /\ call # Idle /\ txn = "open"
  BY CallInProgress, CallFields DEF PutIndex, Index, InductiveInv, TypeOK
<1>2. /\ call'.at = i + 1 /\ call'.id = call.id /\ call'.value = call.value
      /\ call' # Idle /\ txn' = txn
  BY <1>1, StoreAssumption DEF PutIndex, Calls, Idle, Index
<1>3. objects \in Objects /\ call.id \in Id /\ call.value \in Value /\ i \in Int /\ Rest \in Objects
  BY <1>1, CallFields DEF InductiveInv, TypeOK, Rest, Objects, Index
<1>4. entries[i] = IndexOf(i, Rest)
  <2>1. \A j \in Index : entries[j] = IF j < call.at THEN IndexOf(j, Rest) \cup {NewEntry(j)}
                                                   ELSE IndexOf(j, Rest)
    BY <1>1 DEF MidPut
  <2>2. ~(i < call.at)
    BY <1>3
  <2> QED BY <1>1, <2>1, <2>2
<1>5. \A x \in Id \ {call.id} : x \in Stored(Rest) <=> objects[x] # None
  BY <1>3 DEF Rest, Stored, Objects
<1>6. \A x \in Stored(Rest) : x \in Id /\ x # call.id /\ Rest[x] = objects[x]
  BY <1>3 DEF Rest, Stored, Objects
<1>7. \A x \in Id : x \in Holders(i) <=> x \in Stored(Rest) /\ KeyOf[i][objects[x]] = KeyOf[i][call.value]
  BY <1>4, <1>6, InIndexOf DEF Holders, Stored
<1> DEFINE Here(x) == /\ i \in Unique /\ call.value \notin HasNull[i] /\ objects[x] \notin HasNull[i]
                      /\ KeyOf[i][objects[x]] = KeyOf[i][call.value]
<1>8. ASSUME NEW x \in Id, objects'[x] = objects[x]
      PROVE  Doomed(x) <=> Here(x) \/ Doomed(x)'
  <2>1. i..NumIndexes = {i} \cup (i+1)..NumIndexes
    BY <1>1, StoreAssumption DEF Index
  <2> QED BY <1>2, <1>8, <2>1 DEF Doomed
<1> HIDE DEF Here
<1>9. ASSUME NEW y \in Id, y # call.id, objects'[y] = objects[y], objects[y] # None => ~Here(y)
      PROVE  View'[y] = View[y]
  BY <1>1, <1>2, <1>8, <1>9 DEF View
<1>10. ASSUME NEW y \in Id, y = call.id
       PROVE  View'[y] = View[y]
  BY <1>1, <1>2, <1>10 DEF View
<1>11. ASSUME NEW y \in Id, y # call.id PROVE View'[y] = View[y]
  <2>1. CASE MustEvict(i)
    <3>1. PICK x \in Holders(i) : objects' = [objects EXCEPT ![x] = None]
      BY <2>1 DEF PutIndex
    <3>2. x \in Stored(Rest) /\ KeyOf[i][objects[x]] = KeyOf[i][call.value] /\ x \in Id /\ x # call.id
      BY <1>6, <1>7, <3>1 DEF Holders
    <3>3. objects[x] # None /\ objects[x] \in Value
      BY <1>3, <1>5, <3>2 DEF Objects
    <3>4. Here(x)
      BY <1>3, <2>1, <3>2, <3>3 DEF Here, MustEvict, NullKeysApart
    <3>5. CASE y = x
      <4>1. Doomed(x)
        <5>1. i \in i..NumIndexes
          BY <1>1, StoreAssumption DEF Index
        <5> QED BY <3>4, <5>1 DEF Doomed, Here
      <4>2. View[x] = None
        BY <1>1, <3>2, <3>3, <4>1 DEF View
      <4>3. objects'[x] = None
        BY <1>3, <3>1, <3>2 DEF Objects
      <4> QED BY <1>1, <1>2, <3>2, <3>5, <4>2, <4>3 DEF View
    <3>6. CASE y # x
      <4>1. objects'[y] = objects[y]
        BY <1>3, <3>1, <3>6 DEF Objects
      <4>2. objects[y] # None => ~Here(y)
        <5>1. SUFFICES ASSUME objects[y] # None, Here(y) PROVE FALSE
          OBVIOUS
        <5>2. y \in Stored(Rest)
          BY <1>5, <1>11, <5>1
        <5>3. KeysUnique(Rest)
          BY <1>1 DEF MidPut
        <5> QED BY <1>6, <3>2, <3>4, <3>6, <5>1, <5>2, <5>3 DEF KeysUnique, Here
      <4> QED BY <1>9, <1>11, <4>1, <4>2
    <3> QED BY <3>5, <3>6
  <2>2. CASE ~MustEvict(i)
    <3>1. objects' = objects
      BY <2>2 DEF PutIndex
    <3>2. objects[y] # None => ~Here(y)
      BY <1>5, <1>7, <1>11, <2>2 DEF MustEvict, Here
    <3> QED BY <1>9, <1>11, <3>1, <3>2
  <2> QED BY <2>1, <2>2
<1>12. View = [y \in Id |-> View[y]] /\ View' = [y \in Id |-> View'[y]]
  BY <1>1, <1>2 DEF View
<1> QED BY <1>10, <1>11, <1>12

\* When a put stores its object, nobody is left to evict.
LEMMA PutFinishMaps ==
  ASSUME InductiveInv, PutFinish
  PROVE  View' = View
<1>1. call \in Calls /\ call.at = NumIndexes + 1 /\ txn = "open" /\ call # Idle
  BY CallInProgress, CallFields, StoreAssumption DEF PutFinish, InductiveInv, TypeOK
<1>2. objects \in Objects /\ call.id \in Id
  BY <1>1, CallFields DEF InductiveInv, TypeOK
<1>3. \A x : ~Doomed(x)
  <2>1. (NumIndexes + 1)..NumIndexes = {}
    BY StoreAssumption
  <2> QED BY <1>1, <2>1 DEF Doomed
<1>4. View = [objects EXCEPT ![call.id] = call.value]
  BY <1>1, <1>2, <1>3 DEF View, Objects
<1>5. View' = objects' /\ objects' = [objects EXCEPT ![call.id] = call.value]
  BY <1>1 DEF PutFinish, View
<1> QED BY <1>4, <1>5

LEMMA DeleteFromMaps ==
  ASSUME InductiveInv, txn = "open", call = Idle, NEW id \in Id, DeleteFrom(id),
         UNCHANGED <<disk, txn, call>>
  PROVE  Map!MapDelete(id)
BY DEF DeleteFrom, View, Map!MapDelete

\* Losing the transaction loses the changes, if there was one.
LEMMA RollbackMaps ==
  ASSUME InductiveInv, Rollback
  PROVE  Map!MapRollback \/ UNCHANGED Map!mapVars
BY DEF InductiveInv, Rollback, View, Map!MapRollback, Map!mapVars

\* Every step of the engine is a step of the map or a stutter.
LEMMA NextMaps ==
  ASSUME NullKeysApart
  PROVE  InductiveInv /\ [Next]_vars => [Map!MapNext]_Map!mapVars
<1> SUFFICES ASSUME InductiveInv, [Next]_vars PROVE [Map!MapNext]_Map!mapVars
  OBVIOUS
<1> USE DEF Map!mapVars
<1>1. CASE BeginWrite
  <2>1. Map!MapBegin
    BY <1>1 DEF BeginWrite, InductiveInv, View, Map!MapBegin
  <2> QED BY <2>1 DEF Map!MapNext
<1>2. CASE Commit
  <2>1. Map!MapCommit
    BY <1>2 DEF Commit, Free, Ready, View, Map!MapCommit
  <2> QED BY <2>1 DEF Map!MapNext
<1>3. CASE CommitBroken \/ CommitFails \/ Abort \/ Crash \/ InsertFinishEarly
  BY <1>3, RollbackMaps DEF CommitBroken, CommitFails, Abort, Crash, InsertFinishEarly, Map!MapNext
<1>4. CASE Open \/ AutoIncrement \/ InsertFinish \/ QueryReturn
  BY <1>4 DEF Open, AutoIncrement, InsertFinish, QueryReturn, View, Doomed
<1>5. CASE Clear
  <2>1. Map!MapClear
    BY <1>5 DEF Clear, Free, Ready, View, Map!MapClear
  <2> QED BY <2>1 DEF Map!MapNext
<1>6. CASE OperationFails
  <2>1. Map!MapFail
    BY <1>6 DEF OperationFails, View, Map!MapFail
  <2> QED BY <2>1 DEF Map!MapNext
<1>7. CASE PutIndex
  BY <1>7, PutIndexMaps DEF PutIndex
<1>8. CASE PutFinish
  BY <1>8, PutFinishMaps DEF PutFinish
<1>9. ASSUME NEW count \in 0..MaxBatch, InsertBegin(count) PROVE UNCHANGED Map!mapVars
  BY <1>9 DEF InsertBegin, View, Doomed
<1>10. ASSUME NEW id \in Id, NEW v \in Value, InsertSave(id, v) PROVE Map!MapNext
  <2>1. Map!MapPut(id, v)
    BY <1>10, PutStartMaps DEF InsertSave
  <2> QED BY <2>1 DEF Map!MapNext
<1>11. ASSUME NEW id \in Id, NEW u \in Update, UpdateObject(id, u) PROVE Map!MapNext
  <2>1. Apply[u][objects[id]] \in Value
    BY <1>11, StoreAssumption DEF UpdateObject, InductiveInv, TypeOK, Objects
  <2>2. Map!MapPut(id, Apply[u][objects[id]])
    BY <1>11, <2>1, PutStartMaps DEF UpdateObject, Free
  <2> QED BY <2>1, <2>2 DEF Map!MapNext
<1>12. ASSUME NEW id \in Id, DeleteObject(id) PROVE Map!MapNext
  <2>1. Map!MapDelete(id)
    BY <1>12, DeleteFromMaps DEF DeleteObject, Free, Ready
  <2> QED BY <2>1 DEF Map!MapNext
<1>13. ASSUME NEW id \in Id, QueryUpdateStep(id) PROVE [Map!MapNext]_Map!mapVars
  <2>1. CASE objects[id] # None
    <3>1. bulk.update \in Update
      BY <1>13 DEF QueryUpdateStep, InBulk, InductiveInv, TypeOK, Bulks, NoBulk
    <3>2. Apply[bulk.update][objects[id]] \in Value /\ PutStart(id, Apply[bulk.update][objects[id]])
      BY <1>13, <2>1, <3>1, StoreAssumption DEF QueryUpdateStep, InductiveInv, TypeOK, Objects
    <3>3. Map!MapPut(id, Apply[bulk.update][objects[id]])
      BY <1>13, <3>2, PutStartMaps DEF QueryUpdateStep
    <3> QED BY <3>2, <3>3 DEF Map!MapNext
  <2>2. CASE objects[id] = None
    BY <1>13, <2>2 DEF QueryUpdateStep, View, Doomed
  <2> QED BY <2>1, <2>2
<1>14. ASSUME NEW id \in Id, QueryDeleteStep(id) PROVE Map!MapNext
  <2>1. Map!MapDelete(id)
    BY <1>14, DeleteFromMaps DEF QueryDeleteStep, InBulk
  <2> QED BY <2>1 DEF Map!MapNext
<1>15. ASSUME NEW ids \in SUBSET Stored(objects), QueryDeleteBegin(ids)
       PROVE  UNCHANGED Map!mapVars
  BY <1>15 DEF QueryDeleteBegin, View, Doomed
<1>16. ASSUME NEW ids \in SUBSET Stored(objects), NEW u \in Update, QueryUpdateBegin(ids, u)
       PROVE  UNCHANGED Map!mapVars
  BY <1>16 DEF QueryUpdateBegin, View, Doomed
<1>17. CASE UNCHANGED vars
  BY <1>17 DEF vars, View, Doomed
<1> QED
  BY <1>1, <1>2, <1>3, <1>4, <1>5, <1>6, <1>7, <1>8, <1>9, <1>10, <1>11, <1>12, <1>13, <1>14,
     <1>15, <1>16, <1>17 DEF Next

\* Every behaviour of put, update, delete, clear and their bulk forms, with
\* failures, aborts and crashes anywhere, is one of a map in which a put evicts
\* every rival at once and a transaction happens as a whole or not at all.
THEOREM StoreImplementsMap ==
  ASSUME NullKeysApart
  PROVE  Spec => ImplementsTxnMap
<1>1. Init => Map!MapInit
  BY InitMaps
<1>2. InductiveInv /\ [Next]_vars => [Map!MapNext]_Map!mapVars
  BY NextMaps
<1> QED BY <1>1, <1>2, Inductive, PTL DEF Spec, ImplementsTxnMap, Map!MapSpec
=============================================================================
