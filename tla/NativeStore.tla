---------------------------- MODULE NativeStore -----------------------------
(***************************************************************************)
(* One collection of the native (MDBX) engine: NativeCollection, its       *)
(* NativeIndexes, the single write transaction (NativeTxn) and the bulk    *)
(* insert session that owns it (NativeInsert).                             *)
(*                                                                         *)
(* MDBX lets one write transaction run at a time and gives it a private    *)
(* copy of the data, `objects' and `entries' here; `disk' is what the last *)
(* commit left and what every reader and every restart sees.  A put is     *)
(* several writes to several databases, any of which can fail, so it is    *)
(* taken one index at a time; `call' is its program counter.               *)
(***************************************************************************)
EXTENDS Integers, FiniteSets

CONSTANTS
  Id,          \* object ids, a set of integers
  Value,       \* object contents
  None,        \* no object
  NumIndexes,  \* the indexes of the schema are 1..NumIndexes, in order
  Unique,      \* the unique ones
  Key,         \* index keys
  KeyOf,       \* KeyOf[i][v]: the key create_key computes for object v
  HasNull,     \* HasNull[i]: the objects for which it reports contains_null
  Update,      \* property updates
  Apply,       \* Apply[u][v]: the updated object, None for IllegalArgument
  MinId,       \* i64::MIN
  MaxId,       \* i64::MAX
  MaxBatch     \* bound on the size of one insert session

Index == 1..NumIndexes

ASSUME StoreAssumption ==
  /\ None \notin Value
  /\ MinId \in Int /\ MaxId \in Int
  /\ MinId <= 0 /\ 1 < MaxId
  /\ Id \subseteq MinId..MaxId
  /\ NumIndexes \in Nat
  /\ Unique \subseteq Index
  /\ KeyOf \in [Index -> [Value -> Key]]
  /\ HasNull \in [Index -> SUBSET Value]
  /\ Apply \in [Update -> [Value -> Value \cup {None}]]
  /\ MaxBatch \in Nat

VARIABLES
  disk,        \* the committed databases: [objects, entries]
  objects,     \* the collection's database in the write transaction
  entries,     \* entries[i]: the <<key, id>> pairs of index i in it
  txn,         \* "none", "open", or "broken" once an operation failed
  call,        \* the put in progress: its object and the index it is at
  bulk,        \* the query_update or query_delete in progress
  remaining,   \* objects an insert session still expects, or NoInsert
  nextId,      \* NativeCollection::auto_increment
  running      \* the instance is open

vars == <<disk, objects, entries, txn, call, bulk, remaining, nextId, running>>

-----------------------------------------------------------------------------
NoInsert == -1
Idle     == [at |-> 0, id |-> None, value |-> None]
NoBulk   == [kind |-> "none", ids |-> {}, update |-> None]
Bulks    == {NoBulk} \cup [kind : {"delete"}, ids : SUBSET Id, update : {None}]
                      \cup [kind : {"update"}, ids : SUBSET Id, update : Update]

Objects == [Id -> Value \cup {None}]
Entries == [Index -> SUBSET (Key \X Id)]

Stored(o) == {id \in Id : o[id] # None}

\* i64 addition: `id + 1' and fetch_add wrap in a release build.
Succ(n) == IF n = MaxId THEN MinId ELSE n + 1

\* NativeIndex::delete_for_object in every index, for object v under id.
DropEntries(e, id, v) == [i \in Index |-> e[i] \ {<<KeyOf[i][v], id>>}]

\* What NativeCollection::update_auto_increment leaves in the counter.
Bumped(id) == IF Succ(id) > nextId THEN Succ(id) ELSE nextId

\* The cursor's last key, if there is any.
IsLast(id, o) == id \in Stored(o) /\ \A x \in Stored(o) : x <= id

-----------------------------------------------------------------------------
Init ==
  /\ disk = [objects |-> [id \in Id |-> None], entries |-> [i \in Index |-> {}]]
  /\ objects = disk.objects
  /\ entries = disk.entries
  /\ txn = "none"
  /\ call = Idle
  /\ bulk = NoBulk
  /\ remaining = NoInsert
  /\ nextId = 1
  /\ running = TRUE

\* The transaction can take a call: none is under way in it.
Ready == txn = "open" /\ call = Idle /\ bulk = NoBulk

\* ... and no insert session has taken it over.
Free == Ready /\ remaining = NoInsert

BeginWrite ==
  /\ running /\ txn = "none"
  /\ txn' = "open"
  /\ UNCHANGED <<disk, objects, entries, call, bulk, remaining, nextId, running>>

-----------------------------------------------------------------------------
(* put: drop the old object's entries; for each index evict the object     *)
(* that holds the unique key and add the new entry; store the object.      *)

\* Mutant: the old object's entries stay behind.
PutStartKeepsEntries(id, v) ==
  /\ call' = [at |-> 1, id |-> id, value |-> v]
  /\ UNCHANGED <<disk, objects, entries, txn, nextId, running>>

PutStart(id, v) ==
  /\ call' = [at |-> 1, id |-> id, value |-> v]
  /\ entries' = IF objects[id] # None THEN DropEntries(entries, id, objects[id])
                                      ELSE entries
  /\ UNCHANGED <<disk, objects, txn, nextId, running>>

\* The ids listed in index i under the key of the object being put.
Holders(i) == {x \in Id : <<KeyOf[i][call.value], x>> \in entries[i]}

\* Mutant: an object that is already stored is taken to hold its keys.
MustEvictOnInsert(i) ==
  /\ i \in Unique /\ call.value \notin HasNull[i] /\ Holders(i) # {}
  /\ objects[call.id] = None

MustEvict(i) == i \in Unique /\ call.value \notin HasNull[i] /\ Holders(i) # {}

AddEntry(e, i) == [e EXCEPT ![i] = @ \cup {<<KeyOf[i][call.value], call.id>>}]

\* create_for_object deletes the first entry the cursor finds under the key,
\* whichever of the key's duplicates that is.
PutIndex ==
  /\ call.at \in Index
  /\ \/ /\ MustEvict(call.at)
        /\ \E x \in Holders(call.at) :
             /\ objects' = [objects EXCEPT ![x] = None]
             /\ entries' = AddEntry(IF objects[x] # None
                                    THEN DropEntries(entries, x, objects[x])
                                    ELSE entries, call.at)
     \/ /\ ~MustEvict(call.at)
        /\ entries' = AddEntry(entries, call.at)
        /\ UNCHANGED objects
  /\ call' = [call EXCEPT !.at = @ + 1]
  /\ UNCHANGED <<disk, txn, bulk, remaining, nextId, running>>

\* Mutant: every put counts as a save.
PutFinishCountsAll ==
  /\ call.at = NumIndexes + 1
  /\ objects' = [objects EXCEPT ![call.id] = call.value]
  /\ nextId' = Bumped(call.id)
  /\ remaining' = remaining - 1
  /\ call' = Idle
  /\ UNCHANGED <<disk, entries, txn, bulk, running>>

PutFinish ==
  /\ call.at = NumIndexes + 1
  /\ objects' = [objects EXCEPT ![call.id] = call.value]
  /\ nextId' = Bumped(call.id)
  /\ remaining' = IF remaining = NoInsert THEN NoInsert ELSE remaining - 1
  /\ call' = Idle
  /\ UNCHANGED <<disk, entries, txn, bulk, running>>

-----------------------------------------------------------------------------
(* NativeInsert: a session of `count' saves that owns the transaction.     *)

InsertBegin(count) ==
  /\ Free
  /\ remaining' = count
  /\ UNCHANGED <<disk, objects, entries, txn, call, bulk, nextId, running>>

InsertSave(id, v) ==
  /\ Ready /\ remaining > 0
  /\ PutStart(id, v)
  /\ UNCHANGED <<bulk, remaining>>

\* Dropping the transaction undoes it, whoever drops it.
Rollback ==
  /\ objects' = disk.objects
  /\ entries' = disk.entries
  /\ txn' = "none"
  /\ call' = Idle
  /\ bulk' = NoBulk
  /\ remaining' = NoInsert
  /\ UNCHANGED disk

InsertFinish ==
  /\ Ready /\ remaining = 0
  /\ remaining' = NoInsert
  /\ UNCHANGED <<disk, objects, entries, txn, call, bulk, nextId, running>>

\* InsertIncomplete: finish consumed the session and with it the transaction.
InsertFinishEarly ==
  /\ txn # "none" /\ call = Idle /\ remaining > 0
  /\ Rollback
  /\ UNCHANGED <<nextId, running>>

-----------------------------------------------------------------------------
(* Operations on single objects and on the results of a query.             *)

UpdateObject(id, u) ==
  /\ Free
  /\ objects[id] # None /\ Apply[u][objects[id]] # None
  /\ PutStart(id, Apply[u][objects[id]])
  /\ UNCHANGED <<bulk, remaining>>

\* Mutant: the object goes, its index entries stay.
DeleteObjectOnly(id) ==
  /\ objects' = [objects EXCEPT ![id] = None]
  /\ UNCHANGED entries

DeleteFrom(id) ==
  /\ objects' = [objects EXCEPT ![id] = None]
  /\ entries' = IF objects[id] # None THEN DropEntries(entries, id, objects[id])
                                      ELSE entries

DeleteObject(id) ==
  /\ Free
  /\ DeleteFrom(id)
  /\ UNCHANGED <<disk, txn, call, bulk, remaining, nextId, running>>

Clear ==
  /\ Free
  /\ objects' = [id \in Id |-> None]
  /\ entries' = [i \in Index |-> {}]
  /\ UNCHANGED <<disk, txn, call, bulk, remaining, nextId, running>>

\* get_matching_ids runs first, so the ids are those stored when the call
\* began.  The filter, the sort order, offset and limit can choose any of
\* them in any order.
QueryUpdateBegin(ids, u) ==
  /\ Free
  /\ bulk' = [kind |-> "update", ids |-> ids, update |-> u]
  /\ UNCHANGED <<disk, objects, entries, txn, call, remaining, nextId, running>>

QueryDeleteBegin(ids) ==
  /\ Free
  /\ bulk' = [kind |-> "delete", ids |-> ids, update |-> None]
  /\ UNCHANGED <<disk, objects, entries, txn, call, remaining, nextId, running>>

InBulk(kind) == txn = "open" /\ call = Idle /\ bulk.kind = kind

\* An id may be gone by the time its turn comes: an earlier update of the
\* same call evicted it.  update then returns false and changes nothing.
QueryUpdateStep(id) ==
  /\ InBulk("update") /\ id \in bulk.ids
  /\ bulk' = [bulk EXCEPT !.ids = @ \ {id}]
  /\ \/ /\ objects[id] # None /\ Apply[bulk.update][objects[id]] # None
        /\ PutStart(id, Apply[bulk.update][objects[id]])
        /\ UNCHANGED remaining
     \/ /\ objects[id] = None
        /\ UNCHANGED <<disk, objects, entries, txn, call, remaining, nextId, running>>

QueryDeleteStep(id) ==
  /\ InBulk("delete") /\ id \in bulk.ids
  /\ bulk' = [bulk EXCEPT !.ids = @ \ {id}]
  /\ DeleteFrom(id)
  /\ UNCHANGED <<disk, txn, call, remaining, nextId, running>>

QueryReturn ==
  /\ txn = "open" /\ call = Idle /\ bulk.kind # "none" /\ bulk.ids = {}
  /\ bulk' = NoBulk
  /\ UNCHANGED <<disk, objects, entries, txn, call, remaining, nextId, running>>

\* Mutant: the operation reports its error and leaves the transaction usable.
OperationFailsUnguarded ==
  /\ txn = "open"
  /\ call' = Idle
  /\ bulk' = NoBulk
  /\ UNCHANGED <<disk, objects, entries, txn, remaining, nextId, running>>

\* A guarded operation fails at any of its writes (map full, I/O error) or on
\* an illegal update.  guard marks the transaction broken, and MDBX refuses
\* every later access to it, so the writes done so far are never seen.  The
\* counter is raised just before the object itself is written.
OperationFails ==
  /\ txn = "open"
  /\ txn' = "broken"
  /\ call' = Idle
  /\ bulk' = NoBulk
  /\ \/ UNCHANGED nextId
     \/ call.at = NumIndexes + 1 /\ call # Idle /\ nextId' = Bumped(call.id)
  /\ UNCHANGED <<disk, objects, entries, remaining, running>>

-----------------------------------------------------------------------------
(* End of the transaction, the counter, and the life of the instance.      *)

Commit ==
  /\ Free
  /\ disk' = [objects |-> objects, entries |-> entries]
  /\ txn' = "none"
  /\ UNCHANGED <<objects, entries, call, bulk, remaining, nextId, running>>

\* The commit of a broken transaction returns Ok: mdbx_result takes the
\* MDBX_RESULT_TRUE of mdbx_txn_commit_ex for success.  Its data are undone.
CommitBroken ==
  /\ txn = "broken" /\ call = Idle /\ bulk = NoBulk /\ remaining = NoInsert
  /\ Rollback
  /\ UNCHANGED <<nextId, running>>

\* mdbx_txn_commit_ex may end in an error, which aborts the transaction.
CommitFails ==
  /\ txn # "none" /\ call = Idle /\ bulk = NoBulk /\ remaining = NoInsert
  /\ Rollback
  /\ UNCHANGED <<nextId, running>>

\* isar_txn_abort, or the abort of an insert session.
Abort ==
  /\ txn # "none" /\ call = Idle /\ bulk = NoBulk
  /\ Rollback
  /\ UNCHANGED <<nextId, running>>

\* Outside any transaction: handing out an id is never undone.  The guard is
\* the bound: 2^63 ids are never handed out.
AutoIncrement ==
  /\ running /\ nextId < MaxId
  /\ nextId' = Succ(nextId)
  /\ UNCHANGED <<disk, objects, entries, txn, call, bulk, remaining, running>>

\* The process dies, or the instance is closed, at any point.
Crash ==
  /\ running
  /\ running' = FALSE
  /\ Rollback
  /\ UNCHANGED nextId

\* Mutant: the counter restarts at the largest id instead of after it.
OpenAtLastId ==
  /\ ~running
  /\ running' = TRUE
  /\ \/ Stored(disk.objects) = {} /\ nextId' = 1
     \/ \E id \in Id : IsLast(id, disk.objects) /\ nextId' = id
  /\ UNCHANGED <<disk, objects, entries, txn, call, bulk, remaining>>

\* open_native with an unchanged schema: init_auto_increment in a new
\* collection whose counter is 1.
Open ==
  /\ ~running
  /\ running' = TRUE
  /\ \/ Stored(disk.objects) = {} /\ nextId' = 1
     \/ \E id \in Id : IsLast(id, disk.objects) /\ nextId' = Succ(id)
  /\ UNCHANGED <<disk, objects, entries, txn, call, bulk, remaining>>

-----------------------------------------------------------------------------
Next ==
  \/ BeginWrite \/ Commit \/ CommitBroken \/ CommitFails \/ Abort \/ Crash \/ Open
  \/ AutoIncrement \/ Clear \/ OperationFails
  \/ PutIndex \/ PutFinish
  \/ InsertFinish \/ InsertFinishEarly
  \/ \E count \in 0..MaxBatch : InsertBegin(count)
  \/ \E id \in Id, v \in Value : InsertSave(id, v)
  \/ \E id \in Id, u \in Update : UpdateObject(id, u)
  \/ \E id \in Id : DeleteObject(id) \/ QueryUpdateStep(id) \/ QueryDeleteStep(id)
  \/ \E ids \in SUBSET Stored(objects) :
       QueryDeleteBegin(ids) \/ \E u \in Update : QueryUpdateBegin(ids, u)
  \/ QueryReturn

Spec == Init /\ [][Next]_vars

-----------------------------------------------------------------------------
(* Properties.                                                             *)

TypeOK ==
  /\ disk \in [objects : Objects, entries : Entries]
  /\ objects \in Objects
  /\ entries \in Entries
  /\ txn \in {"none", "open", "broken"}
  /\ call \in {Idle} \cup [at : 1..(NumIndexes + 1), id : Id, value : Value]
  /\ bulk \in Bulks
  /\ remaining \in -1..MaxBatch
  /\ nextId \in MinId..MaxId
  /\ running \in BOOLEAN

\* Index i lists exactly the stored objects, each under its own key.
IndexOf(i, o) == {<<KeyOf[i][o[id]], id>> : id \in Stored(o)}
IndexesAgree(o, e) == \A i \in Index : e[i] = IndexOf(i, o)

\* No two stored objects share a key without null parts in a unique index.
KeysUnique(o) ==
  \A i \in Unique : \A x, y \in Stored(o) :
    (x # y /\ o[x] \notin HasNull[i] /\ o[y] \notin HasNull[i])
      => KeyOf[i][o[x]] # KeyOf[i][o[y]]

\* Whatever failed, was aborted or crashed, the committed indexes list
\* exactly the committed objects (put, delete, clear and guard together).
DiskIndexesAgree == IndexesAgree(disk.objects, disk.entries)

\* A unique index admits one object per key: put evicts the previous holder
\* (NativeIndex::create_for_object), in every index and across bulk updates.
DiskKeysUnique == KeysUnique(disk.objects)

\* Between two calls the open transaction reads a consistent collection too.
ViewConsistent ==
  Ready => IndexesAgree(objects, entries) /\ KeysUnique(objects)

\* auto_increment never hands out an id that is stored or being committed:
\* the counter is above every id, across aborts, failures and restarts.
CounterAboveIds ==
  running => \A id \in Stored(objects) \cup Stored(disk.objects) : id < nextId

-----------------------------------------------------------------------------
(* Refinement of TxnMap.  From its first write on, a put is seen as done:  *)
(* the objects it has yet to evict are already gone from the view.         *)

Doomed(id) ==
  \E i \in call.at..NumIndexes :
    /\ i \in Unique
    /\ call.value \notin HasNull[i] /\ objects[id] \notin HasNull[i]
    /\ KeyOf[i][objects[id]] = KeyOf[i][call.value]

View ==
  IF txn # "open" THEN disk.objects
  ELSE IF call = Idle THEN objects
  ELSE [id \in Id |-> IF id = call.id THEN call.value
                      ELSE IF objects[id] # None /\ Doomed(id) THEN None
                      ELSE objects[id]]

Map == INSTANCE TxnMap WITH store <- disk.objects, view <- View

\* Every behaviour of the engine is one of the transactional map.
ImplementsTxnMap == Map!MapSpec
=============================================================================
