------------------------------- MODULE TxnMap -------------------------------
(***************************************************************************)
(* What an Isar collection promises its callers: a map from ids to objects *)
(* changed by one write transaction at a time, in which a put evicts every *)
(* other object that shares a unique key with the new one.  A transaction  *)
(* takes effect as a whole at its commit or not at all.  How indexes keep  *)
(* track of the unique keys is the business of NativeStore, which          *)
(* implements this specification.                                          *)
(***************************************************************************)
CONSTANTS
  Id,        \* object ids
  Value,     \* object contents
  None,      \* no object stored under an id
  Index,     \* indexes of the collection
  Unique,    \* those declared unique
  KeyOf,     \* KeyOf[i][v]: the key of object v in index i
  HasNull    \* HasNull[i]: the objects whose key in index i has a null part

VARIABLES
  store,     \* committed objects
  view,      \* the objects as the open transaction sees them
  txn        \* "none", "open", or "broken" after a failed operation

mapVars == <<store, view, txn>>

\* Objects that cannot both be stored: equal keys without a null part in a
\* unique index.
Conflict(v, w) ==
  \E i \in Unique : /\ v \notin HasNull[i] /\ w \notin HasNull[i]
                    /\ KeyOf[i][v] = KeyOf[i][w]

MapTypeOK ==
  /\ store \in [Id -> Value \cup {None}]
  /\ view  \in [Id -> Value \cup {None}]
  /\ txn   \in {"none", "open", "broken"}

MapInit ==
  /\ store = [id \in Id |-> None]
  /\ view = store
  /\ txn = "none"

MapBegin ==
  /\ txn = "none"
  /\ txn' = "open"
  /\ UNCHANGED <<store, view>>

MapPut(id, v) ==
  /\ txn = "open"
  /\ view' = [x \in Id |-> IF x = id THEN v
                           ELSE IF view[x] # None /\ Conflict(view[x], v)
                                THEN None ELSE view[x]]
  /\ UNCHANGED <<store, txn>>

MapDelete(id) ==
  /\ txn = "open"
  /\ view' = [view EXCEPT ![id] = None]
  /\ UNCHANGED <<store, txn>>

MapClear ==
  /\ txn = "open"
  /\ view' = [id \in Id |-> None]
  /\ UNCHANGED <<store, txn>>

\* A failed operation condemns its transaction: nothing of it is ever stored.
MapFail ==
  /\ txn = "open"
  /\ txn' = "broken"
  /\ view' = store
  /\ UNCHANGED store

MapCommit ==
  /\ txn = "open"
  /\ txn' = "none"
  /\ store' = view
  /\ UNCHANGED view

\* Abort, a commit that fails or finds the transaction condemned, or a crash of
\* the process.
MapRollback ==
  /\ txn # "none"
  /\ txn' = "none"
  /\ view' = store
  /\ UNCHANGED store

MapNext ==
  \/ MapBegin \/ MapClear \/ MapFail \/ MapCommit \/ MapRollback
  \/ \E id \in Id : MapDelete(id) \/ \E v \in Value : MapPut(id, v)

MapSpec == MapInit /\ [][MapNext]_mapVars
=============================================================================
