------------------------------ MODULE Watchers ------------------------------
(***************************************************************************)
(* Change notification: CollectionWatchers, the ChangeSet of a write       *)
(* transaction, and the calls put, delete and clear make on them.  Any     *)
(* isolate of the process may start or stop a watcher at any moment, also  *)
(* while another one is in the middle of a put.                            *)
(*                                                                         *)
(* The data are those of TxnMap, one map per collection: indexes matter    *)
(* here only because a put deletes, and so reports, what it evicts.        *)
(***************************************************************************)
EXTENDS Integers, Sequences, FiniteSets, SequencesExt

CONSTANTS
  Collection,
  Id,           \* object ids, a set of integers
  Value,        \* object contents
  None,         \* no object
  Shown,        \* Shown[v]: what the change detector reads of contents v
  Indexed,      \* the collections that have an index
  Conflict,     \* Conflict[c]: pairs of objects a unique index of c keeps apart
  Watcher,      \* watchers, each started once at most
  Target,       \* Target[w]: the kind of w, its collection, its object, and
                \* the objects that match its query
  MaxLog        \* bound on the detailed changes of one transaction

Kinds == {"collection", "object", "query", "detailed"}

ASSUME WatchersAssumption ==
  /\ Id \subseteq Int /\ IsFiniteSet(Id)
  /\ None \notin Value
  /\ DOMAIN Shown = Value
  /\ Indexed \subseteq Collection
  /\ Conflict \in [Collection -> SUBSET (Value \X Value)]
  /\ Target \in [Watcher -> [kind : Kinds, col : Collection, id : Id,
                             matches : SUBSET Value]]
  /\ MaxLog \in Nat

VARIABLES
  committed,  \* committed[c][id], what the last commit left
  view,       \* the same as the write transaction sees it
  txn,        \* "none", "open", or "broken" once an operation failed
  call,       \* the put in progress
  watching,   \* the watchers in the lists of their collections
  ahead,      \* ahead[w]: those that were in the list of w when it joined
  fresh,      \* watchers not started yet
  changeSet,  \* ChangeSet: watchers to notify, detailed changes, and the
              \* watchers that are to get them
  sent,       \* what the last commit sent
  steady,     \* history: watching since before the transaction began
  written     \* history: the <<collection, id>> pairs written, or that a
              \* call which failed was to write

vars == <<committed, view, txn, call, watching, ahead, fresh, changeSet, sent,
          steady, written>>

lists   == <<watching, ahead, fresh>>
history == <<steady, written>>

-----------------------------------------------------------------------------
Idle      == [at |-> "idle", col |-> None, id |-> None, value |-> None, old |-> None]
NoChanges == [watchers |-> {}, log |-> <<>>, listeners |-> {}]

Stored(c) == {id \in Id : view[c][id] # None}

OfKind(kind, c) == {w \in watching : Target[w].kind = kind /\ Target[w].col = c}
OfObject(c, id) == {w \in OfKind("object", c) : Target[w].id = id}
Matching(c, v)  == {w \in OfKind("query", c) : v \in Target[w].matches}

\* mark_watchers_changed: from the front of the list to the first watcher
\* that is already registered, and no further.
Marked(list, done) ==
  {w \in list : \A x \in (ahead[w] \cup {w}) \cap list : x \notin done}

\* register_change for object v under id.
Changed(done, c, id, v) ==
  done \cup Marked(OfKind("collection", c), done)
       \cup Marked(OfObject(c, id), done)
       \cup Matching(c, v)

\* register_all.
ChangedAll(done, c) ==
  done \cup Marked(OfKind("collection", c), done)
       \cup (UNION {Marked(OfObject(c, id), done) : id \in Id})
       \cup OfKind("query", c)

Detail(kind, c, id, v) == [kind |-> kind, col |-> c, id |-> id, value |-> v]

\* The detector compares two objects field by field, as the text it reads of
\* them: a list is its length, a number that is not finite is null, and of a
\* JSON text in a field named `value' only the inner value counts.
Alike(v, w) ==
  \/ v = w
  \/ v # None /\ w # None /\ Shown[v] = Shown[w]

\* ChangeDetector::detect_changes: every insert and every delete, but no
\* update between objects that it reads alike.
Detect(c, id, old, new) ==
  IF Alike(old, new) THEN <<>>
  ELSE IF old = None THEN <<Detail("insert", c, id, new)>>
  ELSE IF new = None THEN <<Detail("delete", c, id, None)>>
  ELSE <<Detail("update", c, id, new)>>

\* The detailed part of put and delete: the change set when details are the
\* detailed changes to an object of c, and nothing when nobody listens.
WithDetails(cs, c, details) ==
  IF OfKind("detailed", c) = {} THEN cs
  ELSE [cs EXCEPT !.log = @ \o details,
                  !.listeners = @ \cup OfKind("detailed", c)]

\* History of a call that writes the objects `ids' of c.
Wrote(c, ids) ==
  /\ written' = written \cup ({c} \X ids)
  /\ UNCHANGED steady

-----------------------------------------------------------------------------
Init ==
  /\ committed = [c \in Collection |-> [id \in Id |-> None]]
  /\ view = committed
  /\ txn = "none"
  /\ call = Idle
  /\ watching = {}
  /\ ahead = [w \in Watcher |-> {}]
  /\ fresh = Watcher
  /\ changeSet = NoChanges
  /\ sent = NoChanges
  /\ steady = {} /\ written = {}

Ready == txn = "open" /\ call = Idle

\* The bound on the log: every operation adds at most one entry per id.
Room == Len(changeSet.log) < MaxLog

Begin ==
  /\ txn = "none"
  /\ txn' = "open"
  /\ sent' = NoChanges
  /\ steady' = watching
  /\ UNCHANGED <<committed, view, call, lists, changeSet, written>>

-----------------------------------------------------------------------------
(* put: the old object is read only if an index or a watcher needs it; the *)
(* change is registered; unique indexes evict; the object is stored.       *)

PutStart(c, id, v) ==
  /\ Ready /\ Room
  /\ LET needed == \/ c \in Indexed
                   \/ OfKind("query", c) # {} \/ OfKind("detailed", c) # {}
     IN call' = [at |-> "register", col |-> c, id |-> id, value |-> v,
                 old |-> IF needed THEN view[c][id] ELSE None]
  /\ UNCHANGED <<committed, view, txn, lists, changeSet, sent, history>>

\* register_change, then the detailed change.  The two read different lists,
\* so nothing is lost by taking them in one step.
PutRegister ==
  /\ call.at = "register"
  /\ LET c  == call.col
         cs == [changeSet EXCEPT !.watchers = Changed(@, c, call.id, call.value)]
     IN /\ changeSet' = WithDetails(cs, c, Detect(c, call.id, call.old, call.value))
        /\ Wrote(c, {call.id})
  /\ call' = [call EXCEPT !.at = "store"]
  /\ UNCHANGED <<committed, view, txn, lists, sent>>

\* delete of a stored object, from wherever it is called.
DeleteStored(c, id) ==
  LET cs == [changeSet EXCEPT !.watchers = Changed(@, c, id, view[c][id])]
  IN /\ changeSet' = WithDetails(cs, c, Detect(c, id, view[c][id], None))
     /\ view' = [view EXCEPT ![c][id] = None]
     /\ Wrote(c, {id})

Evicted == {x \in Stored(call.col) \ {call.id} :
              <<view[call.col][x], call.value>> \in Conflict[call.col]}

\* Mutant: the evicted object goes without a word.
PutEvictSilently ==
  /\ call.at = "store"
  /\ \E x \in Evicted : view' = [view EXCEPT ![call.col][x] = None]
  /\ UNCHANGED <<committed, txn, call, lists, changeSet, sent, history>>

PutEvict ==
  /\ call.at = "store"
  /\ \E x \in Evicted : DeleteStored(call.col, x)
  /\ UNCHANGED <<committed, txn, call, lists, sent>>

PutStore ==
  /\ call.at = "store" /\ Evicted = {}
  /\ view' = [view EXCEPT ![call.col][call.id] = call.value]
  /\ call' = Idle
  /\ UNCHANGED <<committed, txn, lists, changeSet, sent, history>>

-----------------------------------------------------------------------------
DeleteObject(c, id) ==
  /\ Ready /\ Room /\ view[c][id] # None
  /\ DeleteStored(c, id)
  /\ UNCHANGED <<committed, txn, call, lists, sent>>

\* Mutant: clear tells watchers that something changed, but not what.
ClearUnlogged(c) ==
  /\ Ready /\ Room
  /\ changeSet' = [changeSet EXCEPT !.watchers = ChangedAll(@, c)]
  /\ view' = [view EXCEPT ![c] = [id \in Id |-> None]]
  /\ Wrote(c, Id)
  /\ UNCHANGED <<committed, txn, call, lists, sent>>

\* The cursor goes from the least id to the greatest.
InOrder(ids) ==
  {s \in [1..Cardinality(ids) -> ids] :
     ToSet(s) = ids /\ \A m, n \in DOMAIN s : m < n => s[m] < s[n]}

\* clear logs the deletion of every object in the order of the ids.
Clear(c) ==
  /\ Ready /\ Room
  /\ LET cs == [changeSet EXCEPT !.watchers = ChangedAll(@, c)]
     IN \E gone \in InOrder(Stored(c)) :
          changeSet' = WithDetails(cs, c,
            [n \in DOMAIN gone |-> Detail("delete", c, gone[n], None)])
  /\ view' = [view EXCEPT ![c] = [id \in Id |-> None]]
  /\ Wrote(c, Id)
  /\ UNCHANGED <<committed, txn, call, lists, sent>>

\* A guarded operation fails at one of its writes.  The change set keeps what
\* was registered; MDBX stores nothing of the transaction any more.
OperationFails ==
  /\ txn = "open"
  /\ txn' = "broken"
  /\ call' = Idle
  /\ UNCHANGED <<committed, view, lists, changeSet, sent, history>>

\* In a broken transaction MDBX refuses every operation, and most of them
\* before they register anything; clear has then already told all watchers.
ClearRefused(c) ==
  /\ txn = "broken"
  /\ changeSet' = WithDetails([changeSet EXCEPT !.watchers = ChangedAll(@, c)], c, <<>>)
  /\ Wrote(c, Id)
  /\ UNCHANGED <<committed, view, txn, call, lists, sent>>

-----------------------------------------------------------------------------
EndHistory == steady' = {} /\ written' = {}

\* NativeTxn::commit: notify_watchers follows the commit of the data.
Commit ==
  /\ Ready
  /\ txn' = "none"
  /\ committed' = view
  /\ sent' = changeSet
  /\ changeSet' = NoChanges
  /\ EndHistory
  /\ UNCHANGED <<view, call, lists>>

\* The commit of a broken transaction undoes its data, but the code of MDBX
\* for that, MDBX_RESULT_TRUE, counts as success: watchers are notified.
CommitBroken ==
  /\ txn = "broken"
  /\ txn' = "none"
  /\ view' = committed
  /\ sent' = changeSet
  /\ changeSet' = NoChanges
  /\ EndHistory
  /\ UNCHANGED <<committed, call, lists>>

\* Mutant: the change set outlives the transaction it belongs to.
RollbackKeepsChanges ==
  /\ txn # "none" /\ call = Idle
  /\ txn' = "none"
  /\ view' = committed
  /\ EndHistory
  /\ UNCHANGED <<committed, call, lists, changeSet, sent>>

\* Abort, or a commit that ends in an error of MDBX.
Rollback ==
  /\ txn # "none" /\ call = Idle
  /\ txn' = "none"
  /\ view' = committed
  /\ changeSet' = NoChanges
  /\ EndHistory
  /\ UNCHANGED <<committed, call, lists, sent>>

-----------------------------------------------------------------------------
(* Starting and stopping watchers: an atomic swap of the lists.            *)

SameList(w) ==
  {x \in OfKind(Target[w].kind, Target[w].col) :
     Target[w].kind = "object" => Target[x].id = Target[w].id}

\* Mutant: the next watcher gets the same id.
WatchReusingIds(w) ==
  /\ w \in fresh
  /\ ahead' = [ahead EXCEPT ![w] = SameList(w)]
  /\ watching' = watching \cup {w}
  /\ UNCHANGED <<committed, view, txn, call, fresh, changeSet, sent, history>>

Watch(w) ==
  /\ w \in fresh
  /\ fresh' = fresh \ {w}
  /\ ahead' = [ahead EXCEPT ![w] = SameList(w)]
  /\ watching' = watching \cup {w}
  /\ UNCHANGED <<committed, view, txn, call, changeSet, sent, history>>

\* Dropping the WatchHandle.  A watcher that is already in the change set
\* stays there.
Stop(w) ==
  /\ w \in watching
  /\ watching' = watching \ {w}
  /\ steady' = steady \ {w}
  /\ UNCHANGED <<committed, view, txn, call, ahead, fresh, changeSet, sent, written>>

-----------------------------------------------------------------------------
Next ==
  \/ Begin \/ PutRegister \/ PutEvict \/ PutStore
  \/ OperationFails \/ Commit \/ CommitBroken \/ Rollback
  \/ \E c \in Collection :
       \/ Clear(c) \/ ClearRefused(c)
       \/ \E id \in Id :
            DeleteObject(c, id) \/ \E v \in Value : PutStart(c, id, v)
  \/ \E w \in Watcher : Watch(w) \/ Stop(w)

Spec == Init /\ [][Next]_vars

-----------------------------------------------------------------------------
(* Properties.                                                             *)

Details == [kind : {"insert", "update", "delete"}, col : Collection, id : Id,
            value : Value \cup {None}]

ChangeSets == [watchers : SUBSET Watcher, log : Seq(Details),
               listeners : SUBSET Watcher]

Maps == [Collection -> [Id -> Value \cup {None}]]

TypeOK ==
  /\ committed \in Maps
  /\ view \in Maps
  /\ txn \in {"none", "open", "broken"}
  /\ call \in {Idle} \cup [at : {"register", "store"}, col : Collection,
                           id : Id, value : Value, old : Value \cup {None}]
  /\ ahead \in [Watcher -> SUBSET Watcher]
  /\ fresh \subseteq Watcher /\ watching \subseteq Watcher \ fresh
  /\ changeSet \in ChangeSets
  /\ sent \in ChangeSets
  /\ steady \subseteq watching
  /\ written \subseteq Collection \X Id

\* The objects of w's collection that a commit changes.
Changes(w) == {id \in Id : committed[Target[w].col][id] # view[Target[w].col][id]}

\* Watchers.mdx: watchers are notified "after a transaction commits
\* successfully and the target actually changes".  Here for those in place
\* before the transaction began: collection and object watchers hear of every
\* change, also of an eviction by the put of another object, and query
\* watchers of every object that is new in their result.
Concerns(w) ==
  CASE Target[w].kind = "collection" -> Changes(w) # {}
    [] Target[w].kind = "object" -> Target[w].id \in Changes(w)
    [] Target[w].kind = "query" ->
         \E id \in Changes(w) : view[Target[w].col][id] \in Target[w].matches
    [] OTHER -> FALSE

SteadyWatchersTold ==
  [][Commit => \A w \in steady : Concerns(w) => w \in sent'.watchers]_vars

\* A commit notifies no watcher unless its own transaction wrote, or was asked
\* to write, to what the watcher watches: what an aborted transaction has
\* registered is lost.  What a failed call has registered is not, when the
\* transaction is committed all the same, and its watchers hear of changes that
\* were undone: `written' holds those as well.
OnlyWritesTold ==
  [][Commit \/ CommitBroken =>
       \A w \in sent'.watchers : \E id \in Id :
         /\ <<Target[w].col, id>> \in written
         /\ Target[w].kind = "object" => id = Target[w].id]_vars

About(log, c, id) == {n \in DOMAIN log : log[n].col = c /\ log[n].id = id}

\* The last entry of a log about an object says what the object is now, and
\* without an entry it is what it was, as far as the detector can tell.
LastSays(log, c, id, before, now) ==
  LET entries == About(log, c, id)
  IN /\ entries = {} => Alike(before, now)
     /\ \A n \in entries : (\A m \in entries : m <= n) => Alike(log[n].value, now)

\* The detailed changes a commit of data sends, replayed on the objects as they
\* were, give the objects as they are, up to what the change detector does not
\* tell apart: no other change is missing, evictions and clear included, and
\* none is reported in the wrong order.
LogReplays ==
  [][Commit => \A w \in steady :
       Target[w].kind = "detailed" =>
         \A id \in Id :
           LET c == Target[w].col
           IN /\ ~Alike(committed[c][id], view[c][id]) => w \in sent'.listeners
              /\ LastSays(sent'.log, c, id, committed[c][id], view[c][id])]_vars
=============================================================================
