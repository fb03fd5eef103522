--------------------------- MODULE SQLiteSession ----------------------------
(***************************************************************************)
(* Transactions of the SQLite engine as an isolate runs them: Isar.write   *)
(* and Isar.read on the Dart side, the C interface that owns or consumes   *)
(* the transaction pointer, SQLiteInstance, SQLiteTxn, the insert session, *)
(* and the registry of instances with its pool of connections.             *)
(*                                                                         *)
(* Every isolate has an SQLiteInstance of its own (its connection and the  *)
(* flag txn_active); all of them share SQLiteInstanceInfo (write_mutex).   *)
(* A row is any statement that changed the database; what matters is       *)
(* whether it is pending in a connection or durable.  SQLite itself is     *)
(* external: BEGIN fails in an open transaction, COMMIT and ROLLBACK fail  *)
(* outside one, a statement outside one commits by itself, and a severe    *)
(* error (disk full, I/O) may roll the transaction back at once.           *)
(***************************************************************************)
EXTENDS Naturals, Sequences, FiniteSets

CONSTANTS
  Isolate,
  Nobody,     \* no holder of the mutex
  MaxOps      \* bound on the statements of one write callback

ASSUME SessionAssumption ==
  Nobody \notin Isolate /\ IsFiniteSet(Isolate) /\ MaxOps \in Nat \ {0}

VARIABLES
  pc,          \* where the isolate is
  txn,         \* its SQLiteTxn: "none", or its flag: "active", "inactive"
  txnActive,   \* SQLiteInstance::txn_active
  conn,        \* its connection
  mutex,       \* who locked SQLiteInstanceInfo::write_mutex
  registered,  \* INSTANCES has an entry
  pool,        \* Connections::sqlite of that entry
  running,     \* the process is alive
  left,        \* statements the callback may still run
  outcome,     \* history: how the last write() of the isolate ended
  done,        \* history: its statements that reported success
  durable,     \* history: those in the database file
  failed,      \* history: one of its statements failed
  detached,    \* history: its error was in the future of an async callback
  undone,      \* history: SQLite rolled back on its own during it
  faults       \* history: what went wrong since the start of the process

vars == <<pc, txn, txnActive, conn, mutex, registered, pool, running, left,
          outcome, done, durable, failed, detached, undone, faults>>

engine   == <<txn, txnActive, conn, mutex>>
registry == <<registered, pool>>
call     == <<left, outcome, done, durable, failed, detached, undone>>

-----------------------------------------------------------------------------
Places == {"closed", "idle", "waiting", "callback", "insert", "aborting", "read",
           "removing", "returning", "leaving", "undefined"}

Clean       == [begun |-> FALSE, rows |-> 0]
Connections == [begun : BOOLEAN, rows : 0..MaxOps]

\* Each isolate that has not dropped its instance holds one Arc of the info,
\* the registry holds another.
StrongCount ==
  Cardinality({i \in Isolate : pc[i] # "closed"}) + (IF registered THEN 1 ELSE 0)

Goto(i, place) == pc' = [pc EXCEPT ![i] = place]

Init ==
  /\ pc = [i \in Isolate |-> "closed"]
  /\ txn = [i \in Isolate |-> "none"]
  /\ txnActive = [i \in Isolate |-> FALSE]
  /\ conn = [i \in Isolate |-> Clean]
  /\ mutex = Nobody
  /\ registered = FALSE
  /\ pool = <<>>
  /\ running = TRUE
  /\ left = [i \in Isolate |-> 0]
  /\ outcome = [i \in Isolate |-> "none"]
  /\ done = [i \in Isolate |-> 0]
  /\ durable = [i \in Isolate |-> 0]
  /\ failed = [i \in Isolate |-> FALSE]
  /\ detached = [i \in Isolate |-> FALSE]
  /\ undone = [i \in Isolate |-> FALSE]
  /\ faults = {}

-----------------------------------------------------------------------------
(* Opening and closing.  open_instance and get_instance run under the lock *)
(* of INSTANCES; the first check of close_instance does not.               *)

Open(i) ==
  /\ running /\ pc[i] = "closed"
  /\ Goto(i, "idle")
  /\ registered' = TRUE
  /\ IF registered /\ pool # <<>>
       THEN conn' = [conn EXCEPT ![i] = pool[Len(pool)]]
            /\ pool' = SubSeq(pool, 1, Len(pool) - 1)
       ELSE conn' = [conn EXCEPT ![i] = Clean] /\ pool' = <<>>
  /\ mutex' = IF registered THEN mutex ELSE Nobody
  /\ txnActive' = [txnActive EXCEPT ![i] = FALSE]
  /\ UNCHANGED <<txn, running, call, faults>>

CloseCheck(i) ==
  /\ running /\ pc[i] = "idle"
  /\ Goto(i, IF StrongCount = 2 THEN "removing" ELSE "returning")
  /\ UNCHANGED <<engine, registry, running, call, faults>>

\* Mutant: the count is not looked at again under the lock.
CloseLockedUnchecked(i) ==
  /\ running /\ pc[i] = "removing"
  /\ registered' = FALSE
  /\ pool' = <<>>
  /\ Goto(i, "closed")
  /\ conn' = [conn EXCEPT ![i] = Clean]
  /\ UNCHANGED <<txn, txnActive, mutex, running, call, faults>>

CloseLocked(i) ==
  /\ running /\ pc[i] = "removing"
  /\ \/ /\ StrongCount = 2
        /\ registered' = FALSE
        /\ pool' = <<>>
        /\ Goto(i, "closed")
        /\ conn' = [conn EXCEPT ![i] = Clean]
     \/ /\ StrongCount # 2
        /\ Goto(i, "returning")
        /\ UNCHANGED <<registry, conn>>
  /\ UNCHANGED <<txn, txnActive, mutex, running, call, faults>>

\* The connection goes to the pool of the entry, which must be there.
CloseReturn(i) ==
  /\ running /\ pc[i] = "returning"
  /\ pool' = Append(pool, conn[i])
  /\ conn' = [conn EXCEPT ![i] = Clean]
  /\ Goto(i, "leaving")
  /\ UNCHANGED <<txn, txnActive, mutex, registered, running, call, faults>>

\* close_instance returns and drops the info.
CloseDone(i) ==
  /\ running /\ pc[i] = "leaving"
  /\ Goto(i, "closed")
  /\ UNCHANGED <<engine, registry, running, call, faults>>

-----------------------------------------------------------------------------
(* Beginning: begin_txn takes the mutex, sets the flag, and runs BEGIN.    *)

WriteCall(i) ==
  /\ running /\ pc[i] = "idle"
  /\ Goto(i, "waiting")
  /\ outcome' = [outcome EXCEPT ![i] = "none"]
  /\ left' = [left EXCEPT ![i] = MaxOps]
  /\ done' = [done EXCEPT ![i] = 0]
  /\ durable' = [durable EXCEPT ![i] = 0]
  /\ failed' = [failed EXCEPT ![i] = FALSE]
  /\ detached' = [detached EXCEPT ![i] = FALSE]
  /\ undone' = [undone EXCEPT ![i] = FALSE]
  /\ UNCHANGED <<engine, registry, running, faults>>

BeginSucceeds(i) == ~txnActive[i] /\ ~conn[i].begun

Begin(i) ==
  /\ txn' = [txn EXCEPT ![i] = "active"]
  /\ conn' = [conn EXCEPT ![i].begun = TRUE]

WriteBegin(i) ==
  /\ running /\ pc[i] = "waiting" /\ mutex = Nobody
  /\ BeginSucceeds(i)
  /\ mutex' = i
  /\ txnActive' = [txnActive EXCEPT ![i] = TRUE]
  /\ Begin(i)
  /\ Goto(i, "callback")
  /\ UNCHANGED <<registry, running, call, faults>>

\* TransactionActive, or BEGIN fails: nobody unlocks, nobody clears the flag.
WriteBeginFails(i) ==
  /\ running /\ pc[i] = "waiting" /\ mutex = Nobody
  /\ mutex' = i
  /\ txnActive' = [txnActive EXCEPT ![i] = TRUE]
  /\ Goto(i, "idle")
  /\ outcome' = [outcome EXCEPT ![i] = "threw"]
  /\ faults' = faults \cup {"begin"}
  /\ UNCHANGED <<txn, conn, registry, running, left, done, durable, failed,
                 detached, undone>>

ReadBegin(i) ==
  /\ running /\ pc[i] = "idle"
  /\ BeginSucceeds(i)
  /\ txnActive' = [txnActive EXCEPT ![i] = TRUE]
  /\ Begin(i)
  /\ Goto(i, "read")
  /\ UNCHANGED <<mutex, registry, running, call, faults>>

ReadBeginFails(i) ==
  /\ running /\ pc[i] = "idle"
  /\ txnActive' = [txnActive EXCEPT ![i] = TRUE]
  /\ faults' = faults \cup {"begin"}
  /\ UNCHANGED <<pc, txn, conn, mutex, registry, running, call>>

-----------------------------------------------------------------------------
(* Statements.                                                             *)

\* A statement that changes the database has run.
Ran(i) ==
  /\ left[i] > 0
  /\ left' = [left EXCEPT ![i] = @ - 1]
  /\ done' = [done EXCEPT ![i] = @ + 1]
  /\ IF conn[i].begun
       THEN conn' = [conn EXCEPT ![i].rows = @ + 1] /\ UNCHANGED durable
       ELSE durable' = [durable EXCEPT ![i] = @ + 1] /\ UNCHANGED conn
  /\ UNCHANGED <<outcome, failed, detached, undone>>

\* A statement has failed, in a transaction or outside one; SQLite may have
\* rolled back at once.  `after' is the state guard leaves the SQLiteTxn in:
\* when its own ROLLBACK fails it returns before it clears the flag.
Failed(i, after) ==
  /\ left[i] > 0
  /\ left' = [left EXCEPT ![i] = @ - 1]
  /\ failed' = [failed EXCEPT ![i] = TRUE]
  /\ conn' = [conn EXCEPT ![i] = Clean]
  /\ \/ conn[i].begun /\ after = "inactive" /\ UNCHANGED undone
     \/ after = "active" /\ undone' = [undone EXCEPT ![i] = TRUE]
  /\ UNCHANGED <<outcome, done, durable, detached>>

\* delete, update, clear, and their queries.
Statement(i) ==
  /\ running /\ pc[i] = "callback" /\ txn[i] = "active"
  /\ Ran(i)
  /\ UNCHANGED <<pc, txn, txnActive, mutex, registry, running, faults>>

\* Mutant: guard does not close the transaction.
StatementFailsOpen(i) ==
  /\ running /\ pc[i] = "callback" /\ txn[i] = "active"
  /\ left[i] > 0
  /\ left' = [left EXCEPT ![i] = @ - 1]
  /\ failed' = [failed EXCEPT ![i] = TRUE]
  /\ UNCHANGED <<pc, txn, txnActive, conn, mutex, registry, running, outcome, done,
                 durable, detached, undone, faults>>

\* The callback may catch the error and go on, but not with this transaction
\* if guard has closed it.
StatementFails(i) ==
  /\ running /\ pc[i] = "callback" /\ txn[i] = "active"
  /\ \E after \in {"active", "inactive"} :
       Failed(i, after) /\ txn' = [txn EXCEPT ![i] = after]
  /\ UNCHANGED <<pc, txnActive, mutex, registry, running, faults>>

\* putAll: getWriteTxn gives the pointer away, isar_plus_insert takes the
\* transaction out of it.  (One statement for every batch of objects.)
InsertBegin(i) ==
  /\ running /\ pc[i] = "callback" /\ txn[i] = "active" /\ left[i] > 0
  /\ Goto(i, "insert")
  /\ UNCHANGED <<engine, registry, running, call, faults>>

InsertBatch(i) ==
  /\ running /\ pc[i] = "insert" /\ left[i] > 1
  /\ Ran(i)
  /\ UNCHANGED <<pc, txn, txnActive, mutex, registry, running, faults>>

InsertFinish(i) ==
  /\ running /\ pc[i] = "insert"
  /\ Ran(i)
  /\ Goto(i, "callback")
  /\ UNCHANGED <<txn, txnActive, mutex, registry, running, faults>>

\* The transaction is dropped with the insert session, not ended.
Dropped(i) ==
  /\ Goto(i, "callback")
  /\ txn' = [txn EXCEPT ![i] = "none"]
  /\ faults' = faults \cup {"dropped"}
  /\ UNCHANGED <<txnActive, mutex, registry, running>>

\* A statement of the session fails: guard has rolled back.
InsertFails(i) ==
  /\ running /\ pc[i] = "insert"
  /\ \E after \in {"active", "inactive"} : Failed(i, after)
  /\ Dropped(i)

\* The serializer throws, or the statement of the next batch (or, before the
\* session has begun, that of the first) cannot be prepared: no ROLLBACK.
InsertAbandoned(i) ==
  /\ running /\ pc[i] = "insert" /\ left[i] > 0
  /\ left' = [left EXCEPT ![i] = @ - 1]
  /\ failed' = [failed EXCEPT ![i] = TRUE]
  /\ Dropped(i)
  /\ UNCHANGED <<conn, outcome, done, durable, detached, undone>>

\* putAll in a transaction that guard has closed: isar_plus_insert consumes
\* the transaction before get_sqlite refuses it.
InsertRefused(i) ==
  /\ running /\ pc[i] = "callback" /\ txn[i] = "inactive"
  /\ Dropped(i)
  /\ UNCHANGED <<conn, call>>

-----------------------------------------------------------------------------
(* Ending.                                                                 *)

Unlock(i) == mutex' = Nobody

\* What the caller of write() sees: the callback's result, unless the
\* callback was asynchronous and its future has failed.
Returned(i) ==
  \/ outcome' = [outcome EXCEPT ![i] = "returned"] /\ UNCHANGED detached
  \/ /\ outcome' = [outcome EXCEPT ![i] = "threw"]
     /\ detached' = [detached EXCEPT ![i] = TRUE]

Threw(i) == outcome' = [outcome EXCEPT ![i] = "threw"] /\ UNCHANGED detached

\* Mutant: the flag stays set.
CommitKeepsFlag(i) ==
  /\ running /\ pc[i] = "callback" /\ txn[i] = "active" /\ conn[i].begun
  /\ txn' = [txn EXCEPT ![i] = "none"]
  /\ durable' = [durable EXCEPT ![i] = @ + conn[i].rows]
  /\ conn' = [conn EXCEPT ![i] = Clean]
  /\ Unlock(i)
  /\ Returned(i)
  /\ Goto(i, "idle")
  /\ UNCHANGED <<txnActive, registry, running, left, done, failed, undone, faults>>

\* The callback returns; commit_txn ends the transaction and unlocks.
Commit(i) ==
  /\ running /\ pc[i] = "callback" /\ txn[i] = "active" /\ conn[i].begun
  /\ txnActive' = [txnActive EXCEPT ![i] = FALSE]
  /\ txn' = [txn EXCEPT ![i] = "none"]
  /\ durable' = [durable EXCEPT ![i] = @ + conn[i].rows]
  /\ conn' = [conn EXCEPT ![i] = Clean]
  /\ Unlock(i)
  /\ Returned(i)
  /\ Goto(i, "idle")
  /\ UNCHANGED <<registry, running, left, done, failed, undone, faults>>

\* The callback returns and the commit fails: TransactionClosed, COMMIT
\* outside a transaction, or COMMIT itself, after which SQLite may or may not
\* have rolled back.  The transaction is consumed all the same.
CommitFails(i) ==
  /\ running /\ pc[i] = "callback" /\ txn[i] # "none"
  /\ txnActive' = [txnActive EXCEPT ![i] = FALSE]
  /\ \/ txn[i] = "active" /\ conn' = [conn EXCEPT ![i] = Clean]
     \/ UNCHANGED conn
  /\ Unlock(i)
  /\ Threw(i)
  /\ Goto(i, "aborting")
  /\ UNCHANGED <<txn, registry, running, left, done, durable, failed, undone, faults>>

\* write() catches the error and aborts the transaction it has freed.  The
\* process crashes, or the freed memory still holds the transaction: then it
\* is aborted, unlocks the mutex again, and takes the connection along.
AbortFreed(i) ==
  /\ running /\ pc[i] = "aborting"
  /\ faults' = faults \cup {"freed"}
  /\ \/ running' = FALSE /\ UNCHANGED <<pc, engine>>
     \/ /\ Goto(i, "undefined")
        /\ txn' = [txn EXCEPT ![i] = "none"]
        /\ conn' = [conn EXCEPT ![i] = Clean]
        /\ Unlock(i)
        /\ UNCHANGED <<running, txnActive>>
  /\ UNCHANGED <<registry, call>>

\* Mutant: the transaction ends, its rows stay.
AbortTxnKeepsRows(i) ==
  /\ txnActive' = [txnActive EXCEPT ![i] = FALSE]
  /\ txn' = [txn EXCEPT ![i] = "none"]
  /\ conn' = [conn EXCEPT ![i].begun = FALSE]

\* abort_txn, of a write transaction and of a read transaction.
AbortTxn(i) ==
  /\ txnActive' = [txnActive EXCEPT ![i] = FALSE]
  /\ txn' = [txn EXCEPT ![i] = "none"]
  /\ conn' = IF txn[i] = "active" THEN [conn EXCEPT ![i] = Clean] ELSE conn

\* Mutant: the transaction is committed whatever happened.
ThrowCommits(i) ==
  /\ running /\ pc[i] = "callback" /\ txn[i] # "none"
  /\ AbortTxn(i)
  /\ Unlock(i)
  /\ Threw(i)
  /\ durable' = [durable EXCEPT ![i] = @ + conn[i].rows]
  /\ Goto(i, "idle")
  /\ UNCHANGED <<registry, running, left, done, failed, undone, faults>>

\* Mutant: an aborted write transaction keeps the mutex.
ThrowKeepsMutex(i) ==
  /\ running /\ pc[i] = "callback" /\ txn[i] # "none"
  /\ AbortTxn(i)
  /\ Threw(i)
  /\ Goto(i, "idle")
  /\ UNCHANGED <<mutex, registry, running, left, done, durable, failed, undone, faults>>

\* The callback throws.
Throw(i) ==
  /\ running /\ pc[i] = "callback" /\ txn[i] # "none"
  /\ AbortTxn(i)
  /\ Unlock(i)
  /\ Threw(i)
  /\ Goto(i, "idle")
  /\ UNCHANGED <<registry, running, left, done, durable, failed, undone, faults>>

\* The callback ends, either way, after a failed putAll: there is no pointer
\* left to commit or to abort.
EndWithoutTxn(i) ==
  /\ running /\ pc[i] = "callback" /\ txn[i] = "none"
  /\ Threw(i)
  /\ Goto(i, "idle")
  /\ UNCHANGED <<engine, registry, running, left, done, durable, failed, undone, faults>>

\* Mutant: a read unlocks what it never locked.
ReadEndUnlocks(i) ==
  /\ running /\ pc[i] = "read"
  /\ AbortTxn(i)
  /\ Unlock(i)
  /\ Goto(i, "idle")
  /\ UNCHANGED <<registry, running, call, faults>>

ReadEnd(i) ==
  /\ running /\ pc[i] = "read"
  /\ AbortTxn(i)
  /\ Goto(i, "idle")
  /\ UNCHANGED <<mutex, registry, running, call, faults>>

-----------------------------------------------------------------------------
\* The isolate is inside a call that does not wait for others.
Proceed(i) ==
  \/ Statement(i) \/ StatementFails(i)
  \/ InsertBegin(i) \/ InsertBatch(i) \/ InsertFinish(i)
  \/ InsertFails(i) \/ InsertAbandoned(i) \/ InsertRefused(i)
  \/ Commit(i) \/ CommitFails(i) \/ AbortFreed(i) \/ Throw(i) \/ EndWithoutTxn(i)
  \/ ReadEnd(i)

Acquire(i) == WriteBegin(i) \/ WriteBeginFails(i)

Next ==
  \E i \in Isolate :
    \/ Open(i) \/ CloseCheck(i) \/ CloseLocked(i) \/ CloseReturn(i) \/ CloseDone(i)
    \/ WriteCall(i) \/ ReadBegin(i) \/ ReadBeginFails(i)
    \/ Acquire(i) \/ Proceed(i)

Spec == Init /\ [][Next]_vars

\* Threads are scheduled, callbacks end, and the mutex is handed to a waiting
\* thread sooner or later (parking_lot unlocks fairly every half millisecond).
Fairness == \A i \in Isolate : WF_vars(Proceed(i)) /\ SF_vars(Acquire(i))

FairSpec == Spec /\ Fairness

-----------------------------------------------------------------------------
(* Properties.                                                             *)

TypeOK ==
  /\ pc \in [Isolate -> Places]
  /\ txn \in [Isolate -> {"none", "active", "inactive"}]
  /\ txnActive \in [Isolate -> BOOLEAN]
  /\ conn \in [Isolate -> Connections]
  /\ mutex \in Isolate \cup {Nobody}
  /\ registered \in BOOLEAN /\ running \in BOOLEAN
  /\ pool \in Seq(Connections)
  /\ left \in [Isolate -> 0..MaxOps]
  /\ outcome \in [Isolate -> {"none", "returned", "threw"}]
  /\ done \in [Isolate -> 0..MaxOps]
  /\ durable \in [Isolate -> 0..MaxOps]
  /\ failed \in [Isolate -> BOOLEAN]
  /\ detached \in [Isolate -> BOOLEAN]
  /\ undone \in [Isolate -> BOOLEAN]
  /\ faults \subseteq {"begin", "dropped", "freed"}

Writing(i) == pc[i] \in {"callback", "insert"} /\ txn[i] # "none"

\* A write() that returns has made every one of its statements durable, and
\* none of them has failed: an error the callback swallows still fails the
\* commit (SQLiteTxn::guard, commit).
ReturnedMeansAll ==
  \A i \in Isolate :
    outcome[i] = "returned" => ~failed[i] /\ durable[i] = done[i]

\* A write() that throws has left nothing behind, unless SQLite rolled back
\* on its own or the error was in a future (write, abort_txn, guard).
ThrewMeansNothing ==
  \A i \in Isolate :
    (outcome[i] = "threw" /\ ~undone[i] /\ ~detached[i]) => durable[i] = 0

\* write_mutex keeps write transactions apart as long as no freed transaction
\* is aborted; a transaction that runs holds the mutex.
WritersHoldMutex ==
  "freed" \notin faults => \A i \in Isolate : Writing(i) => mutex = i

\* close_instance finds the entry it returns its connection to, and whoever
\* still has an instance can look it up again.
HeldMeansRegistered ==
  \A i \in Isolate : pc[i] # "closed" => registered

\* Between two calls an isolate leaves no trace of the last: its flag is
\* clear, the mutex is not its own, and its connection, like every one in the
\* pool, is outside any transaction.  Until something fails to begin or a
\* putAll fails (begin_txn, commit_txn, abort_txn).
NothingLeftBehind ==
  faults = {} =>
    /\ \A i \in Isolate : pc[i] \in {"idle", "removing", "returning"} =>
         ~txnActive[i] /\ mutex # i /\ ~conn[i].begun
    /\ \A n \in DOMAIN pool : ~pool[n].begun

\* A write() that waits for the mutex gets it, unless begin_txn has failed, a
\* putAll has failed, or the process is gone.
WritersGetTheirTurn ==
  \A i \in Isolate :
    pc[i] = "waiting" ~> (pc[i] # "waiting" \/ faults # {})

\* The documentation of Isar.write: "If an error occurs, the transaction is
\* aborted", so once write() is over its isolate does not hold the mutex
\* (begin_txn's own failures aside).
MutexBelongsToWriter ==
  "begin" \notin faults => \A i \in Isolate : mutex = i => pc[i] # "idle"
=============================================================================
