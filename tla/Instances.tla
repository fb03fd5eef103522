------------------------------ MODULE Instances ------------------------------
(***************************************************************************)
(* The instances of the native engine in one process: the registry         *)
(* INSTANCES and its lock, the reference counts that decide who closes the *)
(* environment and deletes its file, compaction when an instance is        *)
(* opened, and the two protocols by which a Dart isolate shares its        *)
(* instance with a helper isolate (openAsync; readAsync and writeAsync).   *)
(*                                                                         *)
(* There is one database.  All handles to it share one Arc<NativeInstance> *)
(* and so one Env.  MDBX is external: it refuses to open a file the        *)
(* process has open already, and to copy onto a file that exists.  A file  *)
(* that is removed while it is open stays with those that have it open.    *)
(***************************************************************************)
EXTENDS Naturals, FiniteSets

CONSTANTS
  Isolate,
  Free,        \* the lock of INSTANCES is free
  Absent,      \* no such file
  Partial,     \* a copy that a crash interrupted
  MaxWrites,   \* bound on the transactions committed
  MaxCrashes   \* bound on the crashes of the process

Holder == Isolate \X {"main", "helper"}

ASSUME InstancesAssumption ==
  /\ IsFiniteSet(Isolate)
  /\ Free \notin Holder
  /\ MaxWrites \in Nat /\ MaxCrashes \in Nat
  /\ Absent # Partial /\ {Absent, Partial} \cap Nat = {}

VARIABLES
  place,       \* what the main thread and the helper of each isolate do
  job,         \* what the isolate started its helper for
  lock,        \* who holds the lock of INSTANCES
  registered,  \* INSTANCES has an entry
  disk,        \* the database file: the number of writes in it
  gone,        \* the file of the open environment if deleteDatabase took it
               \* away, Absent if it did not
  copy,        \* the file <name>.isar.compact
  saved,       \* history: the writes committed to the file at the path since
               \* it was last deleted
  crashes      \* history: how often the process has crashed

vars == <<place, job, lock, registered, disk, gone, copy, saved, crashes>>

files == <<disk, gone, copy, saved>>

-----------------------------------------------------------------------------
Opening == {"migrating", "copied", "reopening", "remigrating"}
Holding == {"holding", "removing", "deleting", "declined", "dropping"}
Places  == {"idle", "starting", "done", "failed", "awaitPort", "awaitClosed",
            "detached"} \cup Opening \cup Holding

Main(i)   == <<i, "main">>
Helper(i) == <<i, "helper">>

Holds(h) == place[h] \in Holding \cup {"awaitClosed"}

StrongCount == Cardinality({h \in Holder : Holds(h)}) + (IF registered THEN 1 ELSE 0)

\* Between the two environments of a compaction there is none.
Opens(h) == place[h] \in Opening \ {"reopening"}

EnvOpen == registered \/ \E h \in Holder : Holds(h) \/ Opens(h)

\* The writes the open environment has.
Content == IF gone = Absent THEN disk ELSE gone

Goto(h, p) == place' = [place EXCEPT ![h] = p]

\* Where a handle ends, and where an open or a get that fails does: a helper
\* sends the outcome to its isolate.
Ended(h)  == IF h[2] = "main" THEN "idle" ELSE "done"

\* Mutant: the helper dies without a word.
FailedUnsent(h) == "idle"

Failed(h) == IF h[2] = "main" THEN "idle" ELSE "failed"

Init ==
  /\ place = [h \in Holder |-> "idle"]
  /\ job = [i \in Isolate |-> "none"]
  /\ lock = Free
  /\ registered = FALSE
  /\ disk = Absent /\ gone = Absent /\ copy = Absent /\ saved = Absent
  /\ crashes = 0

-----------------------------------------------------------------------------
(* Opening: open_instance holds the lock until the instance is registered. *)

MayOpen(h) ==
  /\ lock = Free
  /\ \/ h[2] = "main" /\ place[h] = "idle"
     \/ h[2] = "helper" /\ place[h] = "starting" /\ job[h[1]] = "open"

OpenShared(h) ==
  /\ MayOpen(h) /\ registered
  /\ Goto(h, "holding")
  /\ UNCHANGED <<job, lock, registered, files, crashes>>

\* Env::create makes the file when there is none.
CreateEnv ==
  /\ disk' = IF disk = Absent THEN 0 ELSE disk
  /\ saved' = IF disk = Absent THEN 0 ELSE saved

OpenNew(h) ==
  /\ MayOpen(h) /\ ~EnvOpen
  /\ lock' = h
  /\ Goto(h, "migrating")
  /\ CreateEnv
  /\ UNCHANGED <<job, registered, gone, copy, crashes>>

\* The last handle of an instance that is no longer registered has not been
\* dropped yet: MDBX refuses.
OpenFails(h) ==
  /\ MayOpen(h) /\ ~registered /\ EnvOpen
  /\ Goto(h, Failed(h))
  /\ UNCHANGED <<job, lock, registered, files, crashes>>

\* Mutant: the error of the copy is ignored.
CompactCopyIgnored(h) ==
  /\ place[h] = "migrating"
  /\ copy' = IF copy = Absent THEN disk ELSE copy
  /\ Goto(h, "copied")
  /\ UNCHANGED <<job, lock, registered, disk, gone, saved, crashes>>

\* compact_instance: the file is there and large enough; copy it.
CompactCopy(h) ==
  /\ place[h] = "migrating" /\ disk # Absent /\ copy = Absent
  /\ copy' = disk
  /\ Goto(h, "copied")
  /\ UNCHANGED <<job, lock, registered, disk, gone, saved, crashes>>

\* Drop the environment and put the copy in the place of the file; whether
\* that works is not looked at.  A database deleted since the copy comes back.
CompactRename(h) ==
  /\ place[h] = "copied"
  /\ \/ disk' = copy /\ copy' = Absent
     \/ UNCHANGED <<disk, copy>>
  /\ gone' = Absent
  /\ saved' = IF gone = Absent THEN saved ELSE disk'
  /\ Goto(h, "reopening")
  /\ UNCHANGED <<job, lock, registered, crashes>>

\* open_native calls itself, without a compaction this time.
Reopen(h) ==
  /\ place[h] = "reopening"
  /\ Goto(h, "remigrating")
  /\ CreateEnv
  /\ UNCHANGED <<job, lock, registered, gone, copy, crashes>>

OpenDone(h) ==
  /\ place[h] \in {"migrating", "remigrating"}
  /\ registered' = TRUE
  /\ lock' = Free
  /\ Goto(h, "holding")
  /\ UNCHANGED <<job, files, crashes>>

\* The migration, the copy or the second Env::create fails, or the file to
\* compact is gone.
OpenAborts(h) ==
  /\ place[h] \in Opening \ {"copied"}
  /\ lock' = Free
  /\ gone' = Absent
  /\ Goto(h, Failed(h))
  /\ UNCHANGED <<job, registered, disk, copy, saved, crashes>>

\* Isar.get, and the helper of an asynchronous transaction.
Get(h) ==
  /\ lock = Free
  /\ \/ h[2] = "main" /\ place[h] = "idle"
     \/ h[2] = "helper" /\ place[h] = "starting" /\ job[h[1]] = "txn"
  /\ Goto(h, IF registered THEN "holding" ELSE Failed(h))
  /\ UNCHANGED <<job, lock, registered, files, crashes>>

-----------------------------------------------------------------------------
(* Closing.                                                                *)

\* A helper closes what it opened once the isolate has answered.
MayClose(h) ==
  /\ place[h] = "holding"
  /\ (h[2] = "helper" /\ job[h[1]] = "open") => place[Main(h[1])] = "awaitClosed"

\* The first look at the count, without the lock.  A helper never deletes.
CloseCheck(h) ==
  /\ MayClose(h)
  /\ IF StrongCount = 2
       THEN \/ Goto(h, "removing")
            \/ h[2] = "main" /\ Goto(h, "deleting")
       ELSE Goto(h, "declined")
  /\ UNCHANGED <<job, lock, registered, files, crashes>>

\* Mutant: the entry goes without a second look.
CloseRemoveUnchecked(h) ==
  /\ place[h] = "removing" /\ lock = Free
  /\ registered' = FALSE
  /\ Goto(h, IF gone = Absent THEN "dropping" ELSE "detached")
  /\ gone' = Absent
  /\ UNCHANGED <<job, lock, disk, copy, saved, crashes>>

\* The last references: the entry goes, and with a plain close the lock is
\* released before the instance is dropped.  An environment whose file is gone
\* is in nobody's way then: it is "detached".
CloseRemove(h) ==
  /\ place[h] = "removing" /\ lock = Free /\ StrongCount = 2
  /\ registered' = FALSE
  /\ Goto(h, IF gone = Absent THEN "dropping" ELSE "detached")
  /\ gone' = Absent
  /\ UNCHANGED <<job, lock, disk, copy, saved, crashes>>

\* Mutant: the files go whatever the second look says.
CloseDeleteAnyway(h) ==
  /\ place[h] = "deleting" /\ lock = Free
  /\ registered' = (registered /\ StrongCount # 2)
  /\ disk' = Absent /\ gone' = Absent /\ saved' = Absent
  /\ Goto(h, Ended(h))
  /\ UNCHANGED <<job, lock, copy, crashes>>

\* With deleteFromDisk the instance is dropped and its files are removed
\* under the lock.
CloseDelete(h) ==
  /\ place[h] = "deleting" /\ lock = Free /\ StrongCount = 2
  /\ registered' = FALSE
  /\ disk' = Absent /\ gone' = Absent /\ saved' = Absent
  /\ Goto(h, Ended(h))
  /\ UNCHANGED <<job, lock, copy, crashes>>

\* The second look finds a new reference.
CloseKept(h) ==
  /\ place[h] \in {"removing", "deleting"} /\ lock = Free /\ StrongCount # 2
  /\ Goto(h, "declined")
  /\ UNCHANGED <<job, lock, registered, files, crashes>>

\* close returns; its handle is dropped.
CloseDone(h) ==
  /\ place[h] \in {"declined", "dropping", "detached"}
  /\ Goto(h, Ended(h))
  /\ UNCHANGED <<job, lock, registered, files, crashes>>

\* Isar.deleteDatabase removes the file at any moment: it looks neither at the
\* registry nor at its lock, and an environment that is open keeps a file that
\* has no name any more.  (Windows does not remove an open file, and the failure
\* is ignored.)
DeleteDatabase ==
  /\ disk # Absent
  /\ disk' = Absent /\ saved' = Absent
  /\ gone' = IF registered \/ \E h \in Holder : Opens(h) THEN disk ELSE Absent
  /\ place' = [h \in Holder |-> IF place[h] = "dropping" THEN "detached" ELSE place[h]]
  /\ UNCHANGED <<job, lock, registered, copy, crashes>>

-----------------------------------------------------------------------------
(* What the isolates do with it.                                           *)

\* A write to a file that is gone goes with it.
Write(h) ==
  /\ place[h] = "holding" /\ Content \in 0..(MaxWrites - 1)
  /\ (h[2] = "helper") => job[h[1]] = "txn"
  /\ IF gone = Absent
       THEN disk' = disk + 1 /\ saved' = saved + 1 /\ UNCHANGED gone
       ELSE gone' = gone + 1 /\ UNCHANGED <<disk, saved>>
  /\ UNCHANGED <<place, job, lock, registered, copy, crashes>>

AsyncOpen(i) ==
  /\ place[Main(i)] = "idle" /\ job[i] = "none"
  /\ job' = [job EXCEPT ![i] = "open"]
  /\ place' = [place EXCEPT ![Main(i)] = "awaitPort", ![Helper(i)] = "starting"]
  /\ UNCHANGED <<lock, registered, files, crashes>>

\* The helper has sent its port: the isolate gets the instance, which must be
\* registered, and answers.
AsyncGet(i) ==
  /\ job[i] = "open" /\ place[Main(i)] = "awaitPort" /\ place[Helper(i)] = "holding"
  /\ lock = Free /\ registered
  /\ Goto(Main(i), "awaitClosed")
  /\ UNCHANGED <<job, lock, registered, files, crashes>>

AsyncOpened(i) ==
  /\ job[i] = "open" /\ place[Main(i)] = "awaitClosed" /\ place[Helper(i)] = "done"
  /\ place' = [place EXCEPT ![Main(i)] = "holding", ![Helper(i)] = "idle"]
  /\ job' = [job EXCEPT ![i] = "none"]
  /\ UNCHANGED <<lock, registered, files, crashes>>

AsyncFails(i) ==
  /\ job[i] = "open" /\ place[Helper(i)] = "failed"
  /\ place' = [place EXCEPT ![Main(i)] = "idle", ![Helper(i)] = "idle"]
  /\ job' = [job EXCEPT ![i] = "none"]
  /\ UNCHANGED <<lock, registered, files, crashes>>

\* readAsync and writeAsync: the isolate does not wait.
AsyncTxn(i) ==
  /\ place[Main(i)] = "holding" /\ job[i] = "none"
  /\ job' = [job EXCEPT ![i] = "txn"]
  /\ Goto(Helper(i), "starting")
  /\ UNCHANGED <<lock, registered, files, crashes>>

AsyncTxnEnds(i) ==
  /\ job[i] = "txn" /\ place[Helper(i)] \in {"done", "failed"}
  /\ job' = [job EXCEPT ![i] = "none"]
  /\ Goto(Helper(i), "idle")
  /\ UNCHANGED <<lock, registered, files, crashes>>

\* The process dies: the files stay, and a copy that was being made is cut off.
Crash ==
  /\ crashes < MaxCrashes
  /\ crashes' = crashes + 1
  /\ place' = [h \in Holder |-> "idle"]
  /\ job' = [i \in Isolate |-> "none"]
  /\ lock' = Free
  /\ registered' = FALSE
  /\ gone' = Absent
  /\ \/ UNCHANGED copy
     \/ copy = Absent /\ (\E h \in Holder : place[h] = "migrating") /\ copy' = Partial
  /\ UNCHANGED <<disk, saved>>

-----------------------------------------------------------------------------
Open(h) == OpenShared(h) \/ OpenNew(h) \/ OpenFails(h)

\* The steps of calls that have begun.
Proceed(h) ==
  \/ CompactCopy(h) \/ CompactRename(h) \/ Reopen(h) \/ OpenDone(h) \/ OpenAborts(h)
  \/ CloseRemove(h) \/ CloseDelete(h) \/ CloseKept(h) \/ CloseDone(h)
  \/ h[2] = "helper" /\ (Open(h) \/ Get(h) \/ CloseCheck(h))

Answer(i) == AsyncGet(i) \/ AsyncOpened(i) \/ AsyncFails(i) \/ AsyncTxnEnds(i)

Next ==
  \/ \E h \in Holder : Proceed(h) \/ Write(h)
  \/ \E i \in Isolate :
       \/ Open(Main(i)) \/ Get(Main(i)) \/ CloseCheck(Main(i))
       \/ AsyncOpen(i) \/ AsyncTxn(i) \/ Answer(i)
  \/ DeleteDatabase
  \/ Crash

Spec == Init /\ [][Next]_vars

\* Threads run, the lock is passed on (parking_lot unlocks fairly every half
\* millisecond), and the event loop of an isolate takes its messages.
Fairness ==
  /\ \A h \in Holder : SF_vars(Proceed(h))
  /\ \A i \in Isolate : SF_vars(Answer(i))

FairSpec == Spec /\ Fairness

-----------------------------------------------------------------------------
(* Properties.                                                             *)

TypeOK ==
  /\ place \in [Holder -> Places]
  /\ job \in [Isolate -> {"none", "open", "txn"}]
  /\ lock \in Holder \cup {Free}
  /\ registered \in BOOLEAN
  /\ disk \in (0..MaxWrites) \cup {Absent}
  /\ gone \in (0..MaxWrites) \cup {Absent}
  /\ copy \in (0..MaxWrites) \cup {Absent, Partial}
  /\ saved \in (0..MaxWrites) \cup {Absent}
  /\ crashes \in 0..MaxCrashes

\* Only a close that has removed the entry holds an instance that is not
\* registered: Isar.get finds whatever somebody has open (close, get_instance).
HeldMeansRegistered ==
  \A h \in Holder : (Holds(h) /\ place[h] # "dropping") => registered

\* An instance in use has its file: a close that deletes never removes it from
\* under somebody else, and whatever becomes of a compaction, the instance it
\* ends in has one (close with deleteFromDisk, compact_instance).
\* deleteDatabase is the exception, and `gone' its trace: it asks nobody.
InstanceHasItsFile == EnvOpen /\ gone = Absent => disk # Absent

\* The file at the path has what was committed to it, through compactions that
\* a crash cuts off at any point, copies left over from them, and renames that
\* fail (compact_instance, open_native).  What is committed after a
\* deleteDatabase to the environment that is still open is not in it.
CommittedSurvives == disk = saved

\* openAsync comes to an end: the isolate and its helper never wait for each
\* other for ever (openAsync).
AsyncOpenEnds ==
  \A i \in Isolate :
    place[Main(i)] = "awaitPort" ~> place[Main(i)] \notin {"awaitPort", "awaitClosed"}

\* The documentation of close: the instance is closed by "the only isolate
\* that holds a reference", so once nobody holds one it is gone.
LastCloseCloses ==
  (\A h \in Holder : ~Holds(h)) => ~registered
=============================================================================
