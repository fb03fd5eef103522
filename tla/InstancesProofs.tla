--------------------------- MODULE InstancesProofs ---------------------------
(***************************************************************************)
(* Proofs about the registry of native instances, for every set of         *)
(* isolates.                                                               *)
(***************************************************************************)
EXTENDS Instances, FiniteSetTheorems, TLAPS

\* Whoever is opening the database has the lock, and nobody has an instance:
\* between the copy and the rename of a compaction nobody can write.
OpenerAlone ==
  \A h \in Holder : place[h] \in Opening =>
    /\ lock = h /\ ~registered
    /\ \A g \in Holder : ~Holds(g)
    /\ place[h] = "copied" => copy = Content

\* A file that was taken away belongs to the environment that is open, and
\* none is at its path.
GoneInUse ==
  gone # Absent => disk = Absent /\ (registered \/ \E h \in Holder : Opens(h))

\* A helper rests when it has no job, and the isolate waits while it opens.
Partners ==
  \A i \in Isolate :
    /\ job[i] = "none" => place[Helper(i)] = "idle"
    /\ job[i] = "open" => place[Main(i)] \in {"awaitPort", "awaitClosed"}

IInv ==
  /\ TypeOK /\ OpenerAlone /\ GoneInUse /\ Partners
  /\ HeldMeansRegistered /\ InstanceHasItsFile /\ CommittedSurvives

\* A close that counts two references, of which the registry has one, has the
\* only other one.
LEMMA OnlyHolder ==
  ASSUME TypeOK, registered, StrongCount = 2,
         NEW h \in Holder, Holds(h), NEW g \in Holder, Holds(g)
  PROVE  g = h
<1> DEFINE S == {x \in Holder : Holds(x)}
<1>1. IsFiniteSet(Holder)
  <2>1. IsFiniteSet({"main", "helper"})
    <3>1. IsFiniteSet({"main"}) /\ IsFiniteSet({"helper"})
      BY FS_Singleton
    <3>2. {"main", "helper"} = {"main"} \cup {"helper"}
      OBVIOUS
    <3> QED BY <3>1, <3>2, FS_Union
  <2> QED BY <2>1, FS_Product, InstancesAssumption DEF Holder
<1>2. IsFiniteSet(S)
  BY <1>1, FS_Subset
<1>3. Cardinality(S) \in Nat
  BY <1>2, FS_CardinalityType
<1>4. Cardinality(S) = 1
  BY <1>3 DEF StrongCount
<1>5. PICK x : S = {x}
  BY <1>2, <1>4, FS_Singleton
<1> QED BY <1>5

\* Env::create makes an empty file, or finds the one that is there.
LEMMA Created ==
  ASSUME disk \in (0..MaxWrites) \cup {Absent}, saved = disk, CreateEnv
  PROVE  disk' # Absent /\ disk' \in (0..MaxWrites) \cup {Absent} /\ saved' = disk'
<1>1. 0 \in 0..MaxWrites /\ 0 # Absent
  BY InstancesAssumption
<1> QED BY <1>1 DEF CreateEnv

LEMMA InitIInv == Init => IInv
<1> SUFFICES ASSUME Init PROVE IInv
  OBVIOUS
<1>1. TypeOK
  <2>1. place \in [Holder -> Places]
    BY DEF Init, Places
  <2>2. job \in [Isolate -> {"none", "open", "txn"}]
    BY DEF Init
  <2>3. crashes \in 0..MaxCrashes
    BY InstancesAssumption DEF Init
  <2>4. registered \in BOOLEAN
    BY DEF Init
  <2> QED BY <2>1, <2>2, <2>3, <2>4 DEF Init, TypeOK
<1>2. \A h \in Holder : ~Holds(h) /\ place[h] \notin Opening
  BY DEF Init, Holds, Opening, Holding
<1>3. OpenerAlone /\ GoneInUse /\ Partners /\ HeldMeansRegistered /\ InstanceHasItsFile /\ CommittedSurvives
  BY <1>2 DEF Init, OpenerAlone, GoneInUse, HeldMeansRegistered, InstanceHasItsFile,
              CommittedSurvives, EnvOpen, Opens, Partners, Holder, Helper, Main
<1> QED BY <1>1, <1>3 DEF IInv

\* No step of an open, a close or a protocol disturbs the invariant; an action
\* is one step below.
LEMMA NextIInv == IInv /\ [Next]_vars => IInv'
<1> SUFFICES ASSUME IInv, [Next]_vars PROVE IInv'
  OBVIOUS
<1> USE InstancesAssumption DEF IInv
<1> USE DEF TypeOK, OpenerAlone, GoneInUse, Partners, HeldMeansRegistered, InstanceHasItsFile, CommittedSurvives
<1> USE DEF Holder, Opening, Holding, Places, Holds, Opens, EnvOpen, Content, Goto, files, Main, Helper
<1>1. ASSUME NEW h \in Holder, OpenShared(h) PROVE IInv'
  BY <1>1 DEF OpenShared, MayOpen
<1>2. ASSUME NEW h \in Holder, OpenNew(h) PROVE IInv'
  <2>1. /\ gone = Absent /\ ~registered /\ \A g \in Holder : ~Holds(g)
        /\ \A g \in Holder : place[g] \notin Opening
    BY <1>2 DEF OpenNew, MayOpen
  <2>2. /\ place'[h] = "migrating" /\ \A g \in Holder \ {h} : place'[g] = place[g]
        /\ place' \in [Holder -> Places] /\ lock' = h
        /\ UNCHANGED <<job, registered, gone, copy, crashes>>
    BY <1>2 DEF OpenNew
  <2>3. disk' # Absent /\ disk' \in (0..MaxWrites) \cup {Absent} /\ saved' = disk'
    BY <1>2, Created DEF OpenNew
  <2>4. TypeOK'
    BY <2>2, <2>3
  <2>5. OpenerAlone' /\ HeldMeansRegistered'
    BY <2>1, <2>2
  <2>6. GoneInUse' /\ InstanceHasItsFile' /\ CommittedSurvives'
    BY <2>1, <2>2, <2>3
  <2>7. ASSUME NEW i \in Isolate
        PROVE  /\ job[i] = "none" => place'[Helper(i)] = "idle"
               /\ job[i] = "open" => place'[Main(i)] \in {"awaitPort", "awaitClosed"}
    <3>1. Helper(i) \in Holder /\ Main(i) \in Holder /\ Helper(i)[1] = i /\ Helper(i)[2] = "helper"
          /\ Main(i)[1] = i /\ Main(i)[2] = "main"
      OBVIOUS
    <3>2. job[i] = "none" => Helper(i) # h
      BY <1>2, <3>1 DEF OpenNew, MayOpen
    <3>3. job[i] = "open" => Main(i) # h
      BY <1>2, <3>1 DEF OpenNew, MayOpen
    <3> QED BY <2>2, <3>1, <3>2, <3>3
  <2> QED BY <2>2, <2>4, <2>5, <2>6, <2>7
<1>3. ASSUME NEW h \in Holder, OpenFails(h) PROVE IInv'
  BY <1>3 DEF OpenFails, Failed, MayOpen
<1>4. ASSUME NEW h \in Holder, CompactCopy(h) PROVE IInv'
  BY <1>4 DEF CompactCopy
<1>5. ASSUME NEW h \in Holder, CompactRename(h) PROVE IInv'
  BY <1>5 DEF CompactRename
<1>6. ASSUME NEW h \in Holder, OpenDone(h) PROVE IInv'
  BY <1>6 DEF OpenDone
<1>7. ASSUME NEW h \in Holder, OpenAborts(h) PROVE IInv'
  BY <1>7 DEF OpenAborts, Failed
<1>8. ASSUME NEW h \in Holder, Get(h) PROVE IInv'
  BY <1>8 DEF Get, Failed
<1>9. ASSUME NEW h \in Holder, CloseCheck(h) PROVE IInv'
  BY <1>9 DEF CloseCheck, MayClose
<1>10. ASSUME NEW h \in Holder, CloseRemove(h) PROVE IInv'
  <2>1. /\ place'[h] \in {"dropping", "detached"} /\ (gone # Absent => place'[h] = "detached")
        /\ place[h] = "removing" /\ \A g \in Holder \ {h} : place'[g] = place[g]
        /\ place' \in [Holder -> Places] /\ registered' = FALSE /\ gone' = Absent
        /\ UNCHANGED <<job, lock, disk, copy, saved, crashes>>
    BY <1>10 DEF CloseRemove
  <2>2. registered /\ \A g \in Holder \ {h} : ~Holds(g)
    BY <1>10, OnlyHolder DEF CloseRemove
  <2>3. \A g \in Holder : place[g] \notin Opening
    BY <2>2
  <2>4. GoneInUse' /\ CommittedSurvives'
    BY <2>1
  <2>5. OpenerAlone' /\ HeldMeansRegistered' /\ InstanceHasItsFile'
    BY <2>1, <2>2, <2>3
  <2>6. TypeOK'
    <3>1. registered' \in BOOLEAN /\ gone' \in (0..MaxWrites) \cup {Absent}
      BY <2>1
    <3> QED BY <2>1, <3>1
  <2>7. Partners'
    <3>1. \A i \in Isolate : Helper(i) \in Holder /\ Main(i) \in Holder
      OBVIOUS
    <3>2. \A g \in Holder : place[g] \in {"idle", "awaitPort", "awaitClosed"} => place'[g] = place[g]
      BY <2>1
    <3>3. ASSUME NEW i \in Isolate
          PROVE  /\ job[i] = "none" => place'[Helper(i)] = "idle"
                 /\ job[i] = "open" => place'[Main(i)] \in {"awaitPort", "awaitClosed"}
      BY <3>1, <3>2
    <3>4. job' = job
      BY <2>1
    <3> QED BY <3>3, <3>4
  <2> QED BY <2>4, <2>5, <2>6, <2>7
<1>11. ASSUME NEW h \in Holder, CloseDelete(h) PROVE IInv'
  <2>1. registered /\ \A g \in Holder : Holds(g) => g = h
    BY <1>11, OnlyHolder DEF CloseDelete
  <2>2. place'[h] \in {"idle", "done"} /\ \A g \in Holder \ {h} : place'[g] = place[g]
    BY <1>11 DEF CloseDelete, Ended
  <2>3. \A g \in Holder : ~Holds(g)' /\ place'[g] \notin Opening
    BY <1>11, <2>1, <2>2 DEF CloseDelete
  <2>4. place' \in [Holder -> Places]
    BY <1>11 DEF CloseDelete, Ended
  <2>5. TypeOK' /\ CommittedSurvives'
    BY <1>11, <2>4 DEF CloseDelete
  <2>6. OpenerAlone' /\ HeldMeansRegistered' /\ InstanceHasItsFile'
    BY <1>11, <2>3 DEF CloseDelete
  <2>7. GoneInUse' /\ Partners'
    BY <1>11, <2>2 DEF CloseDelete
  <2> QED BY <2>5, <2>6, <2>7
<1>12. ASSUME NEW h \in Holder, CloseKept(h) PROVE IInv'
  BY <1>12 DEF CloseKept
<1>13. ASSUME NEW h \in Holder, CloseDone(h) PROVE IInv'
  BY <1>13 DEF CloseDone, Ended
<1>14. ASSUME NEW h \in Holder, Write(h) PROVE IInv'
  <2>1. UNCHANGED <<place, job, lock, registered, copy, crashes>> /\ place[h] = "holding"
    BY <1>14 DEF Write
  <2>2. /\ disk' \in (0..MaxWrites) \cup {Absent} /\ gone' \in (0..MaxWrites) \cup {Absent}
        /\ (gone' = Absent <=> gone = Absent) /\ (disk' = Absent <=> disk = Absent)
        /\ saved' = disk'
    <3>1. \A n \in 0..(MaxWrites - 1) : n + 1 \in 0..MaxWrites /\ n + 1 # Absent /\ n # Absent
      <4>1. MaxWrites \in Nat /\ \A n \in Nat : n # Absent
        OBVIOUS
      <4>2. \A n \in 0..(MaxWrites - 1) : n \in Nat /\ n + 1 \in Nat /\ n + 1 \in 0..MaxWrites
        BY <4>1
      <4> QED BY <4>1, <4>2
    <3>2. CASE gone = Absent
      BY <1>14, <3>1, <3>2 DEF Write
    <3>3. CASE gone # Absent
      BY <1>14, <3>1, <3>3 DEF Write
    <3> QED BY <3>2, <3>3
  <2>3. TypeOK' /\ GoneInUse' /\ InstanceHasItsFile' /\ CommittedSurvives'
    BY <2>1, <2>2
  <2>4. OpenerAlone' /\ HeldMeansRegistered' /\ Partners'
    BY <2>1
  <2> QED BY <2>3, <2>4
<1>15. ASSUME NEW i \in Isolate, AsyncOpen(i) PROVE IInv'
  <2>1. \A h \in Holder : place'[h] = place[h] \/ place'[h] \in {"awaitPort", "starting"}
    BY <1>15 DEF AsyncOpen
  <2>2. TypeOK'
    BY <1>15 DEF AsyncOpen
  <2>3. OpenerAlone' /\ HeldMeansRegistered'
    BY <1>15, <2>1 DEF AsyncOpen
  <2>4. \A h \in Holder : Opens(h)' <=> Opens(h)
    BY <1>15 DEF AsyncOpen
  <2>5. EnvOpen' => EnvOpen
    BY <1>15, <2>1, <2>4 DEF AsyncOpen
  <2>6. InstanceHasItsFile' /\ CommittedSurvives' /\ GoneInUse'
    BY <1>15, <2>4, <2>5 DEF AsyncOpen
  <2>7. Partners'
    BY <1>15 DEF AsyncOpen
  <2> QED BY <2>2, <2>3, <2>6, <2>7
<1>16. ASSUME NEW i \in Isolate, AsyncTxn(i) PROVE IInv'
  BY <1>16 DEF AsyncTxn
<1>17. ASSUME NEW i \in Isolate, AsyncGet(i) PROVE IInv'
  BY <1>17 DEF AsyncGet
<1>18. ASSUME NEW i \in Isolate, AsyncOpened(i) PROVE IInv'
  <2>1. /\ place[Main(i)] = "awaitClosed" /\ place'[Main(i)] = "holding"
        /\ place[Helper(i)] = "done" /\ place'[Helper(i)] = "idle"
        /\ \A g \in Holder \ {Main(i), Helper(i)} : place'[g] = place[g]
    BY <1>18 DEF AsyncOpened
  <2>2. Main(i) \in Holder /\ Helper(i) \in Holder
    OBVIOUS
  <2>3. \A g \in Holder : /\ Holds(g)' <=> Holds(g)
                          /\ place'[g] \in Opening => place[g] \in Opening /\ place'[g] = place[g]
                          /\ place[g] = "dropping" => place'[g] = "dropping"
    BY <2>1, <2>2
  <2>4. TypeOK'
    BY <1>18 DEF AsyncOpened
  <2>5. OpenerAlone' /\ HeldMeansRegistered'
    BY <1>18, <2>3 DEF AsyncOpened
  <2>6. \A g \in Holder : Opens(g)' <=> Opens(g)
    BY <2>1, <2>2
  <2>7. EnvOpen' => EnvOpen
    BY <1>18, <2>3, <2>6 DEF AsyncOpened
  <2>8. InstanceHasItsFile' /\ CommittedSurvives' /\ GoneInUse'
    BY <1>18, <2>6, <2>7 DEF AsyncOpened
  <2>9. Partners'
    BY <1>18 DEF AsyncOpened
  <2> QED BY <2>4, <2>5, <2>8, <2>9
<1>19. ASSUME NEW i \in Isolate, AsyncFails(i) PROVE IInv'
  <2>1. /\ place'[Main(i)] = "idle" /\ place'[Helper(i)] = "idle"
        /\ place[Main(i)] \in {"awaitPort", "awaitClosed"} /\ place[Helper(i)] = "failed"
        /\ \A g \in Holder \ {Main(i), Helper(i)} : place'[g] = place[g]
        /\ place' \in [Holder -> Places]
    BY <1>19 DEF AsyncFails
  <2>2. job' = [job EXCEPT ![i] = "none"] /\ UNCHANGED <<lock, registered, files, crashes>>
    BY <1>19 DEF AsyncFails
  <2>3. \A g \in Holder : /\ Opens(g)' <=> Opens(g)
                          /\ Holds(g)' => Holds(g) /\ place'[g] = place[g]
                          /\ place'[g] \in Opening => place'[g] = place[g]
    BY <2>1
  <2>4. TypeOK' /\ CommittedSurvives'
    BY <2>1, <2>2
  <2>5. OpenerAlone' /\ HeldMeansRegistered' /\ GoneInUse'
    BY <2>2, <2>3
  <2>6. InstanceHasItsFile'
    BY <2>2, <2>3
  <2>7. ASSUME NEW j \in Isolate
        PROVE  /\ job'[j] = "none" => place'[Helper(j)] = "idle"
               /\ job'[j] = "open" => place'[Main(j)] \in {"awaitPort", "awaitClosed"}
    <3>1. CASE j = i
      BY <2>1, <2>2, <3>1
    <3>2. CASE j # i
      <4>1. /\ Helper(j) \in Holder \ {Main(i), Helper(i)} /\ Main(j) \in Holder \ {Main(i), Helper(i)}
            /\ job'[j] = job[j]
        BY <2>2, <3>2
      <4> QED BY <2>1, <4>1
    <3> QED BY <3>1, <3>2
  <2> QED BY <2>4, <2>5, <2>6, <2>7
<1>20. ASSUME NEW i \in Isolate, AsyncTxnEnds(i) PROVE IInv'
  BY <1>20 DEF AsyncTxnEnds
<1>21. CASE DeleteDatabase
  <2>1. /\ \A h \in Holder : place'[h] = IF place[h] = "dropping" THEN "detached" ELSE place[h]
        /\ place' \in [Holder -> Places]
        /\ disk # Absent /\ disk' = Absent /\ saved' = Absent
        /\ UNCHANGED <<job, lock, registered, copy, crashes>>
    BY <1>21 DEF DeleteDatabase
  <2>2. gone = Absent /\ gone' = IF registered \/ \E h \in Holder : Opens(h) THEN disk ELSE Absent
    BY <1>21 DEF DeleteDatabase
  <2>3. \A h \in Holder : /\ place'[h] # "dropping" /\ Opens(h)' <=> Opens(h)
                          /\ Holds(h)' <=> Holds(h) /\ place[h] # "dropping"
                          /\ place'[h] \in Opening => place'[h] = place[h]
    BY <2>1
  <2>4. TypeOK' /\ GoneInUse' /\ CommittedSurvives'
    BY <2>1, <2>2, <2>3
  <2>5. OpenerAlone'
    BY <2>1, <2>2, <2>3
  <2>6. HeldMeansRegistered' /\ InstanceHasItsFile' /\ Partners'
    BY <2>1, <2>2, <2>3
  <2> QED BY <2>4, <2>5, <2>6
<1>22. CASE Crash
  <2>1. \A h \in Holder : ~Holds(h)' /\ place'[h] \notin Opening
    BY <1>22 DEF Crash
  <2>2. TypeOK'
    <3>1. place' \in [Holder -> Places]
      BY <1>22 DEF Crash
    <3>2. job' \in [Isolate -> {"none", "open", "txn"}]
      BY <1>22 DEF Crash
    <3>3. crashes' \in 0..MaxCrashes
      BY <1>22 DEF Crash
    <3>4. copy' \in (0..MaxWrites) \cup {Absent, Partial}
      BY <1>22 DEF Crash
    <3>5. registered' \in BOOLEAN /\ lock' \in Holder \cup {Free}
      BY <1>22 DEF Crash
    <3> QED BY <1>22, <3>1, <3>2, <3>3, <3>4, <3>5 DEF Crash
  <2>3. OpenerAlone' /\ HeldMeansRegistered' /\ InstanceHasItsFile'
    BY <1>22, <2>1 DEF Crash
  <2> QED BY <1>22, <2>2, <2>3 DEF Crash
<1>23. ASSUME NEW h \in Holder, Reopen(h) PROVE IInv'
  <2>1. /\ gone = Absent /\ ~registered /\ lock = h
        /\ \A g \in Holder : ~Holds(g) /\ (place[g] \in Opening => g = h)
    BY <1>23 DEF Reopen
  <2>2. /\ place[h] = "reopening" /\ place'[h] = "remigrating"
        /\ \A g \in Holder \ {h} : place'[g] = place[g]
        /\ place' \in [Holder -> Places]
        /\ UNCHANGED <<job, lock, registered, gone, copy, crashes>>
    BY <1>23 DEF Reopen
  <2>3. disk' # Absent /\ disk' \in (0..MaxWrites) \cup {Absent} /\ saved' = disk'
    BY <1>23, Created DEF Reopen
  <2>4. TypeOK' /\ GoneInUse' /\ InstanceHasItsFile' /\ CommittedSurvives'
    BY <2>1, <2>2, <2>3
  <2>5. OpenerAlone' /\ HeldMeansRegistered' /\ Partners'
    BY <2>1, <2>2
  <2> QED BY <2>4, <2>5
<1>24. CASE UNCHANGED vars
  BY <1>24 DEF vars
<1> QED
  BY <1>1, <1>2, <1>3, <1>4, <1>5, <1>6, <1>7, <1>8, <1>9, <1>10, <1>11, <1>12, <1>13, <1>14,
     <1>15, <1>16, <1>17, <1>18, <1>19, <1>20, <1>21, <1>22, <1>23, <1>24
     DEF Next, Proceed, Open, Answer

LEMMA Invariant == Spec => []IInv
<1>1. Init => IInv
  BY InitIInv
<1>2. IInv /\ [Next]_vars => IInv'
  BY NextIInv
<1> QED BY <1>1, <1>2, PTL DEF Spec

\* The variables have their types.
THEOREM TypeCorrect == Spec => []TypeOK
<1>1. IInv => TypeOK
  BY DEF IInv
<1> QED BY <1>1, Invariant, PTL

\* For any number of isolates, helpers and crashes, an instance that somebody
\* has, and is not about to drop, is registered: the second look at the count
\* in close, under the lock, is what makes it so (close, get_instance).
THEOREM HeldInstancesAreRegistered == Spec => []HeldMeansRegistered
<1>1. IInv => HeldMeansRegistered
  BY DEF IInv
<1> QED BY <1>1, Invariant, PTL

\* For any number of isolates and helpers, no close, open, compaction or crash
\* takes the file from an instance in use; only deleteDatabase does, which
\* looks at nothing (close with deleteFromDisk, delete_database_files).
THEOREM FilesStayWhileUsed == Spec => []InstanceHasItsFile
<1>1. IInv => InstanceHasItsFile
  BY DEF IInv
<1> QED BY <1>1, Invariant, PTL

\* No compaction loses a write committed to the file at the path, wherever a
\* crash cuts it off and whether or not its rename works (compact_instance).
THEOREM CompactionKeepsWrites == Spec => []CommittedSurvives
<1>1. IInv => CommittedSurvives
  BY DEF IInv
<1> QED BY <1>1, Invariant, PTL

=============================================================================
