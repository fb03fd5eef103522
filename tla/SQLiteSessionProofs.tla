------------------------ MODULE SQLiteSessionProofs -------------------------
(***************************************************************************)
(* Proofs about the transactions of the SQLite engine, for every set of    *)
(* isolates and every number of statements in a callback.                  *)
(***************************************************************************)
EXTENDS SQLiteSession, FiniteSetTheorems, TLAPS

Inside == {"callback", "insert"}

\* The books of one write(): what its statements reported is pending or
\* durable as long as its transaction lasts, and nothing is durable before
\* the commit unless SQLite rolled back on its own.
Books(i) ==
  /\ left[i] + done[i] <= MaxOps
  /\ durable[i] <= done[i]
  /\ pc[i] \in {"waiting"} \cup Inside => outcome[i] = "none"
  /\ pc[i] = "waiting" => done[i] = 0 /\ durable[i] = 0 /\ ~failed[i]
  /\ pc[i] \in Inside /\ ~undone[i] => durable[i] = 0
  /\ pc[i] \in Inside /\ txn[i] = "active" /\ conn[i].begun =>
       ~failed[i] /\ durable[i] + conn[i].rows = done[i]
  /\ pc[i] \in Inside /\ txn[i] = "active" /\ ~conn[i].begun => undone[i]

\* Where the isolate is says which transaction it has.
Place(i) ==
  /\ pc[i] \in {"insert", "read"} => txn[i] = "active"
  /\ pc[i] \in Inside /\ txn[i] = "inactive" => ~conn[i].begun
  /\ pc[i] = "callback" /\ txn[i] = "none" => "dropped" \in faults
  /\ pc[i] = "undefined" => "freed" \in faults

\* All that holds of one isolate: besides the above, a connection outside a
\* transaction has nothing pending, and outside a write() nothing is left of
\* the last one.
Own(i) ==
  /\ Books(i) /\ Place(i)
  /\ ~conn[i].begun => conn[i].rows = 0
  /\ outcome[i] = "returned" => ~failed[i] /\ durable[i] = done[i]
  /\ outcome[i] = "threw" /\ ~undone[i] /\ ~detached[i] => durable[i] = 0
  /\ "freed" \notin faults /\ Writing(i) => mutex = i
  /\ pc[i] # "closed" => registered
  /\ faults = {} =>
       /\ pc[i] \notin Inside => mutex # i
       /\ pc[i] \in {"idle", "waiting", "removing", "returning"} =>
            ~txnActive[i] /\ ~conn[i].begun

Pooled ==
  \A n \in DOMAIN pool : /\ ~pool[n].begun => pool[n].rows = 0
                         /\ faults = {} => ~pool[n].begun

IInv == TypeOK /\ Pooled /\ \A i \in Isolate : Own(i)

\* A step of isolate i leaves all the others alone, ...
Apart(i, j) ==
  /\ pc'[j] = pc[j] /\ txn'[j] = txn[j] /\ txnActive'[j] = txnActive[j] /\ conn'[j] = conn[j]
  /\ left'[j] = left[j] /\ outcome'[j] = outcome[j] /\ done'[j] = done[j]
  /\ durable'[j] = durable[j] /\ failed'[j] = failed[j] /\ detached'[j] = detached[j]
  /\ undone'[j] = undone[j]

\* ... and does to what they share nothing that matters to them.
Fair(i) ==
  /\ \A j \in Isolate \ {i} : Apart(i, j)
  /\ faults \subseteq faults'
  /\ (\E j \in Isolate \ {i} : pc[j] # "closed") /\ registered => registered'
  /\ "freed" \notin faults' => ~registered \/ mutex' = mutex \/ mutex \in {i, Nobody}
  /\ mutex' \in {mutex, i, Nobody}

\* A close that counts two references, of which the registry has one, has the
\* only other one.
LEMMA OnlyHolder ==
  ASSUME TypeOK, registered, StrongCount = 2,
         NEW i \in Isolate, pc[i] # "closed", NEW j \in Isolate, pc[j] # "closed"
  PROVE  j = i
<1> DEFINE S == {x \in Isolate : pc[x] # "closed"}
<1>1. IsFiniteSet(S)
  BY FS_Subset, SessionAssumption
<1>2. Cardinality(S) \in Nat
  BY <1>1, FS_CardinalityType
<1>3. Cardinality(S) = 1
  BY <1>2 DEF StrongCount
<1>4. PICK x : S = {x}
  BY <1>1, <1>3, FS_Singleton
<1> QED BY <1>4

LEMMA CleanFacts == Clean \in Connections /\ Clean.begun = FALSE /\ Clean.rows = 0
BY SessionAssumption DEF Clean, Connections

LEMMA InitIInv == Init => IInv
<1> SUFFICES ASSUME Init PROVE IInv
  OBVIOUS
<1>2. TypeOK
  <2>1. pc \in [Isolate -> Places] /\ txn \in [Isolate -> {"none", "active", "inactive"}]
    BY DEF Init, Places
  <2>2. /\ txnActive \in [Isolate -> BOOLEAN] /\ failed \in [Isolate -> BOOLEAN]
        /\ detached \in [Isolate -> BOOLEAN] /\ undone \in [Isolate -> BOOLEAN]
        /\ registered \in BOOLEAN /\ running \in BOOLEAN
    BY DEF Init
  <2>3. conn \in [Isolate -> Connections] /\ pool \in Seq(Connections)
    BY CleanFacts DEF Init
  <2>4. /\ left \in [Isolate -> 0..MaxOps] /\ done \in [Isolate -> 0..MaxOps]
        /\ durable \in [Isolate -> 0..MaxOps]
    BY SessionAssumption DEF Init
  <2>5. outcome \in [Isolate -> {"none", "returned", "threw"}] /\ mutex \in Isolate \cup {Nobody}
    BY DEF Init
  <2> QED BY <2>1, <2>2, <2>3, <2>4, <2>5 DEF Init, TypeOK
<1>3. ASSUME NEW i \in Isolate PROVE Own(i)
  <2>1. Books(i) /\ Place(i)
    BY SessionAssumption DEF Init, Books, Place, Inside
  <2> QED BY <2>1, SessionAssumption, CleanFacts DEF Init, Own, Writing
<1>4. Pooled
  BY DEF Init, Pooled
<1> QED BY <1>2, <1>3, <1>4 DEF IInv

\* What a statement in a transaction does to its connection.
LEMMA OneMoreRow ==
  ASSUME NEW c \in Connections, c.begun = TRUE
  PROVE  [c EXCEPT !.rows = @ + 1] = [begun |-> TRUE, rows |-> c.rows + 1]
<1>1. c = [begun |-> c.begun, rows |-> c.rows]
  BY DEF Connections
<1>2. [[begun |-> c.begun, rows |-> c.rows] EXCEPT !.rows = c.rows + 1]
        = [begun |-> c.begun, rows |-> c.rows + 1]
  OBVIOUS
<1>3. [c EXCEPT !.rows = c.rows + 1] = [[begun |-> c.begun, rows |-> c.rows] EXCEPT !.rows = c.rows + 1]
  BY <1>1, Zenon
<1> QED BY <1>2, <1>3

\* What an isolate is entitled to survives the steps of the others.
LEMMA OthersKept ==
  ASSUME IInv, NEW i \in Isolate, Fair(i), NEW j \in Isolate \ {i}
  PROVE  Own(j)'
<1>1. Apart(i, j) /\ Own(j)
  BY DEF Fair, IInv
<1>2. Books(j)'
  BY <1>1 DEF Own, Books, Apart
<1>3. Place(j)'
  BY <1>1 DEF Own, Place, Apart, Fair
<1>4. pc'[j] # "closed" => registered'
  BY <1>1 DEF Own, Apart, Fair
<1>5. "freed" \notin faults' /\ Writing(j)' => mutex' = j
  BY <1>1, SessionAssumption DEF Own, Apart, Fair, Writing, Inside
<1>6. faults' = {} => faults = {} /\ (mutex # j => mutex' # j)
  BY SessionAssumption DEF Fair
<1>7. faults' = {} =>
        /\ pc'[j] \notin Inside => mutex' # j
        /\ pc'[j] \in {"idle", "waiting", "removing", "returning"} => ~txnActive'[j] /\ ~conn'[j].begun
  BY <1>1, <1>6 DEF Own, Apart
<1>8. /\ ~conn'[j].begun => conn'[j].rows = 0
      /\ outcome'[j] = "returned" => ~failed'[j] /\ durable'[j] = done'[j]
      /\ outcome'[j] = "threw" /\ ~undone'[j] /\ ~detached'[j] => durable'[j] = 0
  BY <1>1 DEF Own, Apart
<1> QED BY <1>2, <1>3, <1>4, <1>5, <1>7, <1>8 DEF Own

\* So for every action it is enough to look at its own isolate.
LEMMA OwnEnough ==
  ASSUME IInv, NEW i \in Isolate, Fair(i), TypeOK', Own(i)', Pooled'
  PROVE  IInv'
BY OthersKept DEF IInv

LEMMA PoolKept ==
  ASSUME IInv, pool' = pool, faults \subseteq faults'
  PROVE  Pooled'
BY DEF IInv, Pooled

\* A statement keeps the books.
LEMMA RanBooks ==
  ASSUME IInv, NEW i \in Isolate, pc[i] \in Inside, txn[i] = "active", Ran(i)
  PROVE  /\ left' \in [Isolate -> 0..MaxOps] /\ done' \in [Isolate -> 0..MaxOps]
         /\ durable' \in [Isolate -> 0..MaxOps] /\ conn' \in [Isolate -> Connections]
         /\ \A j \in Isolate \ {i} : /\ left'[j] = left[j] /\ done'[j] = done[j]
                                     /\ durable'[j] = durable[j] /\ conn'[j] = conn[j]
         /\ left'[i] + done'[i] <= MaxOps /\ durable'[i] <= done'[i]
         /\ conn'[i].begun = conn[i].begun
         /\ conn[i].begun => durable'[i] = durable[i] /\ durable'[i] + conn'[i].rows = done'[i]
         /\ ~conn[i].begun => conn' = conn
<1>1. /\ left \in [Isolate -> 0..MaxOps] /\ done \in [Isolate -> 0..MaxOps]
      /\ durable \in [Isolate -> 0..MaxOps] /\ conn \in [Isolate -> Connections]
      /\ MaxOps \in Nat
  BY SessionAssumption DEF IInv, TypeOK
<1>2. Books(i)
  BY DEF IInv, Own
<1>3. left[i] > 0 /\ left' = [left EXCEPT ![i] = left[i] - 1] /\ done' = [done EXCEPT ![i] = done[i] + 1]
  BY DEF Ran
<1>4. left[i] + done[i] <= MaxOps /\ durable[i] <= done[i]
  BY <1>2 DEF Books
<1>5. left[i] - 1 \in 0..MaxOps /\ done[i] + 1 \in 0..MaxOps
  BY <1>1, <1>3, <1>4
<1>6. /\ left' \in [Isolate -> 0..MaxOps] /\ done' \in [Isolate -> 0..MaxOps]
      /\ left'[i] = left[i] - 1 /\ done'[i] = done[i] + 1
      /\ \A j \in Isolate \ {i} : left'[j] = left[j] /\ done'[j] = done[j]
  BY <1>1, <1>3, <1>5
<1>7. left'[i] + done'[i] <= MaxOps
  BY <1>1, <1>4, <1>6
<1>8. CASE conn[i].begun
  <2>1. conn' = [conn EXCEPT ![i].rows = @ + 1] /\ durable' = durable
    BY <1>8 DEF Ran
  <2>2. conn[i] \in Connections /\ conn[i].begun = TRUE
    BY <1>1, <1>8 DEF Connections
  <2>3. durable[i] + conn[i].rows = done[i] /\ conn[i].rows \in 0..MaxOps
    BY <1>1, <1>2, <1>8 DEF Books, Connections, Inside
  <2>4. conn[i].rows + 1 \in 0..MaxOps
    BY <1>1, <1>5, <2>3
  <2> DEFINE c == [begun |-> TRUE, rows |-> conn[i].rows + 1]
  <2>5. c \in Connections /\ c.begun = TRUE /\ c.rows = conn[i].rows + 1
    BY <2>4 DEF Connections
  <2>6. conn' = [conn EXCEPT ![i] = c]
    <3>1. [conn[i] EXCEPT !.rows = @ + 1] = c
      BY <2>2, OneMoreRow
    <3> QED BY <2>1, <3>1
  <2> HIDE DEF c
  <2>7. conn'[i] = c /\ conn' \in [Isolate -> Connections] /\ \A j \in Isolate \ {i} : conn'[j] = conn[j]
    BY <1>1, <2>5, <2>6
  <2>8. durable'[i] + conn'[i].rows = done'[i] /\ durable'[i] <= done'[i]
    BY <1>1, <1>4, <1>6, <2>1, <2>3, <2>5, <2>7
  <2> QED BY <1>1, <1>6, <1>7, <1>8, <2>1, <2>2, <2>5, <2>7, <2>8
<1>9. CASE ~conn[i].begun
  <2>1. durable' = [durable EXCEPT ![i] = durable[i] + 1] /\ conn' = conn
    BY <1>9 DEF Ran
  <2>2. durable[i] + 1 \in 0..MaxOps
    BY <1>1, <1>4, <1>5
  <2>3. /\ durable' \in [Isolate -> 0..MaxOps] /\ durable'[i] = durable[i] + 1
        /\ \A j \in Isolate \ {i} : durable'[j] = durable[j]
    BY <1>1, <2>1, <2>2
  <2>4. durable'[i] <= done'[i]
    BY <1>1, <1>4, <1>6, <2>3
  <2> QED BY <1>1, <1>6, <1>7, <1>9, <2>1, <2>3, <2>4
<1> QED BY <1>8, <1>9

\* Statement, InsertBatch and InsertFinish differ in where they go.
LEMMA RanStep ==
  ASSUME IInv, NEW i \in Isolate, pc[i] \in Inside, txn[i] = "active", Ran(i),
         pc' \in [Isolate -> Places], pc'[i] \in Inside, \A j \in Isolate \ {i} : pc'[j] = pc[j],
         UNCHANGED <<txn, txnActive, mutex, registry, running, faults>>
  PROVE  IInv'
<1> USE DEF registry
<1>1. UNCHANGED <<outcome, failed, detached, undone>>
  BY DEF Ran
<1>2. /\ left' \in [Isolate -> 0..MaxOps] /\ done' \in [Isolate -> 0..MaxOps]
      /\ durable' \in [Isolate -> 0..MaxOps] /\ conn' \in [Isolate -> Connections]
      /\ \A j \in Isolate \ {i} : left'[j] = left[j] /\ done'[j] = done[j]
                                  /\ durable'[j] = durable[j] /\ conn'[j] = conn[j]
  BY RanBooks
<1>3. /\ left'[i] + done'[i] <= MaxOps /\ durable'[i] <= done'[i]
      /\ conn'[i].begun = conn[i].begun
      /\ conn[i].begun => durable'[i] = durable[i] /\ durable'[i] + conn'[i].rows = done'[i]
      /\ ~conn[i].begun => conn' = conn
  BY RanBooks
<1>4. TypeOK'
  BY <1>1, <1>2 DEF IInv, TypeOK
<1>5. Fair(i)
  BY <1>1, <1>2 DEF Fair, Apart
<1>6. Own(i)
  BY DEF IInv
<1>7. Books(i)'
  BY <1>1, <1>3, <1>6 DEF Own, Books, Inside
<1>8. Place(i)'
  BY <1>3, <1>6 DEF Own, Place, Inside
<1>9. Own(i)'
  BY <1>1, <1>3, <1>6, <1>7, <1>8 DEF Own, Books, Writing, Inside
<1>10. Pooled'
  BY PoolKept
<1> QED BY <1>4, <1>5, <1>9, <1>10, OwnEnough

LEMMA CleanOrKept ==
  ASSUME TypeOK, NEW i \in Isolate, conn' \in {conn, [conn EXCEPT ![i] = Clean]}
  PROVE  /\ conn' \in [Isolate -> Connections] /\ conn'[i] \in {conn[i], Clean}
         /\ \A j \in Isolate \ {i} : conn'[j] = conn[j]
<1>1. conn \in [Isolate -> Connections]
  BY DEF TypeOK
<1>2. CASE conn' = conn
  BY <1>1, <1>2
<1>3. CASE conn' = [conn EXCEPT ![i] = Clean]
  BY <1>1, <1>3, CleanFacts
<1> QED BY <1>2, <1>3

LEMMA BegunConnection ==
  ASSUME TypeOK, NEW i \in Isolate, Begin(i)
  PROVE  /\ conn' \in [Isolate -> Connections] /\ conn'[i].begun = TRUE
         /\ conn'[i].rows = conn[i].rows
         /\ \A j \in Isolate \ {i} : conn'[j] = conn[j]
<1>1. conn \in [Isolate -> Connections]
  BY DEF TypeOK
<1>2. conn' = [conn EXCEPT ![i] = [conn[i] EXCEPT !.begun = TRUE]]
  BY DEF Begin
<1> DEFINE c == [conn[i] EXCEPT !.begun = TRUE]
<1>3. c \in Connections /\ c.begun = TRUE /\ c.rows = conn[i].rows
  BY <1>1 DEF Connections
<1> HIDE DEF c
<1>4. conn' = [conn EXCEPT ![i] = c]
  BY <1>2 DEF c
<1> QED BY <1>1, <1>3, <1>4

LEMMA FailedTypes ==
  ASSUME TypeOK, NEW i \in Isolate, NEW after, Failed(i, after)
  PROVE  /\ left' \in [Isolate -> 0..MaxOps] /\ failed' \in [Isolate -> BOOLEAN]
         /\ undone' \in [Isolate -> BOOLEAN]
<1>1. left' \in [Isolate -> 0..MaxOps] /\ failed' \in [Isolate -> BOOLEAN]
  BY SessionAssumption DEF TypeOK, Failed
<1>2. undone' \in {undone, [undone EXCEPT ![i] = TRUE]}
  BY DEF Failed
<1>3. undone' \in [Isolate -> BOOLEAN]
  BY <1>2 DEF TypeOK
<1> QED BY <1>1, <1>3

-----------------------------------------------------------------------------
(* The actions: the step's own isolate, the others, and the pool.          *)

LEMMA OpenStep ==
  ASSUME IInv, NEW i \in Isolate, Open(i)
  PROVE  IInv'
<1> USE SessionAssumption DEF Goto, call
<1>1. TypeOK /\ Own(i) /\ Pooled
  BY DEF IInv
<1>2. /\ \A n \in DOMAIN pool' : n \in DOMAIN pool /\ pool'[n] = pool[n]
      /\ pool' \in Seq(Connections)
      /\ conn'[i] = Clean \/ \E n \in DOMAIN pool : conn'[i] = pool[n]
  <2>1. CASE registered /\ pool # <<>>
    <3>1. pool' = SubSeq(pool, 1, Len(pool) - 1) /\ conn'[i] = pool[Len(pool)]
      BY <1>1, <2>1 DEF Open, TypeOK
    <3>2. Len(pool) \in Nat \ {0} /\ pool \in Seq(Connections)
      BY <1>1, <2>1 DEF TypeOK
    <3> QED BY <3>1, <3>2
  <2>2. CASE ~(registered /\ pool # <<>>)
    <3>1. pool' = <<>> /\ conn'[i] = Clean
      BY <1>1, <2>2 DEF Open, TypeOK
    <3> QED BY <3>1
  <2> QED BY <2>1, <2>2
<1>3. conn'[i] \in Connections
  <2>1. \A n \in DOMAIN pool : pool[n] \in Connections
    BY <1>1 DEF TypeOK
  <2> QED BY <1>2, <2>1, CleanFacts
<1>4. conn' \in [Isolate -> Connections] /\ \A j \in Isolate \ {i} : conn'[j] = conn[j]
  BY <1>1, <1>3 DEF Open, TypeOK
<1>5. TypeOK'
  BY <1>1, <1>2, <1>4 DEF TypeOK, Places, Open
<1>6. Fair(i)
  <2>1. \A j \in Isolate \ {i} : Apart(i, j)
    BY <1>1, <1>4 DEF TypeOK, Apart, Open
  <2>2. faults' = faults /\ registered' = TRUE /\ mutex' \in {mutex, Nobody}
    BY DEF Open
  <2>3. ~registered => mutex' = Nobody
    BY DEF Open
  <2>4. registered => mutex' = mutex
    BY DEF Open
  <2> QED BY <2>1, <2>2, <2>3, <2>4 DEF Fair
<1>7. Books(i)' /\ Place(i)'
  BY <1>1 DEF TypeOK, Own, Books, Place, Inside, Open
<1>8. /\ ~conn'[i].begun => conn'[i].rows = 0
      /\ faults' = {} => ~conn'[i].begun
  BY <1>1, <1>2, CleanFacts DEF Pooled, Open
<1>9. Own(i)'
  BY <1>1, <1>7, <1>8 DEF TypeOK, Own, Writing, Inside, Open
<1>10. Pooled'
  BY <1>1, <1>2 DEF Pooled, Open
<1> QED BY <1>5, <1>6, <1>9, <1>10, OwnEnough

LEMMA CloseCheckStep ==
  ASSUME IInv, NEW i \in Isolate, CloseCheck(i)
  PROVE  IInv'
<1> USE SessionAssumption DEF Goto, engine, registry, call
<1>1. TypeOK /\ Own(i)
  BY DEF IInv
<1>3. TypeOK'
  BY <1>1 DEF TypeOK, Places, CloseCheck
<1>4. Fair(i)
  BY <1>1 DEF TypeOK, Own, Fair, Apart, Writing, Inside, CloseCheck
<1>5. Books(i)'
  BY <1>1 DEF TypeOK, Own, Books, Place, Inside, CloseCheck
<1>6. Place(i)'
  BY <1>1 DEF TypeOK, Own, Place, Inside, CloseCheck
<1>7. Own(i)'
  BY <1>1, <1>5, <1>6 DEF TypeOK, Own, Books, Place, Writing, Inside, CloseCheck
<1>8. Pooled'
  BY PoolKept DEF CloseCheck
<1> QED BY <1>3, <1>4, <1>7, <1>8, OwnEnough

LEMMA CloseLockedStep ==
  ASSUME IInv, NEW i \in Isolate, CloseLocked(i)
  PROVE  IInv'
<1> USE SessionAssumption DEF Goto, registry, call
<1>1. TypeOK /\ Own(i)
  BY DEF IInv
<1>2. conn' \in {conn, [conn EXCEPT ![i] = Clean]}
  BY DEF CloseLocked
<1>3. /\ conn' \in [Isolate -> Connections] /\ conn'[i] \in {conn[i], Clean}
      /\ \A j \in Isolate \ {i} : conn'[j] = conn[j]
  BY <1>1, <1>2, CleanOrKept
<1>4. pool' \in {pool, <<>>} /\ pc' \in {[pc EXCEPT ![i] = "closed"], [pc EXCEPT ![i] = "returning"]}
      /\ registered' \in BOOLEAN
  BY <1>1 DEF CloseLocked, TypeOK
<1>5. TypeOK'
  <2>1. pc' \in [Isolate -> Places] /\ pool' \in Seq(Connections)
    <3>1. pc' \in [Isolate -> Places]
      <4>1. pc \in [Isolate -> Places] /\ {"closed", "returning"} \subseteq Places
        BY <1>1 DEF TypeOK, Places
      <4>2. PICK place \in {"closed", "returning"} : pc' = [pc EXCEPT ![i] = place]
        BY <1>4
      <4> QED BY <4>1, <4>2
    <3>2. <<>> \in Seq(Connections) /\ pool \in Seq(Connections)
      BY <1>1 DEF TypeOK
    <3> QED BY <1>4, <3>1, <3>2
  <2> QED BY <1>1, <1>3, <1>4, <2>1 DEF TypeOK, CloseLocked
<1>6. registered /\ (registered' \/ \A j \in Isolate : pc[j] # "closed" => j = i)
  BY <1>1, OnlyHolder DEF Own, CloseLocked
<1>7. Fair(i)
  <2>1. \A j \in Isolate \ {i} : Apart(i, j)
    BY <1>1, <1>3, <1>4 DEF TypeOK, Apart, CloseLocked
  <2> QED BY <1>6, <2>1 DEF Fair, CloseLocked
<1>8. pc'[i] = "closed" \/ (pc'[i] = "returning" /\ registered' /\ conn'[i] = conn[i])
  BY <1>1, <1>6 DEF TypeOK, CloseLocked
<1>9. Books(i)' /\ Place(i)'
  BY <1>1, <1>8 DEF Own, Books, Place, Inside, CloseLocked
<1>10. Own(i)'
  BY <1>1, <1>3, <1>8, <1>9, CleanFacts DEF Own, Writing, Inside, CloseLocked
<1>11. Pooled'
  BY <1>4 DEF IInv, Pooled, CloseLocked
<1> QED BY <1>5, <1>7, <1>10, <1>11, OwnEnough

LEMMA CloseReturnStep ==
  ASSUME IInv, NEW i \in Isolate, CloseReturn(i)
  PROVE  IInv'
<1> USE SessionAssumption DEF Goto, call
<1>1. TypeOK /\ Own(i) /\ Pooled
  BY DEF IInv
<1>2. /\ conn' \in [Isolate -> Connections] /\ conn'[i] = Clean
      /\ \A j \in Isolate \ {i} : conn'[j] = conn[j]
  BY <1>1, CleanFacts DEF TypeOK, CloseReturn
<1>3. conn[i] \in Connections /\ pool \in Seq(Connections) /\ pool' = Append(pool, conn[i])
  BY <1>1 DEF TypeOK, CloseReturn
<1>4. /\ pool' \in Seq(Connections) /\ DOMAIN pool' = 1..(Len(pool) + 1) /\ DOMAIN pool = 1..Len(pool)
      /\ Len(pool) \in Nat /\ pool'[Len(pool) + 1] = conn[i] /\ \A n \in 1..Len(pool) : pool'[n] = pool[n]
  BY <1>3
<1>5. TypeOK'
  BY <1>1, <1>2, <1>4 DEF TypeOK, Places, CloseReturn
<1>6. Fair(i)
  BY <1>1, <1>2 DEF TypeOK, Fair, Apart, CloseReturn
<1>7. Books(i)' /\ Place(i)'
  BY <1>1 DEF TypeOK, Own, Books, Place, Inside, CloseReturn
<1>8. Own(i)'
  BY <1>1, <1>2, <1>7, CleanFacts DEF TypeOK, Own, Writing, Inside, CloseReturn
<1>9. (~conn[i].begun => conn[i].rows = 0) /\ (faults' = {} => ~conn[i].begun)
  BY <1>1 DEF Own, CloseReturn
<1>10. Pooled'
  BY <1>1, <1>4, <1>9 DEF Pooled, CloseReturn
<1> QED BY <1>5, <1>6, <1>8, <1>10, OwnEnough

LEMMA CloseDoneStep ==
  ASSUME IInv, NEW i \in Isolate, CloseDone(i)
  PROVE  IInv'
<1> USE SessionAssumption DEF Goto, engine, registry, call
<1>1. TypeOK /\ Own(i)
  BY DEF IInv
<1>3. TypeOK'
  BY <1>1 DEF TypeOK, Places, CloseDone
<1>4. Fair(i)
  BY <1>1 DEF TypeOK, Own, Fair, Apart, Writing, Inside, CloseDone
<1>5. Books(i)'
  BY <1>1 DEF TypeOK, Own, Books, Place, Inside, CloseDone
<1>6. Place(i)'
  BY <1>1 DEF TypeOK, Own, Place, Inside, CloseDone
<1>7. Own(i)'
  BY <1>1, <1>5, <1>6 DEF TypeOK, Own, Books, Place, Writing, Inside, CloseDone
<1>8. Pooled'
  BY PoolKept DEF CloseDone
<1> QED BY <1>3, <1>4, <1>7, <1>8, OwnEnough

LEMMA WriteCallStep ==
  ASSUME IInv, NEW i \in Isolate, WriteCall(i)
  PROVE  IInv'
<1> USE SessionAssumption DEF Goto, engine, registry, call
<1>1. TypeOK /\ Own(i)
  BY DEF IInv
<1>3. TypeOK'
  BY <1>1 DEF TypeOK, Places, WriteCall
<1>4. Fair(i)
  BY <1>1 DEF TypeOK, Own, Fair, Apart, Writing, Inside, WriteCall
<1>5. Books(i)'
  BY <1>1 DEF TypeOK, Own, Books, Place, Inside, WriteCall
<1>6. Place(i)'
  BY <1>1 DEF TypeOK, Own, Place, Inside, WriteCall
<1>7. Own(i)'
  BY <1>1, <1>5, <1>6 DEF TypeOK, Own, Books, Place, Writing, Inside, WriteCall
<1>8. Pooled'
  BY PoolKept DEF WriteCall
<1> QED BY <1>3, <1>4, <1>7, <1>8, OwnEnough

LEMMA WriteBeginStep ==
  ASSUME IInv, NEW i \in Isolate, WriteBegin(i)
  PROVE  IInv'
<1> USE SessionAssumption DEF Goto, engine, registry, call
<1>1. TypeOK /\ Own(i)
  BY DEF IInv
<1>2. /\ conn' \in [Isolate -> Connections] /\ conn'[i].begun = TRUE
      /\ conn'[i].rows = conn[i].rows
      /\ \A j \in Isolate \ {i} : conn'[j] = conn[j]
  BY <1>1, BegunConnection DEF WriteBegin
<1>3. TypeOK'
  BY <1>1, <1>2 DEF TypeOK, Places, WriteBegin, BeginSucceeds, Begin
<1>4. Fair(i)
  BY <1>1, <1>2 DEF TypeOK, Own, Fair, Apart, Writing, Inside, WriteBegin, BeginSucceeds,
     Begin
<1>5. Books(i)'
  BY <1>1, <1>2 DEF TypeOK, Own, Books, Place, Inside, WriteBegin, BeginSucceeds, Begin
<1>6. Place(i)'
  BY <1>1, <1>2 DEF TypeOK, Own, Place, Inside, WriteBegin, BeginSucceeds, Begin
<1>7. Own(i)'
  BY <1>1, <1>2, <1>5, <1>6 DEF TypeOK, Own, Books, Place, Writing, Inside, WriteBegin,
     BeginSucceeds, Begin
<1>8. Pooled'
  BY PoolKept DEF WriteBegin, BeginSucceeds, Begin
<1> QED BY <1>3, <1>4, <1>7, <1>8, OwnEnough

LEMMA WriteBeginFailsStep ==
  ASSUME IInv, NEW i \in Isolate, WriteBeginFails(i)
  PROVE  IInv'
<1> USE SessionAssumption DEF Goto, engine, registry, call
<1>1. TypeOK /\ Own(i)
  BY DEF IInv
<1>3. TypeOK'
  BY <1>1 DEF TypeOK, Places, WriteBeginFails
<1>4. Fair(i)
  BY <1>1 DEF TypeOK, Own, Fair, Apart, Writing, Inside, WriteBeginFails
<1>5. Books(i)'
  BY <1>1 DEF TypeOK, Own, Books, Place, Inside, WriteBeginFails
<1>6. Place(i)'
  BY <1>1 DEF TypeOK, Own, Place, Inside, WriteBeginFails
<1>7. Own(i)'
  BY <1>1, <1>5, <1>6 DEF TypeOK, Own, Books, Place, Writing, Inside, WriteBeginFails
<1>8. Pooled'
  BY PoolKept DEF WriteBeginFails
<1> QED BY <1>3, <1>4, <1>7, <1>8, OwnEnough

LEMMA ReadBeginStep ==
  ASSUME IInv, NEW i \in Isolate, ReadBegin(i)
  PROVE  IInv'
<1> USE SessionAssumption DEF Goto, engine, registry, call
<1>1. TypeOK /\ Own(i)
  BY DEF IInv
<1>2. /\ conn' \in [Isolate -> Connections] /\ conn'[i].begun = TRUE
      /\ conn'[i].rows = conn[i].rows
      /\ \A j \in Isolate \ {i} : conn'[j] = conn[j]
  BY <1>1, BegunConnection DEF ReadBegin
<1>3. TypeOK'
  BY <1>1, <1>2 DEF TypeOK, Places, ReadBegin, BeginSucceeds, Begin
<1>4. Fair(i)
  BY <1>1, <1>2 DEF TypeOK, Own, Fair, Apart, Writing, Inside, ReadBegin, BeginSucceeds,
     Begin
<1>5. Books(i)'
  BY <1>1, <1>2 DEF TypeOK, Own, Books, Place, Inside, ReadBegin, BeginSucceeds, Begin
<1>6. Place(i)'
  BY <1>1, <1>2 DEF TypeOK, Own, Place, Inside, ReadBegin, BeginSucceeds, Begin
<1>7. Own(i)'
  BY <1>1, <1>2, <1>5, <1>6 DEF TypeOK, Own, Books, Place, Writing, Inside, ReadBegin,
     BeginSucceeds, Begin
<1>8. Pooled'
  BY PoolKept DEF ReadBegin, BeginSucceeds, Begin
<1> QED BY <1>3, <1>4, <1>7, <1>8, OwnEnough

LEMMA ReadBeginFailsStep ==
  ASSUME IInv, NEW i \in Isolate, ReadBeginFails(i)
  PROVE  IInv'
<1> USE SessionAssumption DEF Goto, engine, registry, call
<1>1. TypeOK /\ Own(i)
  BY DEF IInv
<1>3. TypeOK'
  BY <1>1 DEF TypeOK, Places, ReadBeginFails
<1>4. Fair(i)
  BY <1>1 DEF TypeOK, Own, Fair, Apart, Writing, Inside, ReadBeginFails
<1>5. Books(i)'
  BY <1>1 DEF TypeOK, Own, Books, Place, Inside, ReadBeginFails
<1>6. Place(i)'
  BY <1>1 DEF TypeOK, Own, Place, Inside, ReadBeginFails
<1>7. Own(i)'
  BY <1>1, <1>5, <1>6 DEF TypeOK, Own, Books, Place, Writing, Inside, ReadBeginFails
<1>8. Pooled'
  BY PoolKept DEF ReadBeginFails
<1> QED BY <1>3, <1>4, <1>7, <1>8, OwnEnough

LEMMA StatementStep ==
  ASSUME IInv, NEW i \in Isolate, Statement(i)
  PROVE  IInv'
<1>1. TypeOK /\ Place(i)
  BY DEF IInv, Own
<1>2. pc[i] \in Inside /\ txn[i] = "active" /\ Ran(i)
  BY <1>1 DEF Statement, Place, Inside
<1>3. pc' \in [Isolate -> Places] /\ pc'[i] \in Inside /\ \A j \in Isolate \ {i} : pc'[j] = pc[j]
  BY <1>1, <1>2 DEF Statement, TypeOK, Places, Inside, Goto
<1> QED BY <1>2, <1>3, RanStep DEF Statement

LEMMA StatementFailsStep ==
  ASSUME IInv, NEW i \in Isolate, StatementFails(i)
  PROVE  IInv'
<1> USE SessionAssumption DEF Goto, engine, registry, call
<1>1. TypeOK /\ Own(i)
  BY DEF IInv
<1>2. /\ conn' \in [Isolate -> Connections] /\ conn'[i] = Clean
      /\ \A j \in Isolate \ {i} : conn'[j] = conn[j]
  BY <1>1, CleanFacts DEF TypeOK, StatementFails, Failed
<1>3. TypeOK'
  <2>1. PICK after \in {"active", "inactive"} : Failed(i, after) /\ txn' = [txn EXCEPT ![i] = after]
    BY DEF StatementFails
  <2>2. /\ left' \in [Isolate -> 0..MaxOps] /\ failed' \in [Isolate -> BOOLEAN]
        /\ undone' \in [Isolate -> BOOLEAN]
    BY <1>1, <2>1, FailedTypes
  <2>3. txn' \in [Isolate -> {"none", "active", "inactive"}]
    BY <1>1, <2>1 DEF TypeOK
  <2> QED BY <1>1, <1>2, <2>1, <2>2, <2>3 DEF TypeOK, StatementFails, Failed
<1>4. Fair(i)
  BY <1>1, <1>2 DEF TypeOK, Own, Fair, Apart, Writing, Inside, StatementFails, Failed
<1>5. Books(i)'
  BY <1>1, <1>2, CleanFacts DEF TypeOK, Own, Books, Place, Inside, StatementFails, Failed
<1>6. Place(i)'
  BY <1>1, <1>2, CleanFacts DEF TypeOK, Own, Place, Inside, StatementFails, Failed
<1>7. Own(i)'
  BY <1>1, <1>2, <1>5, <1>6, CleanFacts DEF TypeOK, Own, Books, Place, Writing, Inside,
     StatementFails, Failed
<1>8. Pooled'
  BY PoolKept DEF StatementFails, Failed
<1> QED BY <1>3, <1>4, <1>7, <1>8, OwnEnough

LEMMA InsertBeginStep ==
  ASSUME IInv, NEW i \in Isolate, InsertBegin(i)
  PROVE  IInv'
<1> USE SessionAssumption DEF Goto, engine, registry, call
<1>1. TypeOK /\ Own(i)
  BY DEF IInv
<1>3. TypeOK'
  BY <1>1 DEF TypeOK, Places, InsertBegin
<1>4. Fair(i)
  BY <1>1 DEF TypeOK, Own, Fair, Apart, Writing, Inside, InsertBegin
<1>5. Books(i)'
  BY <1>1 DEF TypeOK, Own, Books, Place, Inside, InsertBegin
<1>6. Place(i)'
  BY <1>1 DEF TypeOK, Own, Place, Inside, InsertBegin
<1>7. Own(i)'
  BY <1>1, <1>5, <1>6 DEF TypeOK, Own, Books, Place, Writing, Inside, InsertBegin
<1>8. Pooled'
  BY PoolKept DEF InsertBegin
<1> QED BY <1>3, <1>4, <1>7, <1>8, OwnEnough

LEMMA InsertBatchStep ==
  ASSUME IInv, NEW i \in Isolate, InsertBatch(i)
  PROVE  IInv'
<1>1. TypeOK /\ Place(i)
  BY DEF IInv, Own
<1>2. pc[i] \in Inside /\ txn[i] = "active" /\ Ran(i)
  BY <1>1 DEF InsertBatch, Place, Inside
<1>3. pc' \in [Isolate -> Places] /\ pc'[i] \in Inside /\ \A j \in Isolate \ {i} : pc'[j] = pc[j]
  BY <1>1, <1>2 DEF InsertBatch, TypeOK, Places, Inside, Goto
<1> QED BY <1>2, <1>3, RanStep DEF InsertBatch

LEMMA InsertFinishStep ==
  ASSUME IInv, NEW i \in Isolate, InsertFinish(i)
  PROVE  IInv'
<1>1. TypeOK /\ Place(i)
  BY DEF IInv, Own
<1>2. pc[i] \in Inside /\ txn[i] = "active" /\ Ran(i)
  BY <1>1 DEF InsertFinish, Place, Inside
<1>3. pc' \in [Isolate -> Places] /\ pc'[i] \in Inside /\ \A j \in Isolate \ {i} : pc'[j] = pc[j]
  BY <1>1, <1>2 DEF InsertFinish, TypeOK, Places, Inside, Goto
<1> QED BY <1>2, <1>3, RanStep DEF InsertFinish

LEMMA InsertFailsStep ==
  ASSUME IInv, NEW i \in Isolate, InsertFails(i)
  PROVE  IInv'
<1> USE SessionAssumption DEF Goto, engine, registry, call
<1>1. TypeOK /\ Own(i)
  BY DEF IInv
<1>2. /\ conn' \in [Isolate -> Connections] /\ conn'[i] = Clean
      /\ \A j \in Isolate \ {i} : conn'[j] = conn[j]
  BY <1>1, CleanFacts DEF TypeOK, InsertFails, Failed, Dropped
<1>3. TypeOK'
  <2>1. PICK after \in {"active", "inactive"} : Failed(i, after)
    BY DEF InsertFails
  <2>2. /\ left' \in [Isolate -> 0..MaxOps] /\ failed' \in [Isolate -> BOOLEAN]
        /\ undone' \in [Isolate -> BOOLEAN]
    BY <1>1, <2>1, FailedTypes
  <2>3. /\ txn' \in [Isolate -> {"none", "active", "inactive"}] /\ pc' \in [Isolate -> Places]
        /\ faults' \subseteq {"begin", "dropped", "freed"}
    BY <1>1 DEF TypeOK, Places, InsertFails, Dropped
  <2> QED BY <1>1, <1>2, <2>1, <2>2, <2>3 DEF TypeOK, InsertFails, Failed, Dropped
<1>4. Fair(i)
  BY <1>1, <1>2 DEF TypeOK, Own, Fair, Apart, Writing, Inside, InsertFails, Failed, Dropped
<1>5. Books(i)'
  BY <1>1, <1>2, CleanFacts DEF TypeOK, Own, Books, Place, Inside, InsertFails, Failed,
     Dropped
<1>6. Place(i)'
  BY <1>1, <1>2, CleanFacts DEF TypeOK, Own, Place, Inside, InsertFails, Failed, Dropped
<1>7. Own(i)'
  BY <1>1, <1>2, <1>5, <1>6, CleanFacts DEF TypeOK, Own, Books, Place, Writing, Inside,
     InsertFails, Failed, Dropped
<1>8. Pooled'
  BY PoolKept DEF InsertFails, Failed, Dropped
<1> QED BY <1>3, <1>4, <1>7, <1>8, OwnEnough

LEMMA InsertAbandonedStep ==
  ASSUME IInv, NEW i \in Isolate, InsertAbandoned(i)
  PROVE  IInv'
<1> USE SessionAssumption DEF Goto, engine, registry, call
<1>1. TypeOK /\ Own(i)
  BY DEF IInv
<1>3. TypeOK'
  BY <1>1 DEF TypeOK, Places, InsertAbandoned, Dropped
<1>4. Fair(i)
  BY <1>1 DEF TypeOK, Own, Fair, Apart, Writing, Inside, InsertAbandoned, Dropped
<1>5. Books(i)'
  BY <1>1 DEF TypeOK, Own, Books, Place, Inside, InsertAbandoned, Dropped
<1>6. Place(i)'
  BY <1>1 DEF TypeOK, Own, Place, Inside, InsertAbandoned, Dropped
<1>7. Own(i)'
  BY <1>1, <1>5, <1>6 DEF TypeOK, Own, Books, Place, Writing, Inside, InsertAbandoned,
     Dropped
<1>8. Pooled'
  BY PoolKept DEF InsertAbandoned, Dropped
<1> QED BY <1>3, <1>4, <1>7, <1>8, OwnEnough

LEMMA InsertRefusedStep ==
  ASSUME IInv, NEW i \in Isolate, InsertRefused(i)
  PROVE  IInv'
<1> USE SessionAssumption DEF Goto, engine, registry, call
<1>1. TypeOK /\ Own(i)
  BY DEF IInv
<1>3. TypeOK'
  BY <1>1 DEF TypeOK, Places, InsertRefused, Dropped
<1>4. Fair(i)
  BY <1>1 DEF TypeOK, Own, Fair, Apart, Writing, Inside, InsertRefused, Dropped
<1>5. Books(i)'
  BY <1>1 DEF TypeOK, Own, Books, Place, Inside, InsertRefused, Dropped
<1>6. Place(i)'
  BY <1>1 DEF TypeOK, Own, Place, Inside, InsertRefused, Dropped
<1>7. Own(i)'
  BY <1>1, <1>5, <1>6 DEF TypeOK, Own, Books, Place, Writing, Inside, InsertRefused, Dropped
<1>8. Pooled'
  BY PoolKept DEF InsertRefused, Dropped
<1> QED BY <1>3, <1>4, <1>7, <1>8, OwnEnough

LEMMA CommitStep ==
  ASSUME IInv, NEW i \in Isolate, Commit(i)
  PROVE  IInv'
<1> USE SessionAssumption DEF Goto, engine, registry, call
<1>1. TypeOK /\ Own(i)
  BY DEF IInv
<1>2. /\ conn' \in [Isolate -> Connections] /\ conn'[i] = Clean
      /\ \A j \in Isolate \ {i} : conn'[j] = conn[j]
  BY <1>1, CleanFacts DEF TypeOK, Commit, Unlock, Returned
<1>3. TypeOK'
  <2>1. durable' \in [Isolate -> 0..MaxOps]
    <3>1. durable[i] + conn[i].rows = done[i]
      BY <1>1 DEF Own, Books, Inside, Commit
    <3>2. durable' = [durable EXCEPT ![i] = done[i]]
      BY <3>1 DEF Commit
    <3> QED BY <1>1, <3>2 DEF TypeOK
  <2>2. /\ outcome' \in [Isolate -> {"none", "returned", "threw"}]
        /\ detached' \in [Isolate -> BOOLEAN]
    BY <1>1 DEF TypeOK, Commit, Returned
  <2>3. /\ pc' \in [Isolate -> Places] /\ txnActive' \in [Isolate -> BOOLEAN]
        /\ txn' \in [Isolate -> {"none", "active", "inactive"}]
    BY <1>1 DEF TypeOK, Places, Commit
  <2> QED BY <1>1, <1>2, <2>1, <2>2, <2>3 DEF TypeOK, Commit, Unlock
<1>4. Fair(i)
  BY <1>1, <1>2 DEF TypeOK, Own, Fair, Apart, Writing, Inside, Commit, Unlock, Returned
<1>5. Books(i)'
  BY <1>1, <1>2, CleanFacts DEF TypeOK, Own, Books, Place, Inside, Commit, Unlock, Returned
<1>6. Place(i)'
  BY <1>1, <1>2, CleanFacts DEF TypeOK, Own, Place, Inside, Commit, Unlock, Returned
<1>7. Own(i)'
  BY <1>1, <1>2, <1>5, <1>6, CleanFacts DEF TypeOK, Own, Books, Place, Writing, Inside,
     Commit, Unlock, Returned
<1>8. Pooled'
  BY PoolKept DEF Commit, Unlock, Returned
<1> QED BY <1>3, <1>4, <1>7, <1>8, OwnEnough

LEMMA CommitFailsStep ==
  ASSUME IInv, NEW i \in Isolate, CommitFails(i)
  PROVE  IInv'
<1> USE SessionAssumption DEF Goto, engine, registry, call
<1>1. TypeOK /\ Own(i)
  BY DEF IInv
<1>2. /\ conn' \in [Isolate -> Connections] /\ conn'[i] \in {conn[i], Clean}
      /\ \A j \in Isolate \ {i} : conn'[j] = conn[j]
  BY <1>1, CleanOrKept DEF CommitFails
<1>3. TypeOK'
  BY <1>1, <1>2 DEF TypeOK, Places, CommitFails, Unlock, Threw
<1>4. Fair(i)
  BY <1>1, <1>2 DEF TypeOK, Own, Fair, Apart, Writing, Inside, CommitFails, Unlock, Threw
<1>5. Books(i)'
  BY <1>1, <1>2, CleanFacts DEF TypeOK, Own, Books, Place, Inside, CommitFails, Unlock,
     Threw
<1>6. Place(i)'
  BY <1>1, <1>2, CleanFacts DEF TypeOK, Own, Place, Inside, CommitFails, Unlock, Threw
<1>7. Own(i)'
  BY <1>1, <1>2, <1>5, <1>6, CleanFacts DEF TypeOK, Own, Books, Place, Writing, Inside,
     CommitFails, Unlock, Threw
<1>8. Pooled'
  BY PoolKept DEF CommitFails, Unlock, Threw
<1> QED BY <1>3, <1>4, <1>7, <1>8, OwnEnough

LEMMA AbortFreedStep ==
  ASSUME IInv, NEW i \in Isolate, AbortFreed(i)
  PROVE  IInv'
<1> USE SessionAssumption DEF Goto, engine, registry, call
<1>1. TypeOK /\ Own(i)
  BY DEF IInv
<1>2. /\ conn' \in [Isolate -> Connections] /\ conn'[i] \in {conn[i], Clean}
      /\ \A j \in Isolate \ {i} : conn'[j] = conn[j]
  BY <1>1, CleanOrKept DEF AbortFreed
<1>3. TypeOK'
  BY <1>1, <1>2 DEF TypeOK, Places, AbortFreed, Unlock
<1>4. Fair(i)
  <2>1. \A j \in Isolate \ {i} : Apart(i, j)
    <3>1. \A j \in Isolate \ {i} : pc'[j] = pc[j] /\ txn'[j] = txn[j]
      BY <1>1 DEF TypeOK, AbortFreed
    <3> QED BY <1>2, <3>1 DEF Apart, AbortFreed
  <2>2. "freed" \in faults' /\ faults \subseteq faults' /\ mutex' \in {mutex, Nobody} /\ registered' = registered
    BY DEF AbortFreed, Unlock
  <2> QED BY <2>1, <2>2 DEF Fair
<1>5. Books(i)'
  BY <1>1, <1>2, CleanFacts DEF TypeOK, Own, Books, Place, Inside, AbortFreed, Unlock
<1>6. Place(i)'
  BY <1>1, <1>2, CleanFacts DEF TypeOK, Own, Place, Inside, AbortFreed, Unlock
<1>7. Own(i)'
  BY <1>1, <1>2, <1>5, <1>6, CleanFacts DEF TypeOK, Own, Books, Place, Writing, Inside,
     AbortFreed, Unlock
<1>8. Pooled'
  BY PoolKept DEF AbortFreed, Unlock
<1> QED BY <1>3, <1>4, <1>7, <1>8, OwnEnough

LEMMA ThrowStep ==
  ASSUME IInv, NEW i \in Isolate, Throw(i)
  PROVE  IInv'
<1> USE SessionAssumption DEF Goto, engine, registry, call
<1>1. TypeOK /\ Own(i)
  BY DEF IInv
<1>2. /\ conn' \in [Isolate -> Connections] /\ conn'[i] \in {conn[i], Clean}
      /\ \A j \in Isolate \ {i} : conn'[j] = conn[j]
  BY <1>1, CleanFacts DEF TypeOK, Throw, AbortTxn, Unlock, Threw
<1>3. TypeOK'
  BY <1>1, <1>2 DEF TypeOK, Places, Throw, AbortTxn, Unlock, Threw
<1>4. Fair(i)
  BY <1>1, <1>2 DEF TypeOK, Own, Fair, Apart, Writing, Inside, Throw, AbortTxn, Unlock,
     Threw
<1>5. Books(i)'
  BY <1>1, <1>2, CleanFacts DEF TypeOK, Own, Books, Place, Inside, Throw, AbortTxn, Unlock,
     Threw
<1>6. Place(i)'
  BY <1>1, <1>2, CleanFacts DEF TypeOK, Own, Place, Inside, Throw, AbortTxn, Unlock, Threw
<1>7. Own(i)'
  BY <1>1, <1>2, <1>5, <1>6, CleanFacts DEF TypeOK, Own, Books, Place, Writing, Inside,
     Throw, AbortTxn, Unlock, Threw
<1>8. Pooled'
  BY PoolKept DEF Throw, AbortTxn, Unlock, Threw
<1> QED BY <1>3, <1>4, <1>7, <1>8, OwnEnough

LEMMA EndWithoutTxnStep ==
  ASSUME IInv, NEW i \in Isolate, EndWithoutTxn(i)
  PROVE  IInv'
<1> USE SessionAssumption DEF Goto, engine, registry, call
<1>1. TypeOK /\ Own(i)
  BY DEF IInv
<1>3. TypeOK'
  BY <1>1 DEF TypeOK, Places, EndWithoutTxn, Threw
<1>4. Fair(i)
  BY <1>1 DEF TypeOK, Own, Fair, Apart, Writing, Inside, EndWithoutTxn, Threw
<1>5. Books(i)'
  BY <1>1 DEF TypeOK, Own, Books, Place, Inside, EndWithoutTxn, Threw
<1>6. Place(i)'
  BY <1>1 DEF TypeOK, Own, Place, Inside, EndWithoutTxn, Threw
<1>7. Own(i)'
  BY <1>1, <1>5, <1>6 DEF TypeOK, Own, Books, Place, Writing, Inside, EndWithoutTxn, Threw
<1>8. Pooled'
  BY PoolKept DEF EndWithoutTxn, Threw
<1> QED BY <1>3, <1>4, <1>7, <1>8, OwnEnough

LEMMA ReadEndStep ==
  ASSUME IInv, NEW i \in Isolate, ReadEnd(i)
  PROVE  IInv'
<1> USE SessionAssumption DEF Goto, engine, registry, call
<1>1. TypeOK /\ Own(i)
  BY DEF IInv
<1>2. /\ conn' \in [Isolate -> Connections] /\ conn'[i] \in {conn[i], Clean}
      /\ \A j \in Isolate \ {i} : conn'[j] = conn[j]
  BY <1>1, CleanFacts DEF TypeOK, ReadEnd, AbortTxn
<1>3. TypeOK'
  BY <1>1, <1>2 DEF TypeOK, Places, ReadEnd, AbortTxn
<1>4. Fair(i)
  BY <1>1, <1>2 DEF TypeOK, Own, Fair, Apart, Writing, Inside, ReadEnd, AbortTxn
<1>5. Books(i)'
  BY <1>1, <1>2, CleanFacts DEF TypeOK, Own, Books, Place, Inside, ReadEnd, AbortTxn
<1>6. Place(i)'
  BY <1>1, <1>2, CleanFacts DEF TypeOK, Own, Place, Inside, ReadEnd, AbortTxn
<1>7. Own(i)'
  BY <1>1, <1>2, <1>5, <1>6, CleanFacts DEF TypeOK, Own, Books, Place, Writing, Inside,
     ReadEnd, AbortTxn
<1>8. Pooled'
  BY PoolKept DEF ReadEnd, AbortTxn
<1> QED BY <1>3, <1>4, <1>7, <1>8, OwnEnough

LEMMA NextIInv == IInv /\ [Next]_vars => IInv'
<1> SUFFICES ASSUME IInv, [Next]_vars PROVE IInv'
  OBVIOUS
<1>1. CASE UNCHANGED vars
  <2>1. TypeOK' /\ Pooled'
    BY <1>1 DEF vars, IInv, TypeOK, Pooled
  <2>2. \A i \in Isolate : Own(i)'
    BY <1>1 DEF vars, IInv, Own, Books, Place, Writing
  <2> QED BY <2>1, <2>2 DEF IInv
<1>2. ASSUME NEW i \in Isolate,
             Open(i) \/ CloseCheck(i) \/ CloseLocked(i) \/ CloseReturn(i) \/ CloseDone(i)
      PROVE  IInv'
  BY <1>2, OpenStep, CloseCheckStep, CloseLockedStep, CloseReturnStep, CloseDoneStep
<1>3. ASSUME NEW i \in Isolate, WriteCall(i) \/ ReadBegin(i) \/ ReadBeginFails(i) \/ Acquire(i)
      PROVE  IInv'
  BY <1>3, WriteCallStep, ReadBeginStep, ReadBeginFailsStep, WriteBeginStep, WriteBeginFailsStep
     DEF Acquire
<1>4. ASSUME NEW i \in Isolate, Proceed(i)
      PROVE  IInv'
  BY <1>4, StatementStep, StatementFailsStep, InsertBeginStep, InsertBatchStep, InsertFinishStep,
     InsertFailsStep, InsertAbandonedStep, InsertRefusedStep, CommitStep, CommitFailsStep,
     AbortFreedStep, ThrowStep, EndWithoutTxnStep, ReadEndStep DEF Proceed
<1> QED BY <1>1, <1>2, <1>3, <1>4 DEF Next

LEMMA Invariant == Spec => []IInv
<1>1. Init => IInv
  BY InitIInv
<1>2. IInv /\ [Next]_vars => IInv'
  BY NextIInv
<1> QED BY <1>1, <1>2, PTL DEF Spec

\* Every state of the session model is well typed: in particular the rows
\* pending in a connection and the rows made durable never outnumber the
\* statements that ran.
THEOREM TypeCorrect == Spec => []TypeOK
<1>1. IInv => TypeOK
  BY DEF IInv
<1> QED BY <1>1, Invariant, PTL

\* A write() that returns has made every statement of its callback durable and
\* none has failed (SQLiteTxn::guard, SQLiteInstance::commit_txn).
THEOREM ReturnMakesDurable == Spec => []ReturnedMeansAll
<1>1. IInv => ReturnedMeansAll
  BY DEF IInv, Own, ReturnedMeansAll
<1> QED BY <1>1, Invariant, PTL

\* A write() that throws leaves nothing in the file, unless SQLite rolled back on
\* its own or the error was in a future (abort_txn, guard).
THEOREM ThrowLeavesNothing == Spec => []ThrewMeansNothing
<1>1. IInv => ThrewMeansNothing
  BY DEF IInv, Own, ThrewMeansNothing
<1> QED BY <1>1, Invariant, PTL

\* The write mutex keeps any number of isolates apart: a running write
\* transaction holds it, until a freed transaction is aborted (begin_txn).
THEOREM WritersExclude == Spec => []WritersHoldMutex
<1>1. IInv => WritersHoldMutex
  BY DEF IInv, Own, WritersHoldMutex
<1> QED BY <1>1, Invariant, PTL

\* Whoever has an SQLite instance finds its entry in the registry, however many
\* isolates open and close at once (close_instance).
THEOREM EntryStaysWhileHeld == Spec => []HeldMeansRegistered
<1>1. IInv => HeldMeansRegistered
  BY DEF IInv, Own, HeldMeansRegistered
<1> QED BY <1>1, Invariant, PTL

\* As long as nothing fails to begin and no putAll fails, an isolate between two
\* calls, and the pool, carry no open transaction, flag or mutex (commit_txn,
\* abort_txn).
THEOREM CallsLeaveNoTrace == Spec => []NothingLeftBehind
<1>1. IInv => NothingLeftBehind
  BY DEF IInv, Own, Pooled, Inside, NothingLeftBehind
<1> QED BY <1>1, Invariant, PTL
=============================================================================
