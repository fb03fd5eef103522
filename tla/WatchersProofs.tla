--------------------------- MODULE WatchersProofs ---------------------------
(***************************************************************************)
(* Proofs about the notification of watchers, for any number of            *)
(* collections, objects and watchers: first what watchers are told of,     *)
(* then the log of detailed changes.                                       *)
(***************************************************************************)
EXTENDS Watchers, FiniteSetTheorems, SequenceTheorems, TLAPS

Fields == {"watchers", "log", "listeners"}

Calls == [at : {"register", "store"}, col : Collection, id : Id, value : Value,
          old : Value \cup {None}]

\* What the variables are, apart from the log.
Shape ==
  /\ committed \in Maps /\ view \in Maps
  /\ txn \in {"none", "open", "broken"}
  /\ call \in {Idle} \cup Calls
  /\ ahead \in [Watcher -> SUBSET Watcher]
  /\ fresh \subseteq Watcher /\ watching \subseteq Watcher \ fresh
  /\ \A w \in Watcher : ahead[w] \cap fresh = {}
  /\ DOMAIN changeSet = Fields
  /\ changeSet.watchers \subseteq Watcher
  /\ steady \subseteq watching
  /\ written \subseteq Collection \X Id

\* Nothing is left of a transaction that is over.
Over ==
  /\ txn = "none" => changeSet.watchers = {} /\ written = {} /\ view = committed
  /\ txn # "open" => call = Idle

\* What a transaction changed it has noted.
Noted ==
  /\ \A c \in Collection, id \in Id : view[c][id] # committed[c][id] => <<c, id>> \in written
  /\ call.at = "store" => <<call.col, call.id>> \in written

\* A watcher of the change set watches something that was written.
Justified ==
  \A w \in changeSet.watchers : \E id \in Id :
    /\ <<Target[w].col, id>> \in written
    /\ Target[w].kind = "object" => id = Target[w].id

\* The list of a watcher is marked from its front: with one that was there
\* when w joined, w is marked as well.
FromTheFront ==
  \A w \in steady : Target[w].kind \in {"collection", "object"} =>
    \A x \in ahead[w] \cap SameList(w) :
      x \in changeSet.watchers => w \in changeSet.watchers

\* Collection and object watchers are told of what was written, ...
ListsTold ==
  \A w \in steady :
    /\ Target[w].kind = "collection" =>
         \A id \in Id : <<Target[w].col, id>> \in written => w \in changeSet.watchers
    /\ Target[w].kind = "object" =>
         (<<Target[w].col, Target[w].id>> \in written => w \in changeSet.watchers)

\* ... query watchers of new matches, those about to be stored included.
QueriesTold ==
  \A w \in steady : Target[w].kind = "query" =>
    /\ \A id \in Id : /\ view[Target[w].col][id] # committed[Target[w].col][id]
                      /\ view[Target[w].col][id] \in Target[w].matches
                      => w \in changeSet.watchers
    /\ (call.at = "store" /\ call.col = Target[w].col /\ call.value \in Target[w].matches)
         => w \in changeSet.watchers

IInv ==
  /\ Shape /\ Over /\ Noted
  /\ Justified /\ FromTheFront /\ ListsTold /\ QueriesTold

-----------------------------------------------------------------------------
(* Registering a change.                                                   *)

\* D is a good set of watchers to have marked once the objects `ids' of c are
\* changed.
Marks(D, c, ids) ==
  /\ changeSet.watchers \subseteq D /\ D \subseteq Watcher
  /\ \A w \in D \ changeSet.watchers :
       Target[w].col = c /\ (Target[w].kind = "object" => Target[w].id \in ids)
  /\ \A w \in steady : Target[w].col = c =>
       /\ Target[w].kind = "collection" => w \in D
       /\ Target[w].kind = "object" /\ Target[w].id \in ids => w \in D
  /\ \A w \in steady : Target[w].kind \in {"collection", "object"} =>
       \A x \in ahead[w] \cap SameList(w) : x \in D => w \in D

LEMMA CallFields ==
  ASSUME Shape, call.at \in {"register", "store"}
  PROVE  /\ call \in Calls /\ call.col \in Collection /\ call.id \in Id
         /\ call.value \in Value
BY DEF Shape, Idle, Calls

LEMMA Targets ==
  ASSUME NEW w \in Watcher
  PROVE  /\ Target[w].col \in Collection /\ Target[w].id \in Id /\ Target[w].kind \in Kinds
         /\ Target[w].matches \subseteq Value
BY WatchersAssumption

\* mark_watchers_changed leaves no steady watcher of the list out: the first
\* one already marked, where it stops, has marked all behind it before.
LEMMA MarkedAll ==
  ASSUME Shape, FromTheFront, NEW w \in steady, Target[w].kind \in {"collection", "object"}
  PROVE  w \in changeSet.watchers \cup Marked(SameList(w), changeSet.watchers)
<1>1. w \in SameList(w)
  BY DEF Shape, SameList, OfKind
<1>2. CASE w \notin changeSet.watchers
  <2>1. \A x \in (ahead[w] \cup {w}) \cap SameList(w) : x \notin changeSet.watchers
    BY <1>2 DEF FromTheFront
  <2> QED BY <1>1, <2>1 DEF Marked
<1> QED BY <1>2

LEMMA ChangedMarks ==
  ASSUME IInv, NEW c \in Collection, NEW id \in Id, NEW v
  PROVE  /\ Marks(Changed(changeSet.watchers, c, id, v), c, {id})
         /\ \A w \in steady : (/\ Target[w].kind = "query" /\ Target[w].col = c
                               /\ v \in Target[w].matches)
              => w \in Changed(changeSet.watchers, c, id, v)
<1> DEFINE D == Changed(changeSet.watchers, c, id, v)
<1> USE DEF IInv
<1>1. changeSet.watchers \subseteq D /\ D \subseteq Watcher
  BY DEF Shape, Changed, Marked, OfKind, OfObject, Matching
<1>2. \A w \in D \ changeSet.watchers :
        Target[w].col = c /\ (Target[w].kind = "object" => Target[w].id \in {id})
  BY DEF Changed, Marked, OfKind, OfObject, Matching
<1>3. ASSUME NEW w \in steady, Target[w].col = c, Target[w].kind = "collection"
      PROVE  w \in D
  <2>1. SameList(w) = OfKind("collection", c)
    BY <1>3 DEF SameList
  <2> QED BY <1>3, <2>1, MarkedAll DEF Changed
<1>4. ASSUME NEW w \in steady, Target[w].col = c, Target[w].kind = "object", Target[w].id = id
      PROVE  w \in D
  <2>1. SameList(w) = OfObject(c, id)
    BY <1>4 DEF SameList, OfObject
  <2> QED BY <1>4, <2>1, MarkedAll DEF Changed
<1>5. ASSUME NEW w \in steady, Target[w].kind \in {"collection", "object"},
             NEW x \in ahead[w] \cap SameList(w), x \in D
      PROVE  w \in D
  <2>1. CASE x \in changeSet.watchers
    BY <1>1, <1>5, <2>1 DEF FromTheFront
  <2>2. CASE x \notin changeSet.watchers
    <3>1. Target[w].col = c /\ (Target[w].kind = "object" => Target[w].id = id)
      BY <1>2, <1>5, <2>2 DEF SameList, OfKind
    <3> QED BY <1>3, <1>4, <1>5, <3>1
  <2> QED BY <2>1, <2>2
<1>6. \A w \in steady : (/\ Target[w].kind = "query" /\ Target[w].col = c
                         /\ v \in Target[w].matches) => w \in D
  BY DEF Shape, Changed, Matching, OfKind
<1> HIDE DEF D
<1> QED BY <1>1, <1>2, <1>3, <1>4, <1>5, <1>6 DEF Marks, D

LEMMA ChangedAllMarks ==
  ASSUME IInv, NEW c \in Collection
  PROVE  /\ Marks(ChangedAll(changeSet.watchers, c), c, Id)
         /\ \A w \in steady : Target[w].kind = "query" /\ Target[w].col = c
              => w \in ChangedAll(changeSet.watchers, c)
<1> DEFINE D == ChangedAll(changeSet.watchers, c)
<1> USE DEF IInv
<1>0. \A w : w \in D <=> \/ w \in changeSet.watchers
                         \/ w \in Marked(OfKind("collection", c), changeSet.watchers)
                         \/ \E id \in Id : w \in Marked(OfObject(c, id), changeSet.watchers)
                         \/ w \in OfKind("query", c)
  <2> DEFINE M(id) == Marked(OfObject(c, id), changeSet.watchers)
             U == UNION {M(id) : id \in Id}
  <2>1. D = changeSet.watchers \cup Marked(OfKind("collection", c), changeSet.watchers)
            \cup U \cup OfKind("query", c)
    BY DEF ChangedAll
  <2>2. \A w : w \in U <=> \E id \in Id : w \in M(id)
    <3> HIDE DEF M
    <3> QED OBVIOUS
  <2> HIDE DEF U
  <2> QED BY <2>1, <2>2
<1> HIDE DEF D
<1>1. changeSet.watchers \subseteq D /\ D \subseteq Watcher
  BY <1>0 DEF Shape, Marked, OfKind, OfObject
<1>2. \A w \in D \ changeSet.watchers :
        Target[w].col = c /\ (Target[w].kind = "object" => Target[w].id \in Id)
  BY <1>0 DEF Marked, OfKind, OfObject
<1>3. ASSUME NEW w \in steady, Target[w].col = c, Target[w].kind = "collection"
      PROVE  w \in D
  <2>1. SameList(w) = OfKind("collection", c)
    BY <1>3 DEF SameList
  <2> QED BY <1>3, <2>1, <1>0, MarkedAll
<1>4. ASSUME NEW w \in steady, Target[w].col = c, Target[w].kind = "object"
      PROVE  w \in D
  <2>1. SameList(w) = OfObject(c, Target[w].id)
    BY <1>4 DEF SameList, OfObject
  <2>2. Target[w].id \in Id
    BY Targets DEF Shape
  <2> QED BY <1>4, <2>1, <2>2, <1>0, MarkedAll
<1>5. ASSUME NEW w \in steady, Target[w].kind \in {"collection", "object"},
             NEW x \in ahead[w] \cap SameList(w), x \in D
      PROVE  w \in D
  <2>1. CASE x \in changeSet.watchers
    BY <1>1, <1>5, <2>1 DEF FromTheFront
  <2>2. CASE x \notin changeSet.watchers
    <3>1. Target[w].col = c
      BY <1>2, <1>5, <2>2 DEF SameList, OfKind
    <3> QED BY <1>3, <1>4, <1>5, <3>1
  <2> QED BY <2>1, <2>2
<1>6. \A w \in steady : Target[w].kind = "query" /\ Target[w].col = c => w \in D
  BY <1>0 DEF Shape, OfKind
<1> QED BY <1>1, <1>2, <1>3, <1>4, <1>5, <1>6 DEF Marks, D

\* The detailed part of a change leaves the marked watchers alone.
LEMMA DetailsApart ==
  ASSUME NEW D, NEW c, NEW details, DOMAIN changeSet = Fields
  PROVE  LET cs == WithDetails([changeSet EXCEPT !.watchers = D], c, details)
         IN cs.watchers = D /\ DOMAIN cs = Fields
BY DEF WithDetails, Fields

\* What marking the right watchers is good for.
LEMMA MarksKeep ==
  ASSUME IInv, NEW c \in Collection, NEW ids \in SUBSET Id, ids # {},
         Marks(changeSet'.watchers, c, ids), written' = written \cup ({c} \X ids),
         UNCHANGED <<steady, watching, ahead>>
  PROVE  Justified' /\ FromTheFront' /\ ListsTold'
<1> USE DEF IInv
<1>1. Justified'
  <2>1. SUFFICES ASSUME NEW w \in changeSet'.watchers
                 PROVE  \E id \in Id : /\ <<Target[w].col, id>> \in written'
                                       /\ Target[w].kind = "object" => id = Target[w].id
    BY DEF Justified
  <2>2. CASE w \in changeSet.watchers
    BY <2>2 DEF Justified
  <2>3. CASE w \notin changeSet.watchers
    <3>1. Target[w].col = c /\ (Target[w].kind = "object" => Target[w].id \in ids)
      BY <2>1, <2>3 DEF Marks
    <3> QED BY <3>1
  <2> QED BY <2>2, <2>3
<1>2. FromTheFront'
  BY DEF FromTheFront, Marks, SameList, OfKind
<1>3. ListsTold'
  BY DEF ListsTold, Marks
<1> QED BY <1>1, <1>2, <1>3

-----------------------------------------------------------------------------
(* The inductive step.                                                     *)

LEMMA InitIInv == Init => IInv
<1> SUFFICES ASSUME Init PROVE IInv
  OBVIOUS
<1>1. Shape
  BY DEF Init, Shape, Maps, NoChanges, Fields
<1>2. Over /\ Noted /\ Justified /\ FromTheFront /\ ListsTold /\ QueriesTold
  BY DEF Init, Over, Noted, Justified, FromTheFront, ListsTold, QueriesTold, NoChanges, Idle
<1> QED BY <1>1, <1>2 DEF IInv

\* The marked watchers, the lists and what was written stay as they are.
LEMMA SameMarks ==
  ASSUME IInv, changeSet'.watchers = changeSet.watchers, UNCHANGED <<watching, ahead, steady, written>>
  PROVE  Justified' /\ FromTheFront' /\ ListsTold'
BY DEF IInv, Justified, FromTheFront, ListsTold, SameList, OfKind

\* delete of a stored object, by itself or for an eviction.
LEMMA DeleteStoredKeeps ==
  ASSUME IInv, NEW c \in Collection, NEW id \in Id, DeleteStored(c, id), txn = "open",
         UNCHANGED <<committed, txn, call, lists, sent>>
  PROVE  IInv'
<1> DEFINE D == Changed(changeSet.watchers, c, id, view[c][id])
<1> USE DEF IInv, lists
<1>1. changeSet'.watchers = D /\ DOMAIN changeSet' = Fields
  BY DetailsApart DEF DeleteStored, Shape
<1>2. Marks(D, c, {id})
  BY ChangedMarks
<1> HIDE DEF D
<1>3. /\ view' = [view EXCEPT ![c][id] = None]
      /\ written' = written \cup ({c} \X {id}) /\ steady' = steady
  BY DEF DeleteStored, Wrote
<1>4. view' \in Maps /\ view'[c][id] = None
      /\ \A d \in Collection, x \in Id : <<d, x>> # <<c, id>> => view'[d][x] = view[d][x]
  BY <1>3 DEF Shape, Maps
<1>5. Shape'
  BY <1>1, <1>2, <1>3, <1>4 DEF Shape, Marks
<1>6. Justified' /\ FromTheFront' /\ ListsTold'
  <2>1. Marks(changeSet'.watchers, c, {id}) /\ {id} \in SUBSET Id /\ {id} # {}
    BY <1>1, <1>2
  <2> QED BY <1>3, <2>1, MarksKeep
<1>7. Over' /\ Noted'
  BY <1>3, <1>4 DEF Over, Noted, Shape
<1>8. QueriesTold'
  <2>1. changeSet.watchers \subseteq changeSet'.watchers
    BY <1>1, <1>2 DEF Marks
  <2>2. \A w \in Watcher : None \notin Target[w].matches /\ Target[w].col \in Collection
    BY Targets, WatchersAssumption
  <2> QED BY <1>3, <1>4, <2>1, <2>2 DEF QueriesTold, Shape
<1> QED BY <1>5, <1>6, <1>7, <1>8

LEMMA NextIInv == IInv /\ [Next]_vars => IInv'
<1> SUFFICES ASSUME IInv, [Next]_vars PROVE IInv'
  OBVIOUS
<1> USE DEF IInv, lists, history
<1>1. CASE Begin
  <2>1. Shape' /\ Over' /\ Noted'
    BY <1>1 DEF Begin, Shape, Over, Noted
  <2>2. Justified' /\ FromTheFront' /\ ListsTold' /\ QueriesTold'
    BY <1>1 DEF Begin, Shape, Over, Justified, FromTheFront, ListsTold, QueriesTold, Idle
  <2> QED BY <2>1, <2>2
<1>2. ASSUME NEW c \in Collection, NEW id \in Id, NEW v \in Value, PutStart(c, id, v)
      PROVE  IInv'
  <2>1. call' \in Calls /\ call'.at = "register"
    BY <1>2 DEF PutStart, Calls, Shape, Maps
  <2>2. Shape' /\ Over' /\ Noted'
    BY <1>2, <2>1 DEF PutStart, Ready, Shape, Over, Noted
  <2>3. Justified' /\ FromTheFront' /\ ListsTold'
    BY <1>2, SameMarks DEF PutStart
  <2>4. QueriesTold'
    BY <1>2, <2>1 DEF PutStart, QueriesTold
  <2> QED BY <2>2, <2>3, <2>4
<1>3. CASE PutRegister
  <2> DEFINE c == call.col
             id == call.id
             D == Changed(changeSet.watchers, c, id, call.value)
  <2>1. call \in Calls /\ c \in Collection /\ id \in Id /\ call.value \in Value
    BY <1>3, CallFields DEF PutRegister
  <2>2. changeSet'.watchers = D /\ DOMAIN changeSet' = Fields
    <3>1. changeSet' = WithDetails([changeSet EXCEPT !.watchers = D], c,
                                   Detect(c, id, call.old, call.value))
      BY <1>3 DEF PutRegister
    <3>2. DOMAIN changeSet = Fields
      BY DEF Shape
    <3> HIDE DEF D
    <3> QED BY <3>1, <3>2, DetailsApart
  <2>3. /\ Marks(D, c, {id})
        /\ \A w \in steady : (/\ Target[w].kind = "query" /\ Target[w].col = c
                              /\ call.value \in Target[w].matches) => w \in D
    BY <2>1, ChangedMarks
  <2> HIDE DEF D
  <2>4. /\ call' \in Calls /\ call'.at = "store" /\ call'.col = c /\ call'.id = id
        /\ call'.value = call.value
        /\ written' = written \cup ({c} \X {id})
        /\ UNCHANGED <<committed, view, txn, watching, ahead, fresh, steady>>
    BY <1>3, <2>1 DEF PutRegister, Wrote, Calls
  <2>5. txn = "open"
    BY <1>3 DEF PutRegister, Over, Idle, Shape
  <2>6. Shape'
    BY <2>1, <2>2, <2>3, <2>4 DEF Shape, Marks
  <2>7. Over' /\ Noted'
    BY <2>4, <2>5 DEF Over, Noted
  <2>8. Justified' /\ FromTheFront' /\ ListsTold'
    <3>1. Marks(changeSet'.watchers, c, {id}) /\ {id} \in SUBSET Id /\ {id} # {}
      BY <2>1, <2>2, <2>3
    <3> QED BY <2>1, <2>4, <3>1, MarksKeep
  <2>9. QueriesTold'
    BY <2>2, <2>3, <2>4 DEF QueriesTold, Marks
  <2> QED BY <2>6, <2>7, <2>8, <2>9
<1>4. CASE PutEvict
  <2>1. call.col \in Collection /\ txn = "open"
    BY <1>4, CallFields DEF PutEvict, Over, Idle, Shape
  <2>2. PICK x \in Evicted : DeleteStored(call.col, x)
    BY <1>4 DEF PutEvict
  <2>3. x \in Id
    BY <2>2 DEF Evicted, Stored
  <2> QED BY <1>4, <2>1, <2>2, <2>3, DeleteStoredKeeps DEF PutEvict
<1>5. CASE PutStore
  <2>1. /\ call.col \in Collection /\ call.id \in Id /\ call.value \in Value
        /\ call.at = "store" /\ txn = "open"
    BY <1>5, CallFields DEF PutStore, Over, Idle, Shape
  <2>2. view' = [view EXCEPT ![call.col][call.id] = call.value] /\ call' = Idle
        /\ UNCHANGED <<committed, txn, changeSet, watching, ahead, fresh, steady, written>>
    BY <1>5 DEF PutStore
  <2>3. /\ view' \in Maps /\ view'[call.col][call.id] = call.value
        /\ \A d \in Collection, x \in Id : <<d, x>> # <<call.col, call.id>> => view'[d][x] = view[d][x]
    BY <2>1, <2>2 DEF Shape, Maps
  <2>4. Shape' /\ Over' /\ Noted'
    BY <2>1, <2>2, <2>3 DEF Shape, Over, Noted, Idle
  <2>5. Justified' /\ FromTheFront' /\ ListsTold'
    BY <2>2, SameMarks
  <2>6. QueriesTold'
    <3>1. \A w \in steady : Target[w].col \in Collection
      BY Targets DEF Shape
    <3> QED BY <2>1, <2>2, <2>3, <3>1 DEF QueriesTold, Idle
  <2> QED BY <2>4, <2>5, <2>6
<1>6. ASSUME NEW c \in Collection, NEW id \in Id, DeleteObject(c, id) PROVE IInv'
  BY <1>6, DeleteStoredKeeps DEF DeleteObject, Ready
<1>7. ASSUME NEW c \in Collection, Clear(c) PROVE IInv'
  <2> DEFINE D == ChangedAll(changeSet.watchers, c)
  <2>1. changeSet'.watchers = D /\ DOMAIN changeSet' = Fields
    <3>1. PICK gone \in InOrder(Stored(c)) :
            changeSet' = WithDetails([changeSet EXCEPT !.watchers = D], c,
                           [n \in DOMAIN gone |-> Detail("delete", c, gone[n], None)])
      BY <1>7 DEF Clear
    <3>2. DOMAIN changeSet = Fields BY DEF Shape
    <3> HIDE DEF D
    <3> QED BY <3>1, <3>2, DetailsApart
  <2>2. Marks(D, c, Id)
    BY ChangedAllMarks
  <2> HIDE DEF D
  <2>3. /\ view' = [view EXCEPT ![c] = [id \in Id |-> None]]
        /\ written' = written \cup ({c} \X Id) /\ txn = "open"
        /\ UNCHANGED <<committed, txn, call, watching, ahead, fresh, steady>>
    BY <1>7 DEF Clear, Wrote, Ready
  <2>4. /\ view' \in Maps /\ \A x \in Id : view'[c][x] = None
        /\ \A d \in Collection \ {c} : view'[d] = view[d]
    BY <2>3 DEF Shape, Maps
  <2>5. Shape'
    BY <2>1, <2>2, <2>3, <2>4 DEF Shape, Marks
  <2>6. Over' /\ Noted'
    BY <2>3, <2>4 DEF Over, Noted
  <2>7. Justified' /\ FromTheFront' /\ ListsTold'
    <3>1. CASE Id = {}
      <4>1. Watcher = {}
        BY <3>1, Targets
      <4> QED BY <2>5, <4>1 DEF Shape, Justified, FromTheFront, ListsTold
    <3>2. CASE Id # {}
      BY <2>1, <2>2, <2>3, <3>2, MarksKeep
    <3> QED BY <3>1, <3>2
  <2>8. QueriesTold'
    <3>1. changeSet.watchers \subseteq changeSet'.watchers
      BY <2>1, <2>2 DEF Marks
    <3>2. \A w \in Watcher : None \notin Target[w].matches /\ Target[w].col \in Collection
      BY Targets, WatchersAssumption
    <3> QED BY <2>3, <2>4, <3>1, <3>2 DEF QueriesTold, Shape
  <2> QED BY <2>5, <2>6, <2>7, <2>8
<1>8. CASE OperationFails
  <2>1. Shape' /\ Over' /\ Noted'
    BY <1>8 DEF OperationFails, Shape, Over, Noted, Idle
  <2>2. Justified' /\ FromTheFront' /\ ListsTold'
    BY <1>8, SameMarks DEF OperationFails
  <2>3. QueriesTold'
    BY <1>8 DEF OperationFails, QueriesTold, Idle
  <2> QED BY <2>1, <2>2, <2>3
<1>9. CASE Commit \/ CommitBroken \/ Rollback
  <2>1. /\ changeSet' = NoChanges /\ steady' = {} /\ written' = {} /\ txn' = "none"
        /\ view' = committed' /\ view' \in Maps /\ call' = Idle
        /\ UNCHANGED <<watching, ahead, fresh>>
    BY <1>9 DEF Commit, CommitBroken, Rollback, EndHistory, Ready, Shape, Over
  <2>2. Shape' /\ Over' /\ Noted'
    BY <2>1 DEF Shape, Over, Noted, NoChanges, Fields, Idle
  <2>3. Justified' /\ FromTheFront' /\ ListsTold' /\ QueriesTold'
    BY <2>1 DEF Justified, FromTheFront, ListsTold, QueriesTold, NoChanges
  <2> QED BY <2>2, <2>3
<1>10. ASSUME NEW w \in Watcher, Watch(w) PROVE IInv'
  <2>1. /\ w \in fresh /\ fresh' = fresh \ {w} /\ watching' = watching \cup {w}
        /\ ahead' = [ahead EXCEPT ![w] = SameList(w)]
        /\ UNCHANGED <<committed, view, txn, call, changeSet, steady, written>>
    BY <1>10 DEF Watch
  <2>2. Shape'
    BY <2>1 DEF Shape, SameList, OfKind
  <2>3. Over' /\ Noted' /\ Justified' /\ ListsTold' /\ QueriesTold'
    BY <2>1 DEF Over, Noted, Justified, ListsTold, QueriesTold
  <2>4. FromTheFront'
    <3>1. SUFFICES ASSUME NEW s \in steady, Target[s].kind \in {"collection", "object"},
                          NEW x \in ahead'[s] \cap SameList(s)', x \in changeSet.watchers
                   PROVE  s \in changeSet.watchers
      BY <2>1 DEF FromTheFront
    <3>2. s # w /\ ahead'[s] = ahead[s] /\ s \in Watcher
      BY <2>1 DEF Shape
    <3>3. x # w
      BY <2>1, <3>1, <3>2 DEF Shape
    <3> QED BY <2>1, <3>1, <3>2, <3>3 DEF FromTheFront, SameList, OfKind
  <2> QED BY <2>2, <2>3, <2>4
<1>11. ASSUME NEW w \in Watcher, Stop(w) PROVE IInv'
  <2>1. Shape' /\ Over' /\ Noted' /\ Justified'
    BY <1>11 DEF Stop, Shape, Over, Noted, Justified
  <2>2. FromTheFront' /\ ListsTold' /\ QueriesTold'
    BY <1>11 DEF Stop, FromTheFront, ListsTold, QueriesTold, SameList, OfKind
  <2> QED BY <2>1, <2>2
<1>12. ASSUME NEW c \in Collection, ClearRefused(c) PROVE IInv'
  <2> DEFINE D == ChangedAll(changeSet.watchers, c)
  <2>1. changeSet'.watchers = D /\ DOMAIN changeSet' = Fields
    <3>1. changeSet' = WithDetails([changeSet EXCEPT !.watchers = D], c, <<>>)
      BY <1>12 DEF ClearRefused
    <3>2. DOMAIN changeSet = Fields BY DEF Shape
    <3> HIDE DEF D
    <3> QED BY <3>1, <3>2, DetailsApart
  <2>2. Marks(D, c, Id)
    BY ChangedAllMarks
  <2> HIDE DEF D
  <2>3. /\ written' = written \cup ({c} \X Id) /\ txn = "broken"
        /\ UNCHANGED <<committed, view, txn, call, watching, ahead, fresh, steady>>
    BY <1>12 DEF ClearRefused, Wrote
  <2>4. changeSet.watchers \subseteq changeSet'.watchers
    BY <2>1, <2>2 DEF Marks
  <2>5. Shape'
    BY <2>1, <2>2, <2>3 DEF Shape, Marks
  <2>6. Over' /\ Noted' /\ QueriesTold'
    BY <2>3, <2>4 DEF Over, Noted, QueriesTold
  <2>7. Justified' /\ FromTheFront' /\ ListsTold'
    <3>1. CASE Id = {}
      <4>1. Watcher = {}
        BY <3>1, Targets
      <4> QED BY <2>5, <4>1 DEF Shape, Justified, FromTheFront, ListsTold
    <3>2. CASE Id # {}
      BY <2>1, <2>2, <2>3, <3>2, MarksKeep
    <3> QED BY <3>1, <3>2
  <2> QED BY <2>5, <2>6, <2>7
<1>13. CASE UNCHANGED vars
  BY <1>13, SameMarks DEF vars, Shape, Over, Noted, QueriesTold
<1> QED
  BY <1>1, <1>2, <1>3, <1>4, <1>5, <1>6, <1>7, <1>8, <1>9, <1>10, <1>11, <1>12, <1>13 DEF Next

LEMMA Invariant == Spec => []IInv
<1>1. Init => IInv
  BY InitIInv
<1>2. IInv /\ [Next]_vars => IInv'
  BY NextIInv
<1> QED BY <1>1, <1>2, PTL DEF Spec

-----------------------------------------------------------------------------
(* What a commit tells.                                                    *)

\* Any number of collection, object and query watchers that are in place when
\* a transaction begins are told of what it commits, whoever starts or stops
\* watching meanwhile (register_change, register_all, mark_watchers_changed).
THEOREM SteadyTold == Spec => SteadyWatchersTold
<1> DEFINE Told == Commit => \A w \in steady : Concerns(w) => w \in sent'.watchers
<1>1. IInv => Told
  <2> SUFFICES ASSUME IInv, Commit, NEW w \in steady, Concerns(w) PROVE w \in sent'.watchers
    OBVIOUS
  <2>1. sent' = changeSet /\ w \in Watcher
    BY DEF Commit, IInv, Shape
  <2>2. Target[w].col \in Collection /\ Target[w].id \in Id
    BY <2>1, Targets
  <2>3. CASE Target[w].kind = "collection"
    BY <2>1, <2>2, <2>3 DEF Concerns, Changes, IInv, Noted, ListsTold
  <2>4. CASE Target[w].kind = "object"
    BY <2>1, <2>2, <2>4 DEF Concerns, Changes, IInv, Noted, ListsTold
  <2>5. CASE Target[w].kind = "query"
    BY <2>1, <2>2, <2>5 DEF Concerns, Changes, IInv, QueriesTold
  <2>6. CASE Target[w].kind \notin {"collection", "object", "query"}
    BY <2>6 DEF Concerns
  <2> QED BY <2>3, <2>4, <2>5, <2>6
<1>2. IInv => [Told]_vars
  BY <1>1
<1> QED BY <1>2, Invariant, PTL DEF SteadyWatchersTold

\* No commit tells a watcher of a transaction that was not asked to write
\* anything it watches: what an aborted one has registered is lost with it
\* (notify_watchers, NativeTxn::abort).  The commit of a broken transaction
\* notifies too, of what its calls registered before MDBX undid them.
THEOREM OnlyTheWrittenTold == Spec => OnlyWritesTold
<1> DEFINE Told == Commit \/ CommitBroken =>
                     \A w \in sent'.watchers : \E id \in Id :
                       /\ <<Target[w].col, id>> \in written
                       /\ Target[w].kind = "object" => id = Target[w].id
<1>1. IInv => Told
  BY DEF Commit, CommitBroken, IInv, Justified
<1>2. IInv => [Told]_vars
  BY <1>1
<1> QED BY <1>2, Invariant, PTL DEF OnlyWritesTold

-----------------------------------------------------------------------------
(* The log of detailed changes.                                            *)

\* The detector tells classes of objects apart.
LEMMA AlikeClasses ==
  ASSUME NEW u, NEW v, NEW w
  PROVE  /\ Alike(v, v)
         /\ Alike(u, v) /\ Alike(v, w) => Alike(u, w)
BY DEF Alike

\* One log after the other.
LEMMA LastConcat ==
  ASSUME NEW log \in Seq(Details), NEW more \in Seq(Details), NEW c, NEW id,
         NEW b, NEW v, NEW w, LastSays(log, c, id, b, v), LastSays(more, c, id, v, w)
  PROVE  LastSays(log \o more, c, id, b, w)
<1> DEFINE all == log \o more
           L == Len(log)
<1>1. /\ DOMAIN log = 1..L /\ DOMAIN more = 1..Len(more) /\ DOMAIN all = 1..(L + Len(more))
      /\ L \in Nat /\ Len(more) \in Nat
      /\ \A n \in 1..(L + Len(more)) : all[n] = IF n <= L THEN log[n] ELSE more[n - L]
  BY LenProperties, ConcatProperties
<1> HIDE DEF all, L
<1>2. ASSUME NEW n \in 1..L PROVE n \in About(all, c, id) <=> n \in About(log, c, id)
  <2>1. n \in 1..(L + Len(more)) /\ n <= L BY <1>1
  <2> QED BY <1>1, <2>1 DEF About
<1>3. ASSUME NEW n \in 1..Len(more) PROVE L + n \in About(all, c, id) <=> n \in About(more, c, id)
  <2>1. L + n \in 1..(L + Len(more)) /\ ~(L + n <= L) /\ (L + n) - L = n BY <1>1
  <2>2. all[L + n] = more[n] BY <1>1, <2>1
  <2> QED BY <1>1, <2>1, <2>2 DEF About
<1>4. \A n \in DOMAIN all : n \in 1..L \/ (n - L \in 1..Len(more) /\ n = L + (n - L))
  BY <1>1
<1>5. /\ About(all, c, id) \subseteq DOMAIN all /\ About(log, c, id) \subseteq 1..L
      /\ About(more, c, id) \subseteq 1..Len(more)
  BY <1>1 DEF About
<1>6. CASE About(more, c, id) = {}
  <2>1. Alike(v, w) BY <1>6 DEF LastSays
  <2>2. About(all, c, id) = About(log, c, id) BY <1>2, <1>3, <1>4, <1>5, <1>6
  <2>3. \A n \in About(log, c, id) : all[n] = log[n] BY <1>1, <1>5
  <2>4. ASSUME About(all, c, id) = {} PROVE Alike(b, w)
    <3>1. Alike(b, v) BY <2>2, <2>4 DEF LastSays
    <3> QED BY <2>1, <3>1, AlikeClasses
  <2>5. ASSUME NEW n \in About(all, c, id), \A m \in About(all, c, id) : m <= n
        PROVE  Alike(all[n].value, w)
    <3>1. Alike(log[n].value, v) BY <2>2, <2>5 DEF LastSays
    <3>2. all[n] = log[n] BY <2>2, <2>3
    <3> QED BY <2>1, <3>1, <3>2, AlikeClasses
  <2> QED BY <2>4, <2>5 DEF LastSays, all
<1>7. CASE About(more, c, id) # {}
  <2>1. PICK m \in 1..Len(more) : m \in About(more, c, id) BY <1>5, <1>7
  <2>2. L + m \in About(all, c, id) BY <1>3, <2>1
  <2>3. ASSUME NEW n \in About(all, c, id), \A k \in About(all, c, id) : k <= n
        PROVE  Alike(all[n].value, w)
    <3>1. L + m <= n BY <2>2, <2>3
    <3>2. n \notin 1..L BY <1>1, <3>1
    <3>3. n - L \in 1..Len(more) /\ n = L + (n - L) BY <1>4, <1>5, <3>2
    <3>4. n - L \in About(more, c, id) BY <1>3, <3>3
    <3>5. ASSUME NEW k \in About(more, c, id) PROVE k <= n - L
      <4>1. k \in 1..Len(more) BY <1>5
      <4>2. L + k <= n BY <1>3, <2>3, <4>1
      <4> QED BY <1>1, <3>3, <4>1, <4>2
    <3>6. Alike(more[n - L].value, w) BY <3>4, <3>5 DEF LastSays
    <3>7. n \in 1..(L + Len(more)) /\ ~(n <= L) BY <1>1, <1>5, <3>2
    <3> QED BY <1>1, <3>6, <3>7
  <2> QED BY <2>2, <2>3 DEF LastSays, all
<1> QED BY <1>6, <1>7

\* One change, or none between objects that the detector reads alike.
LEMMA DetectSays ==
  ASSUME NEW c \in Collection, NEW id \in Id, NEW old \in Value \cup {None},
         NEW new \in Value \cup {None}
  PROVE  /\ Detect(c, id, old, new) \in Seq(Details)
         /\ LastSays(Detect(c, id, old, new), c, id, old, new)
         /\ \A d, x, v : <<d, x>> # <<c, id>> => LastSays(Detect(c, id, old, new), d, x, v, v)
         /\ \A n \in DOMAIN Detect(c, id, old, new) : Detect(c, id, old, new)[n].col = c
<1> DEFINE log == Detect(c, id, old, new)
<1>1. CASE Alike(old, new)
  <2>1. log = <<>> BY <1>1 DEF Detect
  <2>2. \A d, x : About(<<>>, d, x) = {} BY DEF About
  <2>3. \A v : Alike(v, v) BY AlikeClasses
  <2> QED BY <1>1, <2>1, <2>2, <2>3 DEF LastSays
<1>2. CASE ~Alike(old, new)
  <2>1. PICK e \in Details : log = <<e>> /\ e.col = c /\ e.id = id /\ e.value = new
    BY <1>2 DEF Detect, Detail, Details
  <2> HIDE DEF log
  <2>2. log \in Seq(Details) /\ DOMAIN log = {1} /\ log[1] = e BY <2>1
  <2>3. About(log, c, id) = {1} BY <2>1, <2>2 DEF About
  <2>4. \A d, x : <<d, x>> # <<c, id>> => About(log, d, x) = {} BY <2>1, <2>2 DEF About
  <2>5. LastSays(log, c, id, old, new) BY <2>1, <2>2, <2>3, AlikeClasses DEF LastSays
  <2>6. \A d, x, v : <<d, x>> # <<c, id>> => LastSays(log, d, x, v, v)
    BY <2>4, AlikeClasses DEF LastSays
  <2> QED BY <2>1, <2>2, <2>5, <2>6 DEF log
<1> QED BY <1>1, <1>2

\* clear says None of every object that is stored, and nothing of others.
LEMMA ClearSays ==
  ASSUME Shape, NEW c \in Collection, NEW gone \in InOrder(Stored(c)), NEW log,
         log = [n \in DOMAIN gone |-> Detail("delete", c, gone[n], None)]
  PROVE  /\ log \in Seq(Details)
         /\ \A id \in Id : LastSays(log, c, id, view[c][id], None)
         /\ \A d, x, v : d # c => LastSays(log, d, x, v, v)
         /\ \A n \in DOMAIN log : log[n].col = c
<1> DEFINE L == Cardinality(Stored(c))
<1>1. L \in Nat
  <2>1. IsFiniteSet(Stored(c)) BY WatchersAssumption, FS_Subset DEF Stored
  <2> QED BY <2>1, FS_CardinalityType
<1>2. gone \in [1..L -> Stored(c)] /\ DOMAIN gone = 1..L /\ ToSet(gone) = Stored(c)
  BY DEF InOrder
<1> HIDE DEF L
<1>3. \A n \in 1..L : gone[n] \in Id BY <1>2 DEF Stored
<1>4. DOMAIN log = 1..L /\ \A n \in 1..L : log[n] = [kind |-> "delete", col |-> c, id |-> gone[n], value |-> None]
  BY <1>2 DEF Detail
<1>5. \A n \in 1..L : log[n] \in Details BY <1>3, <1>4 DEF Details
<1>6. log \in Seq(Details)
  <2>1. log \in [1..L -> Details] BY <1>2, <1>4, <1>5
  <2> QED BY <1>1, <2>1
<1>7. ASSUME NEW id \in Id PROVE LastSays(log, c, id, view[c][id], None)
  <2>1. \A n \in About(log, c, id) : log[n].value = None BY <1>4 DEF About
  <2>2. ASSUME About(log, c, id) = {} PROVE view[c][id] = None
    <3>1. ASSUME NEW n \in 1..L, gone[n] = id PROVE FALSE
      <4>1. log[n].col = c /\ log[n].id = id BY <1>4, <3>1
      <4>2. n \in About(log, c, id) BY <1>4, <4>1 DEF About
      <4> QED BY <2>2, <4>2
    <3>2. id \notin ToSet(gone) BY <1>2, <3>1 DEF ToSet
    <3> QED BY <1>2, <3>2 DEF Stored
  <2> QED BY <2>1, <2>2, AlikeClasses DEF LastSays
<1>8. ASSUME NEW d, NEW x, NEW v, d # c PROVE LastSays(log, d, x, v, v)
  <2>1. About(log, d, x) = {} BY <1>4, <1>8 DEF About
  <2> QED BY <2>1, AlikeClasses DEF LastSays
<1>9. \A n \in DOMAIN log : log[n].col = c BY <1>4
<1> QED BY <1>6, <1>7, <1>8, <1>9

\* What an object is once the put in progress has stored its object.
Meant(c, id) ==
  IF call.at = "store" /\ call.col = c /\ call.id = id THEN call.value ELSE view[c][id]

\* The log tells a detailed watcher of c what the transaction has changed.
Told(c, listening) ==
  /\ \A id \in Id : LastSays(changeSet.log, c, id, committed[c][id], Meant(c, id))
  /\ (\E n \in DOMAIN changeSet.log : changeSet.log[n].col = c) => listening

\* The old object is read when a put starts, because somebody listens.
OldRead(c) == call.at = "register" /\ call.col = c => call.old = view[c][call.id]

LogInv ==
  /\ changeSet \in ChangeSets /\ sent \in ChangeSets
  /\ txn = "none" => changeSet.log = <<>>
  /\ txn = "open" => \A w \in steady : Target[w].kind = "detailed" =>
       Told(Target[w].col, w \in changeSet.listeners) /\ OldRead(Target[w].col)

LEMMA WithDetailsType ==
  ASSUME changeSet \in ChangeSets, Shape, NEW D \in SUBSET Watcher, NEW c, NEW details \in Seq(Details)
  PROVE  LET cs == WithDetails([changeSet EXCEPT !.watchers = D], c, details)
         IN /\ cs \in ChangeSets
            /\ OfKind("detailed", c) # {} => /\ cs.log = changeSet.log \o details
                                             /\ cs.listeners = changeSet.listeners \cup OfKind("detailed", c)
            /\ OfKind("detailed", c) = {} => /\ cs.log = changeSet.log
                                             /\ cs.listeners = changeSet.listeners
<1> DEFINE cs0 == [changeSet EXCEPT !.watchers = D]
           cs == WithDetails(cs0, c, details)
<1>1. /\ cs0 \in ChangeSets /\ cs0.log = changeSet.log /\ cs0.listeners = changeSet.listeners
      /\ changeSet.log \in Seq(Details) /\ changeSet.listeners \subseteq Watcher
  BY DEF ChangeSets
<1> HIDE DEF cs0
<1>2. CASE OfKind("detailed", c) = {}
  <2>1. cs = cs0 BY <1>2 DEF WithDetails
  <2> QED BY <1>1, <1>2, <2>1 DEF cs0
<1>3. CASE OfKind("detailed", c) # {}
  <2>1. cs = [cs0 EXCEPT !.log = @ \o details, !.listeners = @ \cup OfKind("detailed", c)]
    BY <1>3 DEF WithDetails
  <2>2. OfKind("detailed", c) \subseteq Watcher BY DEF OfKind, Shape
  <2>3. changeSet.log \o details \in Seq(Details) BY <1>1, ConcatProperties
  <2>4. /\ cs \in ChangeSets /\ cs.log = changeSet.log \o details
        /\ cs.listeners = changeSet.listeners \cup OfKind("detailed", c)
    BY <1>1, <2>1, <2>2, <2>3 DEF ChangeSets
  <2> QED BY <1>3, <2>4 DEF cs0
<1> QED BY <1>2, <1>3 DEF cs0

\* A call that reports what it changes of the objects of c.
LEMMA ReportKeeps ==
  ASSUME Shape, LogInv, txn = "open", NEW D \in SUBSET Watcher, NEW c \in Collection,
         NEW details \in Seq(Details),
         changeSet' = WithDetails([changeSet EXCEPT !.watchers = D], c, details),
         UNCHANGED <<committed, txn, sent, steady>>,
         call'.at # "register",
         \A n \in DOMAIN details : details[n].col = c,
         \A w \in steady : (Target[w].kind = "detailed" /\ Target[w].col = c) =>
           \A id \in Id : LastSays(details, c, id, Meant(c, id), Meant(c, id)'),
         \A d \in Collection, id \in Id : d # c => Meant(d, id)' = Meant(d, id)
  PROVE  LogInv'
<1>1. changeSet \in ChangeSets /\ sent \in ChangeSets /\ changeSet.log \in Seq(Details)
  BY DEF LogInv, ChangeSets
<1>2. /\ changeSet' \in ChangeSets
      /\ OfKind("detailed", c) # {} => /\ changeSet'.log = changeSet.log \o details
                                       /\ changeSet'.listeners = changeSet.listeners \cup OfKind("detailed", c)
      /\ OfKind("detailed", c) = {} => /\ changeSet'.log = changeSet.log
                                       /\ changeSet'.listeners = changeSet.listeners
  <2> DEFINE cs == WithDetails([changeSet EXCEPT !.watchers = D], c, details)
  <2>1. /\ cs \in ChangeSets
        /\ OfKind("detailed", c) # {} => /\ cs.log = changeSet.log \o details
                                         /\ cs.listeners = changeSet.listeners \cup OfKind("detailed", c)
        /\ OfKind("detailed", c) = {} => /\ cs.log = changeSet.log
                                         /\ cs.listeners = changeSet.listeners
    BY <1>1, WithDetailsType
  <2> HIDE DEF cs
  <2>2. changeSet' = cs BY DEF cs
  <2> QED BY <2>1, <2>2
<1>3. ASSUME NEW w \in steady, Target[w].kind = "detailed"
      PROVE  Told(Target[w].col, w \in changeSet.listeners)'
  <2> DEFINE k == Target[w].col
  <2>1. w \in watching /\ k \in Collection BY Targets DEF Shape
  <2>2. /\ \A id \in Id : LastSays(changeSet.log, k, id, committed[k][id], Meant(k, id))
        /\ (\E n \in DOMAIN changeSet.log : changeSet.log[n].col = k) => w \in changeSet.listeners
    BY <1>3 DEF LogInv, Told
  <2>3. ASSUME k # c, NEW id \in Id, NEW v PROVE LastSays(details, k, id, v, v)
    <3>1. About(details, k, id) = {} BY <2>3 DEF About
    <3> QED BY <3>1, AlikeClasses DEF LastSays
  <2>4. CASE OfKind("detailed", c) = {}
    <3>1. k # c BY <1>3, <2>1, <2>4 DEF OfKind
    <3>2. \A id \in Id : Meant(k, id)' = Meant(k, id) BY <2>1, <3>1
    <3>3. changeSet'.log = changeSet.log /\ changeSet'.listeners = changeSet.listeners
      BY <1>2, <2>4
    <3>4. \A id \in Id : LastSays(changeSet'.log, k, id, committed'[k][id], Meant(k, id)')
      BY <2>2, <3>2, <3>3
    <3> QED BY <2>2, <3>3, <3>4 DEF Told, LastSays, About
  <2>5. CASE OfKind("detailed", c) # {}
    <3>1. /\ changeSet'.log = changeSet.log \o details
          /\ changeSet'.listeners = changeSet.listeners \cup OfKind("detailed", c)
      BY <1>2, <2>5
    <3>2. ASSUME NEW id \in Id
          PROVE  LastSays(changeSet'.log, k, id, committed'[k][id], Meant(k, id)')
      <4>1. LastSays(details, k, id, Meant(k, id), Meant(k, id)')
        <5>1. CASE k = c BY <1>3, <5>1
        <5>2. CASE k # c BY <2>1, <2>3, <5>2
        <5> QED BY <5>1, <5>2
      <4>2. LastSays(changeSet.log, k, id, committed[k][id], Meant(k, id)) BY <2>2
      <4> HIDE DEF k
      <4>3. LastSays(changeSet.log \o details, k, id, committed[k][id], Meant(k, id)')
        BY <1>1, <4>1, <4>2, LastConcat
      <4> QED BY <3>1, <4>3
    <3>3. ASSUME NEW n \in DOMAIN changeSet'.log, changeSet'.log[n].col = k
          PROVE  w \in changeSet'.listeners
      <4>1. CASE k = c BY <1>3, <2>1, <3>1, <4>1 DEF OfKind
      <4>2. CASE k # c
        <5> DEFINE log == changeSet.log
                   all == log \o details
        <5>0. /\ DOMAIN log = 1..Len(log) /\ DOMAIN details = 1..Len(details)
              /\ DOMAIN all = 1..(Len(log) + Len(details))
              /\ Len(log) \in Nat /\ Len(details) \in Nat
              /\ \A i \in 1..(Len(log) + Len(details)) :
                   all[i] = IF i <= Len(log) THEN log[i] ELSE details[i - Len(log)]
          BY <1>1, LenProperties, ConcatProperties
        <5>1. /\ DOMAIN log = 1..Len(log) /\ DOMAIN details = 1..Len(details)
              /\ DOMAIN changeSet'.log = 1..(Len(log) + Len(details))
              /\ Len(log) \in Nat /\ Len(details) \in Nat
              /\ \A i \in 1..(Len(log) + Len(details)) :
                   changeSet'.log[i] = IF i <= Len(log) THEN log[i] ELSE details[i - Len(log)]
          <6> HIDE DEF all
          <6>1. changeSet'.log = all BY <3>1 DEF all
          <6> QED BY <5>0, <6>1
        <5> HIDE DEF log, all, k
        <5>2. CASE n <= Len(log)
          <6>1. n \in DOMAIN log /\ log[n].col = k BY <3>3, <5>1, <5>2
          <6> QED BY <2>2, <3>1, <6>1 DEF log
        <5>3. CASE ~(n <= Len(log))
          <6>1. n - Len(log) \in DOMAIN details BY <5>1, <5>3
          <6>2. details[n - Len(log)].col = k BY <3>3, <5>1, <5>3
          <6> QED BY <4>2, <6>1, <6>2
        <5> QED BY <5>2, <5>3
      <4> QED BY <4>1, <4>2
    <3> QED BY <3>2, <3>3 DEF Told, LastSays, About
  <2> QED BY <2>4, <2>5
<1>4. \A w \in steady' : Target[w].kind = "detailed" =>
        Told(Target[w].col, w \in changeSet.listeners)' /\ OldRead(Target[w].col)'
  BY <1>3 DEF OldRead
<1> QED BY <1>1, <1>2, <1>4 DEF LogInv

LEMMA DeleteStoredReports ==
  ASSUME IInv, LogInv, NEW c \in Collection, NEW id \in Id, DeleteStored(c, id), txn = "open",
         call.at # "register", call.at = "store" => <<c, id>> # <<call.col, call.id>>,
         UNCHANGED <<committed, txn, call, lists, sent>>
  PROVE  LogInv'
<1> DEFINE D == Changed(changeSet.watchers, c, id, view[c][id])
           details == Detect(c, id, view[c][id], None)
<1>1. Shape BY DEF IInv
<1>2. /\ changeSet' = WithDetails([changeSet EXCEPT !.watchers = D], c, details)
      /\ view' = [view EXCEPT ![c][id] = None] /\ steady' = steady
  BY DEF DeleteStored, Wrote
<1>3. D \in SUBSET Watcher BY ChangedMarks DEF Marks
<1>4. view[c][id] \in Value \cup {None} BY <1>1 DEF Shape, Maps
<1>5. /\ details \in Seq(Details) /\ LastSays(details, c, id, view[c][id], None)
      /\ \A d, x, v : <<d, x>> # <<c, id>> => LastSays(details, d, x, v, v)
      /\ \A n \in DOMAIN details : details[n].col = c
  BY <1>4, DetectSays
<1> HIDE DEF D, details
<1>6. Meant(c, id) = view[c][id] /\ Meant(c, id)' = None
  BY <1>1, <1>2 DEF Meant, Shape, Maps
<1>7. \A d \in Collection, x \in Id : <<d, x>> # <<c, id>> => Meant(d, x)' = Meant(d, x)
  BY <1>1, <1>2 DEF Meant, Shape, Maps
<1>8. \A x \in Id : LastSays(details, c, x, Meant(c, x), Meant(c, x)')
  BY <1>5, <1>6, <1>7
<1>9. \A d \in Collection, x \in Id : d # c => Meant(d, x)' = Meant(d, x) BY <1>7
<1> QED BY <1>1, <1>2, <1>3, <1>5, <1>8, <1>9, ReportKeeps

\* A step that leaves the change set alone, and what the view is meant to be.
LEMMA QuietKeeps ==
  ASSUME LogInv, UNCHANGED <<committed, changeSet, sent>>, steady' \subseteq steady,
         txn' = "open" => txn = "open", txn' = "none" => txn = "none",
         txn' = "open" => /\ \A w \in steady' : OldRead(Target[w].col) => OldRead(Target[w].col)'
                          /\ \A w \in steady', id \in Id :
                               Meant(Target[w].col, id)' = Meant(Target[w].col, id)
  PROVE  LogInv'
<1>1. ASSUME txn' = "open", NEW w \in steady', Target[w].kind = "detailed"
      PROVE  Told(Target[w].col, w \in changeSet.listeners)' /\ OldRead(Target[w].col)'
  <2>1. Told(Target[w].col, w \in changeSet.listeners) /\ OldRead(Target[w].col)
    BY <1>1 DEF LogInv
  <2>2. OldRead(Target[w].col)' BY <1>1, <2>1
  <2>3. Told(Target[w].col, w \in changeSet.listeners)'
    BY <1>1, <2>1 DEF Told, LastSays, About
  <2> QED BY <2>2, <2>3
<1>2. changeSet' \in ChangeSets /\ sent' \in ChangeSets /\ (txn' = "none" => changeSet'.log = <<>>)
  BY DEF LogInv
<1> QED BY <1>1, <1>2 DEF LogInv

LEMMA NextLogInv == IInv /\ IInv' /\ LogInv /\ [Next]_vars => LogInv'
<1> SUFFICES ASSUME IInv, IInv', LogInv, [Next]_vars PROVE LogInv'
  OBVIOUS
<1> USE DEF lists, history
<1>0. Shape /\ Over /\ \A w \in steady : w \in watching /\ w \in Watcher /\ Target[w].col \in Collection
  BY Targets DEF IInv, Shape
<1>1. CASE Begin
  <2>1. /\ txn = "none" /\ changeSet' = changeSet /\ changeSet.log = <<>> /\ call' = call
        /\ call = Idle /\ view' = committed' /\ sent' = NoChanges /\ txn' = "open"
    BY <1>0, <1>1 DEF Begin, LogInv, Over
  <2>2. sent' \in ChangeSets /\ changeSet' \in ChangeSets
    BY <2>1 DEF LogInv, ChangeSets, NoChanges
  <2>3. call'.at = "idle" BY <2>1 DEF Idle
  <2>4. \A k, id, b : LastSays(<<>>, k, id, b, b)
    <3>1. \A k, id : About(<<>>, k, id) = {} BY DEF About
    <3> QED BY <3>1, AlikeClasses DEF LastSays
  <2>5. \A k, id : Meant(k, id)' = committed'[k][id] BY <2>1, <2>3 DEF Meant
  <2>6. changeSet'.log = <<>> BY <2>1
  <2>7. \A k, id : LastSays(changeSet'.log, k, id, committed'[k][id], Meant(k, id)')
    BY <2>4, <2>5, <2>6
  <2>8. \A w : Told(Target[w].col, w \in changeSet.listeners)' /\ OldRead(Target[w].col)'
    BY <2>3, <2>6, <2>7 DEF Told, OldRead, LastSays, About
  <2> QED BY <2>1, <2>2, <2>8 DEF LogInv
<1>2. ASSUME NEW c \in Collection, NEW id \in Id, NEW v \in Value, PutStart(c, id, v)
      PROVE  LogInv'
  <2>1. /\ txn = "open" /\ call = Idle /\ call'.at = "register" /\ call'.col = c /\ call'.id = id
        /\ (OfKind("detailed", c) # {} => call'.old = view[c][id])
        /\ UNCHANGED <<committed, view, txn, watching, steady, changeSet, sent>>
    BY <1>2 DEF PutStart, Ready
  <2>2. \A w \in steady : Target[w].kind = "detailed" => OldRead(Target[w].col)'
    BY <1>0, <2>1 DEF OldRead, OfKind
  <2>3. \A k, x : Meant(k, x)' = Meant(k, x) BY <2>1 DEF Meant, Idle
  <2>4. ASSUME NEW w \in steady', Target[w].kind = "detailed"
        PROVE  Told(Target[w].col, w \in changeSet.listeners)'
    <3>1. Told(Target[w].col, w \in changeSet.listeners) BY <2>1, <2>4 DEF LogInv
    <3> QED BY <2>1, <2>3, <3>1 DEF Told, LastSays, About
  <2> QED BY <2>1, <2>2, <2>4 DEF LogInv
<1>3. CASE PutRegister
  <2>1. PICK c \in Collection, id \in Id, v \in Value, old \in Value \cup {None} :
          call.col = c /\ call.id = id /\ call.value = v /\ call.old = old
    BY <1>0, <1>3, CallFields DEF PutRegister, Calls
  <2> DEFINE D == Changed(changeSet.watchers, c, id, v)
             details == Detect(c, id, old, v)
  <2>2. /\ call.at = "register" /\ call'.at = "store" /\ call'.col = c /\ call'.id = id
        /\ call'.value = v
        /\ changeSet' = WithDetails([changeSet EXCEPT !.watchers = D], c, details)
        /\ UNCHANGED <<committed, view, txn, sent, steady>>
    <3>1. call \in Calls BY <1>0, <1>3, CallFields DEF PutRegister
    <3> QED BY <1>3, <2>1, <3>1 DEF PutRegister, Wrote, Calls
  <2>3. txn = "open" BY <1>0, <2>2 DEF Over, Idle, Shape
  <2>4. D \in SUBSET Watcher BY <2>1, ChangedMarks DEF Marks
  <2>5. /\ details \in Seq(Details) /\ LastSays(details, c, id, old, v)
        /\ \A d, x, y : <<d, x>> # <<c, id>> => LastSays(details, d, x, y, y)
        /\ \A n \in DOMAIN details : details[n].col = c
    <3>1. v \in Value \cup {None} OBVIOUS
    <3>2. details \in Seq(Details) /\ LastSays(details, c, id, old, v) BY <3>1, DetectSays
    <3>3. \A d, x, y : <<d, x>> # <<c, id>> => LastSays(details, d, x, y, y)
      BY <3>1, DetectSays, Zenon
    <3>4. \A n \in DOMAIN details : details[n].col = c BY <3>1, DetectSays
    <3> QED BY <3>2, <3>3, <3>4
  <2> HIDE DEF D, details
  <2>6. \A d, x : Meant(d, x) = view[d][x] BY <2>2 DEF Meant
  <2>7. Meant(c, id)' = v BY <2>2 DEF Meant
  <2>8. \A d, x : <<d, x>> # <<c, id>> => Meant(d, x)' = Meant(d, x) BY <2>2, <2>6 DEF Meant
  <2>9. ASSUME NEW w \in steady, Target[w].kind = "detailed", Target[w].col = c, NEW x \in Id
        PROVE  LastSays(details, c, x, Meant(c, x), Meant(c, x)')
    <3>1. CASE x = id
      <4>1. OldRead(c) BY <2>3, <2>9 DEF LogInv
      <4>2. old = view[c][id] BY <2>1, <2>2, <4>1 DEF OldRead
      <4> QED BY <2>5, <2>6, <2>7, <3>1, <4>2
    <3>2. CASE x # id BY <2>5, <2>8, <3>2
    <3> QED BY <3>1, <3>2
  <2>10. \A d \in Collection, x \in Id : d # c => Meant(d, x)' = Meant(d, x) BY <2>8
  <2>11. call'.at # "register" BY <2>2
  <2>12. UNCHANGED <<committed, txn, sent, steady>> BY <2>2
  <2> QED BY <1>0, <2>2, <2>3, <2>4, <2>5, <2>9, <2>10, <2>11, <2>12, ReportKeeps
<1>4. CASE PutEvict
  <2>1. /\ call.col \in Collection /\ txn = "open" /\ call.at = "store"
    BY <1>0, <1>4, CallFields DEF PutEvict, Over, Idle
  <2>2. PICK x \in Evicted : DeleteStored(call.col, x) BY <1>4 DEF PutEvict
  <2>3. x \in Id /\ x # call.id BY <2>2 DEF Evicted, Stored
  <2>4. UNCHANGED <<committed, txn, call, lists, sent>> BY <1>4 DEF PutEvict
  <2> QED BY <2>1, <2>2, <2>3, <2>4, DeleteStoredReports
<1>5. CASE PutStore
  <2>1. /\ call.col \in Collection /\ call.id \in Id /\ call.at = "store" /\ txn = "open"
    BY <1>0, <1>5, CallFields DEF PutStore, Over, Idle
  <2>2. /\ view' = [view EXCEPT ![call.col][call.id] = call.value] /\ call' = Idle
        /\ UNCHANGED <<committed, txn, changeSet, sent, steady>>
    BY <1>5 DEF PutStore
  <2>3. \A d \in Collection, x \in Id : Meant(d, x)' = Meant(d, x)
    BY <1>0, <2>1, <2>2 DEF Meant, Idle, Shape, Maps
  <2>4. \A d : OldRead(d)' BY <2>2 DEF OldRead, Idle
  <2> QED BY <1>0, <2>1, <2>2, <2>3, <2>4, QuietKeeps
<1>6. ASSUME NEW c \in Collection, NEW id \in Id, DeleteObject(c, id) PROVE LogInv'
  <2>1. txn = "open" /\ call.at = "idle" /\ DeleteStored(c, id)
        /\ UNCHANGED <<committed, txn, call, lists, sent>>
    BY <1>6 DEF DeleteObject, Ready, Idle
  <2> QED BY <2>1, DeleteStoredReports
<1>7. ASSUME NEW c \in Collection, Clear(c) PROVE LogInv'
  <2> DEFINE D == ChangedAll(changeSet.watchers, c)
  <2>1. PICK gone \in InOrder(Stored(c)) :
          changeSet' = WithDetails([changeSet EXCEPT !.watchers = D], c,
                         [n \in DOMAIN gone |-> Detail("delete", c, gone[n], None)])
    BY <1>7 DEF Clear
  <2>2. D \in SUBSET Watcher BY ChangedAllMarks DEF Marks
  <2> HIDE DEF D
  <2> DEFINE details == [n \in DOMAIN gone |-> Detail("delete", c, gone[n], None)]
  <2>3. /\ details \in Seq(Details)
        /\ \A id \in Id : LastSays(details, c, id, view[c][id], None)
        /\ \A n \in DOMAIN details : details[n].col = c
    BY <1>0, ClearSays
  <2>4. changeSet' = WithDetails([changeSet EXCEPT !.watchers = D], c, details) BY <2>1
  <2> HIDE DEF details
  <2>5. /\ view' = [view EXCEPT ![c] = [id \in Id |-> None]] /\ txn = "open" /\ call = Idle
        /\ UNCHANGED <<committed, txn, call, sent, steady>>
    BY <1>7 DEF Clear, Wrote, Ready
  <2>6. call.at = "idle" BY <2>5 DEF Idle
  <2>7. /\ \A id \in Id : Meant(c, id) = view[c][id] /\ Meant(c, id)' = None
        /\ \A d \in Collection, x \in Id : d # c => Meant(d, x)' = Meant(d, x)
    BY <1>0, <2>5, <2>6 DEF Meant, Shape, Maps
  <2>8. \A x \in Id : LastSays(details, c, x, Meant(c, x), Meant(c, x)') BY <2>3, <2>7
  <2> QED BY <1>0, <2>2, <2>3, <2>4, <2>5, <2>6, <2>7, <2>8, ReportKeeps
<1>8. CASE OperationFails
  BY <1>8, QuietKeeps DEF OperationFails
<1>9. CASE Commit \/ CommitBroken \/ Rollback
  <2>1. /\ changeSet' = NoChanges /\ txn' = "none" /\ (sent' = sent \/ sent' = changeSet)
    BY <1>9 DEF Commit, CommitBroken, Rollback
  <2>2. NoChanges \in ChangeSets /\ NoChanges.log = <<>> BY DEF NoChanges, ChangeSets
  <2> QED BY <2>1, <2>2 DEF LogInv
<1>10. ASSUME NEW w \in Watcher, Watch(w) PROVE LogInv'
  <2>1. UNCHANGED <<committed, view, txn, call, changeSet, sent, steady>> BY <1>10 DEF Watch
  <2> QED BY <2>1, QuietKeeps DEF OldRead, Meant
<1>11. ASSUME NEW w \in Watcher, Stop(w) PROVE LogInv'
  <2>1. /\ UNCHANGED <<committed, view, txn, call, changeSet, sent>> /\ steady' \subseteq steady
    BY <1>11 DEF Stop
  <2> QED BY <2>1, QuietKeeps DEF OldRead, Meant
<1>12. ASSUME NEW c \in Collection, ClearRefused(c) PROVE LogInv'
  <2> DEFINE D == ChangedAll(changeSet.watchers, c)
             cs == WithDetails([changeSet EXCEPT !.watchers = D], c, <<>>)
  <2>1. changeSet' = cs /\ txn' = "broken" /\ sent' = sent BY <1>12 DEF ClearRefused
  <2>2. D \in SUBSET Watcher BY ChangedAllMarks DEF Marks
  <2>3. changeSet \in ChangeSets /\ sent \in ChangeSets BY DEF LogInv
  <2> HIDE DEF D
  <2>4. cs \in ChangeSets
    <3>1. <<>> \in Seq(Details) OBVIOUS
    <3> QED BY <1>0, <2>2, <2>3, <3>1, WithDetailsType
  <2> HIDE DEF cs
  <2> QED BY <2>1, <2>3, <2>4 DEF LogInv
<1>13. CASE UNCHANGED vars
  <2>1. UNCHANGED <<committed, view, txn, call, changeSet, sent, steady>> BY <1>13 DEF vars
  <2> QED BY <2>1, QuietKeeps DEF OldRead, Meant
<1> QED
  BY <1>1, <1>2, <1>3, <1>4, <1>5, <1>6, <1>7, <1>8, <1>9, <1>10, <1>11, <1>12, <1>13 DEF Next

LEMMA LogInvariant == Spec => [](IInv /\ LogInv)
<1>1. ASSUME Init PROVE IInv /\ LogInv
  <2>1. NoChanges \in ChangeSets /\ NoChanges.log = <<>> BY DEF NoChanges, ChangeSets
  <2> QED BY <1>1, <2>1, InitIInv DEF Init, LogInv
<1>2. ASSUME IInv /\ LogInv, [Next]_vars PROVE (IInv /\ LogInv)'
  BY <1>2, NextIInv, NextLogInv
<1> QED BY <1>1, <1>2, PTL DEF Spec

\* Whatever watchers and transactions do, the lists hold watchers that have
\* started, and the change set and what was sent are logs of changes.
THEOREM TypeCorrect == Spec => []TypeOK
<1>1. IInv /\ LogInv => TypeOK BY DEF IInv, Shape, LogInv, TypeOK, Calls
<1> QED BY <1>1, LogInvariant, PTL

\* A detailed watcher in place before a transaction can replay its log: the
\* last entry about an object is what the commit stores, evictions and clear
\* included, as far as the change detector tells objects apart
\* (ChangeSet::register_detailed_change, NativeCollection::put).
THEOREM LogsReplay == Spec => LogReplays
<1> DEFINE Complete ==
      Commit => \A w \in steady :
       Target[w].kind = "detailed" =>
         \A id \in Id :
           LET c == Target[w].col
           IN /\ ~Alike(committed[c][id], view[c][id]) => w \in sent'.listeners
              /\ LastSays(sent'.log, c, id, committed[c][id], view[c][id])
<1>1. IInv /\ LogInv => Complete
  <2> SUFFICES ASSUME IInv, LogInv, Commit, NEW w \in steady, Target[w].kind = "detailed",
                      NEW id \in Id
               PROVE  LET c == Target[w].col
                      IN /\ ~Alike(committed[c][id], view[c][id]) => w \in sent'.listeners
                         /\ LastSays(sent'.log, c, id, committed[c][id], view[c][id])
    OBVIOUS
  <2> DEFINE c == Target[w].col
  <2>1. sent' = changeSet /\ txn = "open" /\ call.at = "idle" BY DEF Commit, Ready, Idle
  <2>2. Told(c, w \in changeSet.listeners) BY <2>1 DEF LogInv
  <2>3. LastSays(changeSet.log, c, id, committed[c][id], view[c][id])
    BY <2>1, <2>2 DEF Told, Meant
  <2>4. ASSUME ~Alike(committed[c][id], view[c][id]) PROVE w \in changeSet.listeners
    <3>1. About(changeSet.log, c, id) # {} BY <2>3, <2>4 DEF LastSays
    <3> QED BY <2>2, <3>1 DEF Told, About
  <2> QED BY <2>1, <2>3, <2>4
<1>2. IInv /\ LogInv => [Complete]_vars BY <1>1
<1> QED BY <1>2, LogInvariant, PTL DEF LogReplays
=============================================================================
