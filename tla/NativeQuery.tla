----------------------------- MODULE NativeQuery -----------------------------
(***************************************************************************)
(* How the native engine runs a query: the iterators over one collection   *)
(* with filter, distinct, offset, limit and sort order, and the aggregates *)
(* that consume them.  A query sees one snapshot of the collection; the    *)
(* iterator is lazy, so offset, limit and the distinct keys seen so far    *)
(* are counted while the caller pulls one object after the other.          *)
(*                                                                         *)
(* What a filter accepts is given by Accepts (see NativeFilter); property  *)
(* values are their ranks in the order that sorting and aggregates use.    *)
(***************************************************************************)
EXTENDS Integers, Sequences, FiniteSets, SequencesExt, FiniteSetsExt, Functions

CONSTANTS
  Id,          \* object ids
  Object,      \* object contents
  None,        \* no object, no aggregate, no property
  Database,    \* the collections queries are asked of
  Prop,        \* properties; "id" stands for the id
  Rank,        \* Rank[p][o]: the place of o's value in the order of p
  NullRank,    \* NullRank[p]: the rank of null, None if p cannot be null
  Least,       \* Least[p]: the rank of the least value of p's type
  Greatest,    \* Greatest[p]: the rank of the greatest value of p's type
  Filter,
  Accepts,     \* Accepts[f]: the <<id, object>> pairs the filter accepts
  Query        \* [filter, sort, distinct, offset, limit, op, prop]: the last two
               \* are what is asked of the query, and about which property

ASSUME QueryAssumption ==
  /\ Id \subseteq Int /\ IsFiniteSet(Id)
  /\ None \notin Object
  /\ Database \subseteq [Id -> Object \cup {None}]
  /\ Rank \in [Prop -> [Object -> Int]]
  /\ NullRank \in [Prop -> Int \cup {None}]
  /\ Least \in [Prop -> Int] /\ Greatest \in [Prop -> Int]
  /\ \A p \in Prop, o \in Object :
       Rank[p][o] # NullRank[p] => Least[p] <= Rank[p][o] /\ Rank[p][o] <= Greatest[p]
  /\ "id" \in Prop => \A id \in Id : Least["id"] <= id /\ id <= Greatest["id"]
  /\ Accepts \in [Filter -> SUBSET (Id \X Object)]
  /\ Query \subseteq [filter : Filter, sort : Seq([prop : Prop, ascending : BOOLEAN]),
                       distinct : Seq(Prop), offset : Nat, limit : Nat,
                       op : {"find", "count", "isEmpty", "min", "max", "sum"}, prop : Prop]

VARIABLES
  objects,     \* the snapshot
  query,       \* the query that runs
  phase,       \* "idle", "scanning", "collecting" (before a sort), "done"
  ahead,       \* the ids the cursor has not reached
  hashes,      \* the distinct keys the iterator has returned or skipped
  skip,        \* how many objects it still skips
  take,        \* how many it still returns
  results,     \* the ids returned, or collected for the sort
  best,        \* aggregate_min_max: the value so far, and
  found,       \* whether any object has improved on the first one
  sum, count   \* aggregate_sum_average, and Iterator::count

vars == <<objects, query, phase, ahead, hashes, skip, take, results, best,
          found, sum, count>>

-----------------------------------------------------------------------------
Stored == {id \in Id : objects[id] # None}

Value(p, id) == IF p = "id" THEN id ELSE Rank[p][objects[id]]

Accepted(id) == <<id, objects[id]>> \in Accepts[query.filter]

\* hash_property folded over the distinct properties, taken to be injective.
DistinctKey(id) == [n \in DOMAIN query.distinct |-> Value(query.distinct[n], id)]

\* The comparison function of the sort.
Before(x, y) ==
  \E n \in DOMAIN query.sort :
    LET key(m, id) == Value(query.sort[m].prop, id)
    IN /\ \A m \in 1..(n - 1) : key(m, x) = key(m, y)
       /\ IF query.sort[n].ascending THEN key(n, x) < key(n, y)
                                     ELSE key(n, y) < key(n, x)

Aggregating == query.op \in {"min", "max"}

\* Where the search for a minimum or a maximum starts.
Start(q) == CASE q.op = "min" -> Greatest[q.prop]
              [] q.op = "max" -> Least[q.prop]
              [] OTHER -> None

-----------------------------------------------------------------------------
Init ==
  /\ objects \in Database
  /\ query = None
  /\ phase = "idle"
  /\ ahead = {} /\ hashes = {}
  /\ skip = 0 /\ take = 0
  /\ results = <<>>
  /\ best = None /\ found = FALSE /\ sum = 0 /\ count = 0

\* QueryIterator::new.  The C interface passes no offset as 0 and no limit as
\* 0, which becomes u32::MAX; aggregates know neither and ignore the order.
Ask(q) ==
  /\ phase = "idle"
  /\ query' = q
  /\ phase' = IF q.sort # <<>> /\ q.op = "find" THEN "collecting" ELSE "scanning"
  /\ ahead' = Stored
  /\ skip' = IF q.op = "find" THEN q.offset ELSE 0
  /\ take' = IF q.op = "find" /\ q.limit # 0 THEN q.limit ELSE Cardinality(Id) + 1
  /\ best' = Start(q)
  /\ UNCHANGED <<objects, hashes, results, found, sum, count>>

\* The caller has its answer and drops the iterator.
Close ==
  /\ phase = "done"
  /\ query' = None
  /\ phase' = "idle"
  /\ ahead' = {} /\ hashes' = {}
  /\ skip' = 0 /\ take' = 0
  /\ results' = <<>>
  /\ best' = None /\ found' = FALSE /\ sum' = 0 /\ count' = 0
  /\ UNCHANGED objects

-----------------------------------------------------------------------------
(* The unsorted iterators: one turn of the loop in next().                 *)

Consume(id) == ahead' = ahead \ {id}

\* Mutant: duplicates are not dropped.
RejectedByFilter(id) == ~Accepted(id)

Rejected(id) ==
  \/ ~Accepted(id)
  \/ query.distinct # <<>> /\ DistinctKey(id) \in hashes

Seen(id) == hashes' = IF query.distinct = <<>> THEN {} ELSE hashes \cup {DistinctKey(id)}

ScanReject(id) ==
  /\ Rejected(id)
  /\ Consume(id)
  /\ UNCHANGED <<objects, query, phase, hashes, skip, take, results, best,
                 found, sum, count>>

\* Mutant: what is skipped does not count as seen.
ScanSkipUnseen(id) ==
  /\ ~Rejected(id) /\ skip > 0
  /\ skip' = skip - 1
  /\ Consume(id)
  /\ UNCHANGED <<objects, query, phase, hashes, take, results, best, found,
                 sum, count>>

ScanSkip(id) ==
  /\ ~Rejected(id) /\ skip > 0
  /\ skip' = skip - 1
  /\ Seen(id)
  /\ Consume(id)
  /\ UNCHANGED <<objects, query, phase, take, results, best, found, sum, count>>

\* Mutant: null is a value like any other.
BetterOrNull(value) ==
  IF query.op = "min" THEN value < best ELSE value > best

\* aggregate_min_max: null is passed over, and only a strict improvement on
\* the starting value counts as having found something.
Better(value) ==
  /\ value # NullRank[query.prop]
  /\ IF query.op = "min" THEN value < best ELSE value > best

\* Mutant: nulls are counted.
AddedAll(value) == sum' = sum + value /\ count' = count + 1

\* aggregate_sum_average: null is passed over.
Added(value) ==
  IF value = NullRank[query.prop] THEN UNCHANGED <<sum, count>>
  ELSE sum' = sum + value /\ count' = count + 1

\* What the caller does with the object it gets.
Receive(id) ==
  \/ /\ query.op \in {"find", "count", "isEmpty"}
     /\ results' = IF query.op = "find" THEN Append(results, id) ELSE results
     /\ count' = count + 1
     /\ UNCHANGED <<best, found, sum>>
  \/ /\ Aggregating
     /\ LET better == Better(Value(query.prop, id))
        IN /\ best' = IF better THEN Value(query.prop, id) ELSE best
           /\ found' = (found \/ better)
     /\ UNCHANGED <<results, sum, count>>
  \/ /\ query.op = "sum"
     /\ Added(Value(query.prop, id))
     /\ UNCHANGED <<results, best, found>>

\* Mutant: the last object does not end the query.
ScanReturnMore(id) ==
  /\ ~Rejected(id) /\ skip = 0
  /\ take' = take - 1
  /\ Seen(id)
  /\ Consume(id)
  /\ Receive(id)
  /\ phase' = IF query.op = "isEmpty" THEN "done" ELSE "scanning"
  /\ UNCHANGED <<objects, query, skip>>

\* isEmpty pulls one object and no more.
ScanReturn(id) ==
  /\ ~Rejected(id) /\ skip = 0 /\ take > 0
  /\ take' = take - 1
  /\ Seen(id)
  /\ Consume(id)
  /\ Receive(id)
  /\ phase' = IF query.op = "isEmpty" THEN "done" ELSE "scanning"
  /\ UNCHANGED <<objects, query, skip>>

\* Nothing more to take: next() returns None and is not called again.
ScanStop(id) ==
  /\ ~Rejected(id) /\ skip = 0 /\ take = 0
  /\ phase' = "done"
  /\ UNCHANGED <<objects, query, ahead, hashes, skip, take, results, best,
                 found, sum, count>>

\* The cursor goes from the least id to the greatest.
ScanStep ==
  /\ phase = "scanning" /\ ahead # {}
  /\ LET id == Min(ahead)
     IN ScanReject(id) \/ ScanSkip(id) \/ ScanReturn(id) \/ ScanStop(id)

ScanEnd ==
  /\ phase = "scanning" /\ ahead = {}
  /\ phase' = "done"
  /\ UNCHANGED <<objects, query, ahead, hashes, skip, take, results, best,
                 found, sum, count>>

-----------------------------------------------------------------------------
(* The sorted iterator does all its work before it returns anything.       *)

CollectStep ==
  /\ phase = "collecting" /\ ahead # {}
  /\ LET id == Min(ahead)
     IN /\ results' = IF Accepted(id) THEN Append(results, id) ELSE results
        /\ Consume(id)
  /\ UNCHANGED <<objects, query, phase, hashes, skip, take, best, found, sum,
                 count>>

\* sort_unstable_by: any order that the comparison allows.
Sorted(s, t) ==
  /\ ToSet(t) = ToSet(s)
  /\ \A m, n \in DOMAIN t : m < n => ~Before(t[n], t[m])

Orders(s) == {t \in [DOMAIN s -> ToSet(s)] : IsInjective(t) /\ Sorted(s, t)}

\* The first object of each distinct key.
Distinct(s) ==
  LET later(n) == \E m \in 1..(n - 1) : DistinctKey(s[m]) = DistinctKey(s[n])
      upTo[n \in 0..Len(s)] ==
        IF n = 0 THEN <<>>
        ELSE IF later(n) THEN upTo[n - 1]
        ELSE Append(upTo[n - 1], s[n])
  IN IF query.distinct = <<>> THEN s ELSE upTo[Len(s)]

\* skip(offset).take(limit)
Window(s) == SubSeq(s, skip + 1, IF skip + take < Len(s) THEN skip + take ELSE Len(s))

\* Mutant: the window is cut out before duplicates are dropped.
SortDistinctLast ==
  /\ phase = "collecting" /\ ahead = {}
  /\ \E t \in Orders(results) : results' = Distinct(Window(t))
  /\ phase' = "done"
  /\ UNCHANGED <<objects, query, ahead, hashes, skip, take, best, found, sum,
                 count>>

SortResults ==
  /\ phase = "collecting" /\ ahead = {}
  /\ \E t \in Orders(results) : results' = Window(Distinct(t))
  /\ phase' = "done"
  /\ UNCHANGED <<objects, query, ahead, hashes, skip, take, best, found, sum,
                 count>>

-----------------------------------------------------------------------------
Next ==
  \/ \E q \in Query : Ask(q)
  \/ Close
  \/ ScanStep \/ ScanEnd \/ CollectStep \/ SortResults

Spec == Init /\ [][Next]_vars

-----------------------------------------------------------------------------
(* Properties.                                                             *)

TypeOK ==
  /\ objects \in Database
  /\ query \in Query \cup {None}
  /\ phase \in {"idle", "scanning", "collecting", "done"}
  /\ ahead \subseteq Stored
  /\ skip \in Nat /\ take \in Nat
  /\ results \in Seq(Id)
  /\ found \in BOOLEAN
  /\ sum \in Int /\ count \in Nat

\* The accepted objects, and with distinct the first of each key in id order.
Matching == {id \in Stored : Accepted(id)}

Duplicate(x, y) == query.distinct # <<>> /\ DistinctKey(x) = DistinctKey(y)

Firsts == {id \in Matching : \A x \in Matching : x < id => ~Duplicate(x, id)}

Asked(ops) == phase = "done" /\ query.op \in ops

InWindow(n) == n > query.offset /\ (query.limit = 0 \/ n <= query.offset + query.limit)

\* An unsorted query returns, in the order of the ids, those objects whose
\* place among the distinct matching ones is in the window: the counting of
\* the lazy iterators agrees with what offset and limit mean.
FindIsWindow ==
  Asked({"find"}) /\ query.sort = <<>> =>
    /\ ToSet(results) = {id \in Firsts : InWindow(Cardinality({x \in Firsts : x <= id}))}
    /\ \A m, n \in DOMAIN results : m < n => results[m] < results[n]

\* The number of distinct matching objects that have to, and that may, come
\* before id: an object stands for its duplicates where the first of them is.
Earlier(id) ==
  Cardinality({x \in Firsts : \E y \in Matching : (x = y \/ Duplicate(x, y)) /\ Before(y, id)})
NotLater(id) ==
  Cardinality({x \in Firsts : \E y \in Matching : (x = y \/ Duplicate(x, y)) /\ ~Before(id, y)})

\* A sorted query returns as many objects as the window has room for, in
\* order and without duplicates, and each is at a place it can have in the
\* order of all matching objects: nothing smaller is left out before it.
SortedFindIsWindow ==
  Asked({"find"}) /\ query.sort # <<>> =>
    /\ Len(results) = Cardinality({n \in 1..Cardinality(Firsts) : InWindow(n)})
    /\ ToSet(results) \subseteq Matching
    /\ \A m, n \in DOMAIN results : m < n =>
         ~Before(results[n], results[m]) /\ ~Duplicate(results[m], results[n])
    /\ \A n \in DOMAIN results :
         /\ Earlier(results[n]) < query.offset + n
         /\ NotLater(results[n]) >= query.offset + n

\* count and isEmpty agree with what an unbounded find returns, also when
\* distinct drops objects.
CountAgrees ==
  /\ Asked({"count"}) => count = Cardinality(Firsts)
  /\ Asked({"isEmpty"}) => (count = 0 <=> Matching = {})

Values == {id \in Firsts : Value(query.prop, id) # NullRank[query.prop]}

\* min and max are those of the values that are not null; none is found only
\* if there are none, or none that differs from the extreme of the type.
ExtremesAgree ==
  Asked({"min", "max"}) =>
    /\ best = Start(query) \/ \E id \in Values : best = Value(query.prop, id)
    /\ \A id \in Values : IF query.op = "min" THEN best <= Value(query.prop, id)
                                                ELSE best >= Value(query.prop, id)
    /\ found <=> \E id \in Values : Value(query.prop, id) # Start(query)

\* sum, and the average, are taken over the values that are not null.
SumsAgree ==
  Asked({"sum"}) =>
    /\ sum = MapThenSumSet(LAMBDA id : Value(query.prop, id), Values)
    /\ count = Cardinality(Values)
=============================================================================
