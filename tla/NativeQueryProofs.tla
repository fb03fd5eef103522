-------------------------- MODULE NativeQueryProofs --------------------------
(***************************************************************************)
(* What a query returns, for every collection and every query: the         *)
(* invariant of the loop of the lazy iterators, which counts offset and    *)
(* limit down while the distinct keys come in, and what is left of a       *)
(* sorted list when duplicates are dropped and the window is cut out.      *)
(***************************************************************************)
EXTENDS NativeQuery, FiniteSetTheorems, SequenceTheorems, WellFoundedInduction, TLAPS

-----------------------------------------------------------------------------
(* Finite sets of integers.  The library's induction theorems take a       *)
(* predicate as a parameter, which the provers cannot instantiate; here    *)
(* the predicate is a set.                                                 *)

\* The least element of a finite set of integers: the parts of the set up to
\* each of its elements are ordered by inclusion.
LEMMA LeastOf ==
  ASSUME NEW S, S \subseteq Int, IsFiniteSet(S), S # {}
  PROVE  Min(S) \in S /\ \A y \in S : Min(S) <= y
<1> DEFINE UpTo(k) == {z \in S : z <= k}
           Parts == {UpTo(k) : k \in S}
<1>1. IsWellFoundedOn(StrictSubsetOrdering(S), FiniteSubsetsOf(S))
  BY FS_StrictSubsetOrderingWellFounded
<1>2. Parts \subseteq FiniteSubsetsOf(S)
  <2>1. ASSUME NEW k \in S PROVE UpTo(k) \in FiniteSubsetsOf(S)
    <3>1. IsFiniteSet(UpTo(k)) BY FS_Subset
    <3> QED BY <3>1 DEF FiniteSubsetsOf
  <2> QED BY <2>1
<1>3. Parts # {} OBVIOUS
<1>4. PICK b \in Parts : \A y \in Parts : <<y, b>> \notin StrictSubsetOrdering(S)
  <2> HIDE DEF Parts
  <2> QED BY <1>1, <1>2, <1>3, WFMin
<1>5. PICK x \in S : b = UpTo(x) OBVIOUS
<1>6. ASSUME NEW y \in S, y < x PROVE FALSE
  <2>1. UpTo(y) \in Parts OBVIOUS
  <2>2. x \in Int /\ y \in Int /\ ~(x <= y) BY <1>6
  <2>3. x \in UpTo(x) /\ x \notin UpTo(y) /\ UpTo(x) \subseteq S BY <2>2
  <2>4. ASSUME NEW z \in UpTo(y) PROVE z \in UpTo(x)
    <3>1. z \in S /\ z \in Int /\ z <= y OBVIOUS
    <3> QED BY <1>6, <2>2, <3>1
  <2> HIDE DEF UpTo
  <2>5. <<UpTo(y), UpTo(x)>> \in StrictSubsetOrdering(S)
    BY <2>3, <2>4 DEF StrictSubsetOrdering
  <2> QED BY <1>4, <1>5, <2>1, <2>5
<1>7. \A y \in S : x <= y BY <1>6
<1> QED BY <1>7 DEF Min

\* Induction up to a number.
LEMMA Upward ==
  ASSUME NEW L \in Nat, NEW T, 0 \in T, \A n \in 1..L : n - 1 \in T => n \in T
  PROVE  0..L \subseteq T
<1> DEFINE B == {n \in 0..L : n \notin T}
<1> SUFFICES ASSUME B # {} PROVE FALSE OBVIOUS
<1>1. PICK x \in B : \A y \in B : x <= y
  <2>1. IsFiniteSet(0..L) BY FS_Interval
  <2>2. IsFiniteSet(B) /\ B \subseteq Int BY <2>1, FS_Subset
  <2> HIDE DEF B
  <2> QED BY <2>2, LeastOf
<1>2. x \in 0..L /\ x \notin T /\ x # 0 OBVIOUS
<1>3. x \in 1..L /\ x - 1 \in 0..L /\ ~(x <= x - 1) BY <1>2
<1>4. x - 1 \notin B BY <1>1, <1>3
<1> QED BY <1>2, <1>3, <1>4

\* What the first k values of a function with the start b and the step G are.
Steps(f, b, G, k) == f[0] = b /\ \A n \in 1..k : f[n] = G[<<f[n - 1], n>>]

\* A function defined by recursion exists.
LEMMA Recursion ==
  ASSUME NEW V, NEW b \in V, NEW L \in Nat, NEW G \in [V \X (1..L) -> V]
  PROVE  \E f \in [0..L -> V] : Steps(f, b, G, L)
<1> DEFINE T == {k \in 0..L : \E f \in [0..k -> V] : Steps(f, b, G, k)}
<1>1. 0 \in T
  <2> DEFINE f == [n \in 0..0 |-> b]
  <2>1. f \in [0..0 -> V] OBVIOUS
  <2>2. Steps(f, b, G, 0) BY DEF Steps
  <2> QED BY <2>1, <2>2
<1>2. ASSUME NEW k \in 1..L, k - 1 \in T PROVE k \in T
  <2>1. PICK f \in [0..(k - 1) -> V] : Steps(f, b, G, k - 1) BY <1>2
  <2> DEFINE v == G[<<f[k - 1], k>>]
             g == [n \in 0..k |-> IF n = k THEN v ELSE f[n]]
  <2>2. f[k - 1] \in V OBVIOUS
  <2>3. v \in V BY <2>2
  <2> HIDE DEF v
  <2>4. g \in [0..k -> V]
    <3>1. \A n \in 0..k : n = k \/ n \in 0..(k - 1) OBVIOUS
    <3> QED BY <2>3, <3>1
  <2>5. g[0] = b BY <2>1 DEF Steps
  <2>6. ASSUME NEW n \in 1..k PROVE g[n] = G[<<g[n - 1], n>>]
    <3>1. g[n - 1] = f[n - 1] OBVIOUS
    <3>2. CASE n = k
      <4>1. g[n] = v BY <3>2
      <4> HIDE DEF g
      <4> QED BY <3>1, <3>2, <4>1 DEF v
    <3>3. CASE n # k
      <4>1. n \in 1..(k - 1) BY <3>3
      <4>2. g[n] = f[n] BY <3>3
      <4> QED BY <2>1, <3>1, <4>1, <4>2 DEF Steps
    <3> QED BY <3>2, <3>3
  <2>7. Steps(g, b, G, k) BY <2>5, <2>6 DEF Steps
  <2> HIDE DEF g
  <2> QED BY <2>4, <2>7
<1>3. 0..L \subseteq T
  <2> HIDE DEF T
  <2> QED BY <1>1, <1>2, Upward
<1> QED BY <1>3

-----------------------------------------------------------------------------
(* Values and keys.                                                        *)

\* A query runs on objects of a database of the model.
Runs == objects \in Database /\ query \in Query

LEMMA QueryFields ==
  ASSUME query \in Query
  PROVE  /\ query.filter \in Filter /\ query.prop \in Prop
         /\ query.sort \in Seq([prop : Prop, ascending : BOOLEAN])
         /\ query.distinct \in Seq(Prop)
         /\ query.offset \in Nat /\ query.limit \in Nat
         /\ query.op \in {"find", "count", "isEmpty", "min", "max", "sum"}
BY QueryAssumption

LEMMA StoredFacts ==
  ASSUME objects \in Database
  PROVE  /\ Stored \subseteq Id /\ Stored \subseteq Int /\ IsFiniteSet(Stored)
         /\ \A id \in Stored : objects[id] \in Object
         /\ IsFiniteSet(Id) /\ Cardinality(Id) \in Nat /\ Cardinality(Stored) <= Cardinality(Id)
<1>1. Stored \subseteq Id BY DEF Stored
<1>2. IsFiniteSet(Stored) /\ Cardinality(Stored) <= Cardinality(Id)
  BY <1>1, QueryAssumption, FS_Subset
<1>3. \A id \in Stored : objects[id] \in Object
  <2>1. objects \in [Id -> Object \cup {None}] BY QueryAssumption
  <2> QED BY <2>1 DEF Stored
<1>4. IsFiniteSet(Id) /\ Cardinality(Id) \in Nat BY QueryAssumption, FS_CardinalityType
<1> QED BY <1>1, <1>2, <1>3, <1>4, QueryAssumption

LEMMA ValueType ==
  ASSUME Runs, NEW p \in Prop, NEW id \in Stored
  PROVE  Value(p, id) \in Int
<1>1. id \in Int /\ objects[id] \in Object BY StoredFacts DEF Runs
<1>2. Rank[p][objects[id]] \in Int BY <1>1, QueryAssumption
<1> QED BY <1>1, <1>2 DEF Value

\* The search for an extreme starts where nothing but null is beyond it.
LEMMA ValueBounds ==
  ASSUME Runs, NEW p \in Prop, NEW id \in Stored, Value(p, id) # NullRank[p]
  PROVE  Least[p] <= Value(p, id) /\ Value(p, id) <= Greatest[p]
<1>1. id \in Id /\ objects[id] \in Object BY StoredFacts DEF Runs
<1> QED BY <1>1, QueryAssumption DEF Value

\* The objects a query is about, and the first of those with the same key.
LEMMA FirstsFacts ==
  ASSUME objects \in Database
  PROVE  /\ Firsts \subseteq Matching /\ Matching \subseteq Stored
         /\ IsFiniteSet(Firsts) /\ IsFiniteSet(Matching)
         /\ Cardinality(Firsts) \in Nat /\ Cardinality(Firsts) <= Cardinality(Id)
<1>1. Firsts \subseteq Matching /\ Matching \subseteq Stored BY DEF Firsts, Matching
<1>2. IsFiniteSet(Matching) BY <1>1, StoredFacts, FS_Subset
<1>3. IsFiniteSet(Firsts) BY <1>1, <1>2, FS_Subset
<1>4. Cardinality(Firsts) <= Cardinality(Stored) BY <1>1, StoredFacts, FS_Subset
<1>5. Cardinality(Firsts) \in Nat /\ Cardinality(Stored) \in Nat
  BY <1>3, StoredFacts, FS_CardinalityType
<1> QED BY <1>1, <1>2, <1>3, <1>4, <1>5, StoredFacts

\* Every object stands behind a first one with its key.
LEMMA FirstOf ==
  ASSUME objects \in Database, NEW id \in Matching
  PROVE  \E x \in Firsts : x <= id /\ (x = id \/ Duplicate(x, id))
<1> DEFINE Same == {x \in Matching : x = id \/ Duplicate(x, id)}
<1>1. Same \subseteq Int /\ IsFiniteSet(Same) /\ id \in Same
  BY FirstsFacts, StoredFacts, FS_Subset
<1>2. PICK x \in Same : \A y \in Same : x <= y
  <2> HIDE DEF Same
  <2> QED BY <1>1, LeastOf
<1>3. ASSUME NEW y \in Matching, y < x, Duplicate(y, x) PROVE FALSE
  <2>1. Duplicate(y, id) BY <1>2, <1>3 DEF Duplicate
  <2>2. y \in Same BY <2>1
  <2>3. x \in Int /\ y \in Int BY <1>1, <2>2
  <2> QED BY <1>2, <1>3, <2>2, <2>3
<1>4. x \in Firsts BY <1>3 DEF Firsts
<1> QED BY <1>1, <1>2, <1>4

-----------------------------------------------------------------------------
(* Sums.  MapThenSumSet takes the elements of a set one by one, whichever  *)
(* CHOOSE picks; the sum does not depend on the order.                     *)

Total(S) == MapThenSumSet(LAMBDA id : Value(query.prop, id), S)

Pick(s) == CHOOSE x \in s : TRUE

SumStep(f, s) == IF s = {} THEN 0 ELSE Value(query.prop, Pick(s)) + f[s \ {Pick(s)}]

IsSum(f, S) == f = [s \in SUBSET S |-> SumStep(f, s)]

LEMMA SubsetFacts ==
  ASSUME Runs, NEW S \in SUBSET Stored
  PROVE  /\ \A x \in S : Value(query.prop, x) \in Int
         /\ IsFiniteSet(S) /\ Cardinality(S) \in Nat
         /\ S # {} => Pick(S) \in S /\ Cardinality(S) > 0
         /\ \A x \in S : S \ {x} \in SUBSET Stored /\ Cardinality(S \ {x}) = Cardinality(S) - 1
<1>1. query.prop \in Prop BY QueryFields DEF Runs
<1>2. \A x \in S : Value(query.prop, x) \in Int BY <1>1, ValueType
<1>3. IsFiniteSet(S) BY StoredFacts, FS_Subset DEF Runs
<1>4. Cardinality(S) \in Nat BY <1>3, FS_CardinalityType
<1>5. \A x \in S : Cardinality(S \ {x}) = Cardinality(S) - 1 BY <1>3, FS_RemoveElement
<1>6. ASSUME S # {} PROVE Pick(S) \in S /\ Cardinality(S) > 0
  <2>1. Cardinality(S) # 0 BY <1>3, <1>6, FS_EmptySet
  <2> QED BY <1>4, <1>6, <2>1 DEF Pick
<1> QED BY <1>2, <1>3, <1>4, <1>5, <1>6

LEMMA SumExists ==
  ASSUME Runs, NEW S \in SUBSET Stored
  PROVE  \E f : IsSum(f, S)
<1> DEFINE L == Cardinality(S)
           V == [SUBSET S -> Int]
           b == [s \in SUBSET S |-> 0]
           G == [x \in V \X (1..L) |-> [s \in SUBSET S |-> SumStep(x[1], s)]]
<1>1. L \in Nat BY SubsetFacts
<1>2. ASSUME NEW f \in V, NEW s \in SUBSET S PROVE SumStep(f, s) \in Int
  <2>1. s \in SUBSET Stored OBVIOUS
  <2>2. s # {} => Value(query.prop, Pick(s)) \in Int BY <2>1, SubsetFacts
  <2>3. f[s \ {Pick(s)}] \in Int OBVIOUS
  <2> QED BY <2>2, <2>3 DEF SumStep
<1>3. G \in [V \X (1..L) -> V]
  <2>1. ASSUME NEW x \in V \X (1..L) PROVE [s \in SUBSET S |-> SumStep(x[1], s)] \in V
    <3>1. x[1] \in V OBVIOUS
    <3> HIDE DEF V
    <3>2. \A s \in SUBSET S : SumStep(x[1], s) \in Int BY <1>2, <3>1
    <3> QED BY <3>2 DEF V
  <2> QED BY <2>1
<1>4. b \in V OBVIOUS
<1>5. PICK F \in [0..L -> V] : Steps(F, b, G, L)
  <2> HIDE DEF L, V, b, G
  <2> QED BY <1>1, <1>3, <1>4, Recursion
<1> DEFINE f == [s \in SUBSET S |-> F[Cardinality(s)][s]]
<1>6. ASSUME NEW s \in SUBSET S PROVE Cardinality(s) \in 0..L
  <2>1. IsFiniteSet(S) /\ s \in SUBSET Stored BY SubsetFacts
  <2>2. Cardinality(s) \in Nat BY <2>1, SubsetFacts
  <2> QED BY <1>1, <2>1, <2>2, FS_Subset
<1>7. ASSUME NEW s \in SUBSET S PROVE f[s] = SumStep(f, s)
  <2>1. CASE s = {}
    <3>1. Cardinality(s) = 0 BY <2>1, FS_EmptySet
    <3>2. F[0] = b BY <1>5 DEF Steps
    <3> QED BY <2>1, <3>1, <3>2 DEF SumStep
  <2>2. CASE s # {}
    <3> DEFINE n == Cardinality(s)
               r == s \ {Pick(s)}
    <3>1. s \in SUBSET Stored OBVIOUS
    <3>2. n > 0 /\ Cardinality(r) = n - 1 BY <2>2, <3>1, SubsetFacts
    <3>3. n \in 1..L BY <1>1, <1>6, <3>2
    <3>4. F[n - 1] \in V
      <4> HIDE DEF V, n, L
      <4>1. n - 1 \in 0..L BY <1>1, <3>3
      <4> QED BY <1>5, <4>1
    <3>5. F[n] = G[<<F[n - 1], n>>] BY <1>5, <3>3 DEF Steps
    <3>6. G[<<F[n - 1], n>>] = [q \in SUBSET S |-> SumStep(F[n - 1], q)]
      <4> HIDE DEF V, n, L
      <4>1. <<F[n - 1], n>> \in V \X (1..L) BY <3>3, <3>4
      <4> QED BY <4>1
    <3>7. F[n][s] = SumStep(F[n - 1], s) BY <3>5, <3>6
    <3>8. f[r] = F[n - 1][r] BY <3>2
    <3> HIDE DEF f
    <3>9. SumStep(F[n - 1], s) = SumStep(f, s) BY <2>2, <3>8 DEF SumStep
    <3> QED BY <3>7, <3>9 DEF f
  <2> QED BY <2>1, <2>2
<1>8. f = [s \in SUBSET S |-> SumStep(f, s)]
  <2>1. f = [s \in SUBSET S |-> f[s]] OBVIOUS
  <2> HIDE DEF f
  <2> QED BY <1>7, <2>1
<1> QED BY <1>8 DEF IsSum

\* A sum can begin with any of the elements.
LEMMA SumFirst ==
  ASSUME Runs, NEW S \in SUBSET Stored, NEW f, IsSum(f, S)
  PROVE  \A s \in SUBSET S : /\ f[s] \in Int
                             /\ \A x \in s : f[s] = Value(query.prop, x) + f[s \ {x}]
<1> DEFINE L == Cardinality(S)
           P(s) == /\ f[s] \in Int
                   /\ \A x \in s : f[s] = Value(query.prop, x) + f[s \ {x}]
           T == {n \in 0..L : \A s \in SUBSET S : Cardinality(s) <= n => P(s)}
<1>1. L \in Nat BY SubsetFacts
<1>2. \A s \in SUBSET S : f[s] = SumStep(f, s) BY DEF IsSum
<1>3. \A s \in SUBSET S : s \in SUBSET Stored /\ IsFiniteSet(s) /\ Cardinality(s) \in Nat
  BY SubsetFacts
<1>4. 0 \in T
  <2>1. ASSUME NEW s \in SUBSET S, Cardinality(s) <= 0 PROVE P(s)
    <3>1. Cardinality(s) = 0 BY <1>3, <2>1
    <3>2. s = {} BY <1>3, <3>1, FS_EmptySet
    <3>3. f[s] = 0 BY <1>2, <3>2 DEF SumStep
    <3> QED BY <3>2, <3>3
  <2> QED BY <1>1, <2>1
<1>5. ASSUME NEW n \in 1..L, n - 1 \in T PROVE n \in T
  <2> SUFFICES ASSUME NEW s \in SUBSET S, Cardinality(s) <= n PROVE P(s)
    OBVIOUS
  <2> HIDE DEF P
  <2>1. \A r \in SUBSET S : Cardinality(r) <= n - 1 => P(r) BY <1>5
  <2>2. CASE Cardinality(s) <= n - 1 BY <2>1, <2>2
  <2>3. CASE ~(Cardinality(s) <= n - 1)
    <3> DEFINE v(x) == Value(query.prop, x)
               c == Pick(s)
    <3>1. Cardinality(s) = n BY <1>3, <2>3
    <3>2. s # {} BY <1>1, <3>1, FS_EmptySet
    <3>3. /\ c \in s /\ \A x \in s : v(x) \in Int
          /\ \A x \in s : s \ {x} \in SUBSET S /\ Cardinality(s \ {x}) = n - 1
      BY <1>3, <3>1, <3>2, SubsetFacts
    <3>4. \A x \in s : P(s \ {x})
      <4>1. n - 1 \in Int /\ n - 1 <= n - 1 OBVIOUS
      <4> QED BY <2>1, <3>3, <4>1
    <3>5. f[s] = v(c) + f[s \ {c}] BY <1>2, <3>2 DEF SumStep
    <3> HIDE DEF c
    <3>6. f[s] \in Int BY <3>3, <3>4, <3>5 DEF P
    <3>7. ASSUME NEW x \in s, x # c PROVE f[s] = v(x) + f[s \ {x}]
      <4> DEFINE r == (s \ {c}) \ {x}
      <4>1. r = (s \ {x}) \ {c} /\ r \in SUBSET S /\ r \subseteq s \ {c} OBVIOUS
      <4>2. x \in s \ {c} /\ c \in s \ {x} BY <3>3, <3>7
      <4>3. Cardinality(r) <= n - 1 BY <1>3, <3>3, <4>1, FS_Subset
      <4>4. f[r] \in Int BY <2>1, <4>1, <4>3 DEF P
      <4>5. f[s \ {c}] = v(x) + f[r] BY <3>3, <3>4, <4>2 DEF P
      <4>6. f[s \ {x}] = v(c) + f[r] BY <3>4, <4>1, <4>2 DEF P
      <4>7. v(x) \in Int /\ v(c) \in Int BY <3>3
      <4> HIDE DEF r, v
      <4> QED BY <3>5, <4>4, <4>5, <4>6, <4>7
    <3> QED BY <3>5, <3>6, <3>7 DEF P
  <2> QED BY <2>2, <2>3
<1>6. 0..L \subseteq T
  <2> HIDE DEF T
  <2> QED BY <1>1, <1>4, <1>5, Upward
<1>7. ASSUME NEW s \in SUBSET S PROVE Cardinality(s) <= L
  <2>1. IsFiniteSet(S) BY SubsetFacts
  <2> QED BY <2>1, FS_Subset
<1> HIDE DEF P
<1>8. \A s \in SUBSET S : P(s) BY <1>1, <1>6, <1>7
<1> QED BY <1>8 DEF P

\* A sum over a set holds the sums over its subsets.
LEMMA SumsAlike ==
  ASSUME Runs, NEW R \in SUBSET Stored, NEW S \in SUBSET R, NEW f, IsSum(f, R), NEW g, IsSum(g, S)
  PROVE  \A s \in SUBSET S : f[s] = g[s]
<1> DEFINE L == Cardinality(S)
           T == {n \in 0..L : \A s \in SUBSET S : Cardinality(s) <= n => f[s] = g[s]}
<1>1. L \in Nat BY SubsetFacts
<1>2. \A s \in SUBSET S : f[s] = SumStep(f, s) /\ g[s] = SumStep(g, s) BY DEF IsSum
<1>3. \A s \in SUBSET S : s \in SUBSET Stored /\ IsFiniteSet(s) /\ Cardinality(s) \in Nat
  BY SubsetFacts
<1>4. 0 \in T
  <2>1. ASSUME NEW s \in SUBSET S, Cardinality(s) <= 0 PROVE f[s] = g[s]
    <3>1. Cardinality(s) = 0 BY <1>3, <2>1
    <3>2. s = {} BY <1>3, <3>1, FS_EmptySet
    <3> QED BY <1>2, <3>2 DEF SumStep
  <2> QED BY <1>1, <2>1
<1>5. ASSUME NEW n \in 1..L, n - 1 \in T PROVE n \in T
  <2> SUFFICES ASSUME NEW s \in SUBSET S, Cardinality(s) <= n PROVE f[s] = g[s]
    OBVIOUS
  <2>1. CASE s = {} BY <1>2, <2>1 DEF SumStep
  <2>2. CASE s # {}
    <3> DEFINE r == s \ {Pick(s)}
    <3>1. r \in SUBSET S /\ Cardinality(r) = Cardinality(s) - 1 BY <1>3, <2>2, SubsetFacts
    <3>2. Cardinality(r) <= n - 1 BY <1>3, <3>1
    <3>3. f[r] = g[r] BY <1>5, <3>1, <3>2
    <3> QED BY <1>2, <2>2, <3>3 DEF SumStep
  <2> QED BY <2>1, <2>2
<1>6. 0..L \subseteq T
  <2> HIDE DEF T
  <2> QED BY <1>1, <1>4, <1>5, Upward
<1>7. ASSUME NEW s \in SUBSET S PROVE Cardinality(s) <= L
  <2>1. IsFiniteSet(S) BY SubsetFacts
  <2> QED BY <2>1, FS_Subset
<1> QED BY <1>1, <1>6, <1>7

LEMMA TotalIsSum ==
  ASSUME Runs, NEW S \in SUBSET Stored
  PROVE  \E f : IsSum(f, S) /\ Total(S) = f[S]
<1> DEFINE f == CHOOSE f : f = [s \in SUBSET S |-> SumStep(f, s)]
<1>1. IsSum(f, S)
  <2>1. \E g : g = [s \in SUBSET S |-> SumStep(g, s)] BY SumExists DEF IsSum
  <2> QED BY <2>1 DEF IsSum
<1>2. Total(S) = f[S] BY DEF Total, MapThenSumSet, MapThenFoldSet, SumStep, Pick
<1> QED BY <1>1, <1>2

\* One more object adds its value.
LEMMA TotalNext ==
  ASSUME Runs, NEW S \in SUBSET Stored, NEW x \in Stored, x \notin S
  PROVE  /\ Total(S) \in Int
         /\ Total(S \cup {x}) = Total(S) + Value(query.prop, x)
<1> DEFINE R == S \cup {x}
<1>1. R \in SUBSET Stored /\ S \in SUBSET R /\ R \ {x} = S /\ x \in R /\ R \in SUBSET R OBVIOUS
<1>2. PICK g : IsSum(g, S) /\ Total(S) = g[S] BY TotalIsSum
<1>3. PICK f : IsSum(f, R) /\ Total(R) = f[R] BY <1>1, TotalIsSum
<1> HIDE DEF R
<1>4. f[S] = g[S] BY <1>1, <1>2, <1>3, SumsAlike
<1>5. f[R] = Value(query.prop, x) + f[S]
  <2>1. R \in SUBSET Stored /\ IsSum(f, R) BY <1>1, <1>3
  <2>2. \A s \in SUBSET R : /\ f[s] \in Int
                             /\ \A y \in s : f[s] = Value(query.prop, y) + f[s \ {y}]
    BY <2>1, SumFirst
  <2>3. R \in SUBSET R /\ x \in R /\ R \ {x} = S BY <1>1
  <2>4. f[R] = Value(query.prop, x) + f[R \ {x}] BY <2>2, <2>3
  <2> QED BY <2>3, <2>4
<1>6. g[S] \in Int BY <1>2, SumFirst
<1>7. Value(query.prop, x) \in Int BY <1>1, SubsetFacts
<1> QED BY <1>2, <1>3, <1>4, <1>5, <1>6, <1>7 DEF R

LEMMA TotalEmpty == Runs => Total({}) = 0
<1> SUFFICES ASSUME Runs PROVE Total({}) = 0 OBVIOUS
<1>1. PICK f : IsSum(f, {}) /\ Total({}) = f[{}] BY TotalIsSum
<1>2. f[{}] = SumStep(f, {}) BY <1>1 DEF IsSum
<1> QED BY <1>1, <1>2 DEF SumStep

-----------------------------------------------------------------------------
(* The invariant of the loop.                                              *)

\* A query that is answered while the cursor goes on, and what it was given.
Lazy == query.op # "find" \/ query.sort = <<>>
Offset == IF query.op = "find" THEN query.offset ELSE 0
Limit == IF query.op = "find" /\ query.limit # 0 THEN query.limit ELSE Cardinality(Id) + 1

\* What the cursor has passed, and the place of an object in the answer.
Passed == Firsts \ ahead
Place(id) == Cardinality({x \in Firsts : x <= id})

Shape ==
  /\ objects \in Database
  /\ phase \in {"idle", "scanning", "collecting", "done"}
  /\ ahead \subseteq Stored
  /\ skip \in Nat /\ take \in Nat
  /\ results \in Seq(Id)
  /\ found \in BOOLEAN /\ sum \in Int /\ count \in Nat
  /\ phase = "idle" => /\ query = None /\ hashes = {} /\ results = <<>>
                       /\ found = FALSE /\ sum = 0 /\ count = 0
  /\ phase # "idle" => query \in Query
  /\ phase = "collecting" => ~Lazy
  /\ phase = "scanning" => Lazy

\* The cursor goes upwards.
InOrder == \A x \in Stored \ ahead, y \in ahead : x < y

Hashed == hashes = IF query.distinct = <<>> THEN {} ELSE {DistinctKey(x) : x \in Passed}

\* Skipped and returned are the first objects of the keys seen so far, and the
\* loop ends when it may.
Counters ==
  /\ Hashed
  /\ skip <= Offset /\ take <= Limit
  /\ Cardinality(Passed) = (Offset - skip) + (Limit - take)
  /\ skip > 0 => take = Limit
  /\ phase = "done" => \/ ahead = {}
                       \/ skip = 0 /\ take = 0
                       \/ query.op = "isEmpty" /\ Passed # {}

Returned ==
  query.op = "find" =>
    /\ ToSet(results) = {id \in Passed : InWindow(Place(id))}
    /\ \A m, n \in DOMAIN results : m < n => results[m] < results[n]

Counted == query.op \in {"count", "isEmpty"} => count = Cardinality(Passed)

\* b is the extreme of the values of S, and f whether it is one.
Best(S, b, f) ==
  /\ b = Start(query) \/ \E id \in S : b = Value(query.prop, id)
  /\ \A id \in S : IF query.op = "min" THEN b <= Value(query.prop, id)
                                        ELSE b >= Value(query.prop, id)
  /\ f <=> b # Start(query)

Extreme == Aggregating => Best(Values \ ahead, best, found)

\* The sum and the number of the values.
Summed ==
  query.op = "sum" => sum = Total(Values \ ahead) /\ count = Cardinality(Values \ ahead)

Answered == Returned /\ Counted /\ Extreme /\ Summed

Loop == phase \in {"scanning", "done"} /\ Lazy => InOrder /\ Counters /\ Answered

LEMMA LimitFacts ==
  ASSUME Shape, query \in Query
  PROVE  Runs /\ Offset \in Nat /\ Limit \in Nat /\ Limit > 0 /\ Cardinality(Passed) \in Nat
         /\ IsFiniteSet(Passed) /\ Cardinality(Passed) <= Cardinality(Id) /\ Cardinality(Id) \in Nat
<1>1. objects \in Database BY DEF Shape
<1>2. query.offset \in Nat /\ query.limit \in Nat BY QueryFields
<1>3. Cardinality(Id) \in Nat BY <1>1, StoredFacts
<1>4. Offset \in Nat /\ Limit \in Nat /\ Limit > 0 BY <1>2, <1>3 DEF Offset, Limit
<1>5. Passed \subseteq Firsts BY DEF Passed
<1>6. IsFiniteSet(Passed) /\ Cardinality(Passed) <= Cardinality(Firsts)
  BY <1>1, <1>5, FirstsFacts, FS_Subset
<1>7. Cardinality(Passed) \in Nat BY <1>6, FS_CardinalityType
<1> QED BY <1>1, <1>3, <1>4, <1>6, <1>7, FirstsFacts DEF Runs

\* The object the cursor is at.
LEMMA Cursor ==
  ASSUME Shape, InOrder, ahead # {}, NEW id, id = Min(ahead)
  PROVE  /\ id \in ahead /\ id \in Stored /\ id \in Id /\ id \in Int
         /\ \A x \in Stored : x < id <=> x \notin ahead
         /\ \A x \in Stored \ (ahead \ {id}), y \in ahead \ {id} : x < y
<1>1. objects \in Database /\ ahead \subseteq Stored BY DEF Shape
<1>2. Stored \subseteq Int /\ Stored \subseteq Id /\ IsFiniteSet(Stored) BY <1>1, StoredFacts
<1>3. ahead \subseteq Int /\ IsFiniteSet(ahead) BY <1>1, <1>2, FS_Subset
<1>4. id \in ahead /\ \A y \in ahead : id <= y BY <1>3, LeastOf
<1>5. ASSUME NEW x \in Stored PROVE x < id <=> x \notin ahead
  <2>1. x \in Int /\ id \in Int BY <1>2, <1>3, <1>4
  <2>2. x \notin ahead => x < id BY <1>4 DEF InOrder
  <2>3. x \in ahead => id <= x BY <1>4
  <2> QED BY <2>1, <2>2, <2>3
<1>6. ASSUME NEW x \in Stored \ (ahead \ {id}), NEW y \in ahead \ {id} PROVE x < y
  <2>1. x \in Int /\ y \in Int /\ id \in Int BY <1>1, <1>2, <1>4
  <2>2. id <= y /\ id # y BY <1>4
  <2>3. x = id \/ x < id BY <1>5
  <2> QED BY <2>1, <2>2, <2>3
<1> QED BY <1>1, <1>2, <1>3, <1>4, <1>5, <1>6

\* The hashes tell whether it is the first of its key, and then it is the next
\* of the answer.
LEMMA NextObject ==
  ASSUME Shape, query \in Query, InOrder, Counters, ahead # {},
         NEW id, id = Min(ahead)
  PROVE  /\ id \in ahead /\ id \in Stored /\ id \in Id
         /\ \A x \in Stored \ (ahead \ {id}), y \in ahead \ {id} : x < y
         /\ Rejected(id) <=> id \notin Firsts
         /\ id \notin Firsts => Firsts \ (ahead \ {id}) = Passed
         /\ id \in Firsts =>
              /\ Firsts \ (ahead \ {id}) = Passed \cup {id} /\ id \notin Passed
              /\ Cardinality(Passed \cup {id}) = Cardinality(Passed) + 1
              /\ Place(id) = Cardinality(Passed) + 1
<1>1. Runs /\ objects \in Database /\ ahead \subseteq Stored BY LimitFacts DEF Shape
<1>2. Stored \subseteq Int /\ Stored \subseteq Id BY <1>1, StoredFacts
<1>3. /\ id \in ahead /\ id \in Stored /\ id \in Id /\ id \in Int
      /\ \A x \in Stored \ (ahead \ {id}), y \in ahead \ {id} : x < y
  BY Cursor
<1>4. \A x \in Stored : x < id <=> x \notin ahead BY Cursor
<1>5. Firsts \subseteq Matching /\ Matching \subseteq Stored BY <1>1, FirstsFacts
<1>6. id \in Matching <=> Accepted(id) BY <1>3 DEF Matching
<1>7. ASSUME Rejected(id) PROVE id \notin Firsts
  <2>1. SUFFICES ASSUME Accepted(id), query.distinct # <<>>, DistinctKey(id) \in hashes
                 PROVE  id \notin Firsts
    BY <1>5, <1>6, <1>7 DEF Rejected
  <2>2. PICK x \in Passed : DistinctKey(id) = DistinctKey(x) BY <2>1 DEF Counters, Hashed
  <2>3. x \in Matching /\ x \in Stored /\ x \notin ahead BY <1>5 DEF Passed
  <2>4. x < id BY <1>4, <2>3
  <2> QED BY <2>1, <2>2, <2>3, <2>4 DEF Firsts, Duplicate
<1>8. ASSUME id \notin Firsts PROVE Rejected(id)
  <2>1. SUFFICES ASSUME id \in Matching PROVE Rejected(id)
    BY <1>6 DEF Rejected
  <2>2. PICK x \in Firsts : x <= id /\ (x = id \/ Duplicate(x, id)) BY <1>1, <2>1, FirstOf
  <2>3. x # id /\ Duplicate(x, id) /\ x \in Stored BY <1>5, <1>8, <2>2
  <2>4. x \in Int /\ id \in Int BY <1>2, <1>3, <2>3
  <2>5. x \in Passed BY <1>4, <2>2, <2>3, <2>4 DEF Passed
  <2> QED BY <2>3, <2>5 DEF Counters, Hashed, Rejected, Duplicate
<1>9. id \notin Firsts => Firsts \ (ahead \ {id}) = Passed BY DEF Passed
<1>10. ASSUME id \in Firsts
       PROVE  /\ Firsts \ (ahead \ {id}) = Passed \cup {id} /\ id \notin Passed
              /\ Cardinality(Passed \cup {id}) = Cardinality(Passed) + 1
              /\ Place(id) = Cardinality(Passed) + 1
  <2>1. Firsts \ (ahead \ {id}) = Passed \cup {id} /\ id \notin Passed BY <1>3, <1>10 DEF Passed
  <2>2. Cardinality(Passed \cup {id}) = Cardinality(Passed) + 1
    BY <2>1, LimitFacts, FS_AddElement
  <2>3. {x \in Firsts : x <= id} = Passed \cup {id}
    <3>1. ASSUME NEW x \in Firsts PROVE x <= id <=> x \in Passed \cup {id}
      <4>1. x \in Stored /\ x \in Int /\ id \in Int BY <1>2, <1>3, <1>5
      <4>2. x \in Passed <=> x < id BY <1>4, <4>1 DEF Passed
      <4> QED BY <4>1, <4>2
    <3> QED BY <1>10, <3>1 DEF Passed
  <2> QED BY <2>1, <2>2, <2>3 DEF Place
<1> QED BY <1>3, <1>7, <1>8, <1>9, <1>10

-----------------------------------------------------------------------------
(* The steps of the loop.                                                  *)

LEMMA SameQuery ==
  ASSUME UNCHANGED <<objects, query>>
  PROVE  /\ Stored' = Stored /\ Matching' = Matching /\ Firsts' = Firsts /\ Values' = Values
         /\ Lazy' = Lazy /\ Offset' = Offset /\ Limit' = Limit /\ Start(query)' = Start(query)
         /\ Aggregating' = Aggregating
         /\ \A x : DistinctKey(x)' = DistinctKey(x) /\ Place(x)' = Place(x)
         /\ \A p, x : Value(p, x)' = Value(p, x)
         /\ \A n : InWindow(n)' = InWindow(n)
         /\ \A S : Total(S)' = Total(S)
<1>1. Stored' = Stored BY DEF Stored
<1>2. \A x : Accepted(x)' = Accepted(x) BY DEF Accepted
<1>3. Matching' = Matching BY <1>1, <1>2 DEF Matching
<1>4. \A p, x : Value(p, x)' = Value(p, x) BY DEF Value
<1>5. \A x : DistinctKey(x)' = DistinctKey(x) BY DEF DistinctKey, Value
<1>6. \A x, y : Duplicate(x, y)' = Duplicate(x, y) BY <1>5 DEF Duplicate
<1>7. Firsts' = Firsts BY <1>3, <1>6 DEF Firsts
<1>8. Values' = Values BY <1>4, <1>7 DEF Values
<1>9. \A x : Place(x)' = Place(x) BY <1>7 DEF Place
<1>10. \A n : InWindow(n)' = InWindow(n) BY DEF InWindow
<1>11. /\ Lazy' = Lazy /\ Offset' = Offset /\ Limit' = Limit /\ Start(query)' = Start(query)
       /\ Aggregating' = Aggregating
  BY DEF Lazy, Offset, Limit, Start, Aggregating
<1>12. \A S : Total(S)' = Total(S) BY DEF Total, MapThenSumSet, MapThenFoldSet, Value
<1> QED BY <1>1, <1>3, <1>4, <1>5, <1>7, <1>8, <1>9, <1>10, <1>11, <1>12

\* A first object that the cursor passes is in the window if and only if it is
\* returned.
LEMMA WindowFacts ==
  ASSUME Shape, query \in Query, Counters, query.op = "find", NEW n, n = Cardinality(Passed) + 1
  PROVE  /\ skip > 0 => ~InWindow(n)
         /\ skip = 0 /\ take > 0 => InWindow(n)
<1>1. /\ query.offset \in Nat /\ query.limit \in Nat /\ skip \in Nat /\ take \in Nat
      /\ Limit \in Nat /\ Offset = query.offset /\ Cardinality(Passed) \in Nat
      /\ Cardinality(Passed) <= Cardinality(Id) /\ Cardinality(Id) \in Nat
  BY QueryFields, LimitFacts DEF Shape, Offset
<1>2. Cardinality(Passed) = (Offset - skip) + (Limit - take) /\ (skip > 0 => take = Limit)
      /\ skip <= Offset /\ take <= Limit
  BY DEF Counters
<1>3. query.limit # 0 => Limit = query.limit BY DEF Limit
<1> QED BY <1>1, <1>2, <1>3 DEF InWindow

LEMMA SeenHashed ==
  ASSUME UNCHANGED <<objects, query>>, Hashed, NEW id, Seen(id), Passed' = Passed \cup {id}
  PROVE  Hashed'
<1>1. \A x : DistinctKey(x)' = DistinctKey(x) BY SameQuery
<1>2. CASE query.distinct = <<>> BY <1>2 DEF Seen, Hashed
<1>3. CASE query.distinct # <<>>
  <2>1. hashes' = {DistinctKey(x) : x \in Passed'} BY <1>3 DEF Seen, Hashed
  <2> QED BY <1>1, <1>3, <2>1 DEF Hashed
<1> QED BY <1>2, <1>3

\* An object that the filter rejects, or whose key was seen, changes nothing.
LEMMA RejectKeeps ==
  ASSUME Shape, Loop, phase = "scanning", ahead # {}, ScanReject(Min(ahead))
  PROVE  Shape' /\ Loop'
<1> DEFINE id == Min(ahead)
<1>1. query \in Query /\ InOrder /\ Counters /\ Answered /\ Lazy BY DEF Shape, Loop
<1>2. /\ Rejected(id) /\ ahead' = ahead \ {id}
      /\ UNCHANGED <<objects, query, phase, hashes, skip, take, results, best, found, sum, count>>
  BY DEF ScanReject, Consume
<1> HIDE DEF id
<1>3. id \notin Firsts /\ Passed' = Passed /\ InOrder'
  <2>1. id \notin Firsts /\ Firsts \ (ahead \ {id}) = Passed BY <1>1, <1>2, NextObject DEF id
  <2>2. \A x \in Stored \ (ahead \ {id}), y \in ahead \ {id} : x < y BY <1>1, NextObject DEF id
  <2> QED BY <1>2, <2>1, <2>2, SameQuery DEF Passed, InOrder
<1>4. Shape' BY <1>2, SameQuery DEF Shape
<1>5. Counters' BY <1>1, <1>2, <1>3, SameQuery DEF Counters, Hashed, Shape
<1>6. Returned' BY <1>1, <1>2, <1>3, SameQuery DEF Answered, Returned
<1>7. Counted' BY <1>1, <1>2, <1>3 DEF Answered, Counted
<1>8. Extreme' /\ Summed'
  <2>1. Values' \ ahead' = Values \ ahead BY <1>2, <1>3, SameQuery DEF Values
  <2>2. Extreme' BY <1>1, <1>2, <2>1, SameQuery DEF Answered, Extreme, Best
  <2>3. Summed' BY <1>1, <1>2, <2>1, SameQuery DEF Answered, Summed
  <2> QED BY <2>2, <2>3
<1> QED BY <1>3, <1>4, <1>5, <1>6, <1>7, <1>8 DEF Loop, Answered

\* A first object that the offset skips counts as seen.
LEMMA SkipKeeps ==
  ASSUME Shape, Loop, phase = "scanning", ahead # {}, ScanSkip(Min(ahead))
  PROVE  Shape' /\ Loop'
<1> DEFINE id == Min(ahead)
<1>1. query \in Query /\ InOrder /\ Counters /\ Answered /\ Lazy BY DEF Shape, Loop
<1>2. /\ ~Rejected(id) /\ ahead' = ahead \ {id} /\ skip > 0 /\ skip' = skip - 1
      /\ hashes' = IF query.distinct = <<>> THEN {} ELSE hashes \cup {DistinctKey(id)}
      /\ UNCHANGED <<objects, query, phase, take, results, best, found, sum, count>>
  BY DEF ScanSkip, Consume, Seen
<1> HIDE DEF id
<1>3. /\ id \in Firsts /\ Passed' = Passed \cup {id} /\ InOrder'
      /\ Cardinality(Passed') = Cardinality(Passed) + 1 /\ Place(id) = Cardinality(Passed) + 1
  <2>1. id \in Firsts /\ Firsts \ (ahead \ {id}) = Passed \cup {id}
        /\ Cardinality(Passed \cup {id}) = Cardinality(Passed) + 1
        /\ Place(id) = Cardinality(Passed) + 1
    BY <1>1, <1>2, NextObject DEF id
  <2>2. \A x \in Stored \ (ahead \ {id}), y \in ahead \ {id} : x < y BY <1>1, NextObject DEF id
  <2> QED BY <1>2, <2>1, <2>2, SameQuery DEF Passed, InOrder
<1>4. skip \in Nat /\ take \in Nat /\ Offset \in Nat /\ Limit \in Nat /\ skip <= Offset
  BY <1>1, LimitFacts DEF Shape, Counters
<1>5. query.op = "find"
  BY <1>2, <1>4 DEF Offset
<1>6. Shape' BY <1>2, <1>4, SameQuery DEF Shape
<1>7. Counters'
  <2>1. Hashed' BY <1>1, <1>2, <1>3, SeenHashed DEF Seen, Counters
  <2>2. Cardinality(Passed) = (Offset - skip) + (Limit - take) /\ take = Limit
    BY <1>1, <1>2 DEF Counters
  <2>3. Cardinality(Passed') = (Offset - skip') + (Limit - take) BY <1>2, <1>3, <1>4, <2>2
  <2>4. Offset' = Offset /\ Limit' = Limit BY <1>2, SameQuery
  <2>5. (skip <= Offset /\ take <= Limit /\ (skip > 0 => take = Limit))'
    BY <1>2, <1>4, <2>2, <2>4
  <2>6. (Cardinality(Passed) = (Offset - skip) + (Limit - take))' BY <1>2, <2>3, <2>4
  <2>7. phase' # "done" BY <1>2
  <2> QED BY <2>1, <2>5, <2>6, <2>7 DEF Counters
<1>8. Returned'
  <2>1. ~InWindow(Place(id)) BY <1>1, <1>2, <1>3, <1>5, WindowFacts
  <2> QED BY <1>1, <1>2, <1>3, <2>1, SameQuery DEF Answered, Returned
<1>9. Counted' /\ Extreme' /\ Summed' BY <1>2, <1>5 DEF Counted, Extreme, Summed, Aggregating
<1> QED BY <1>3, <1>6, <1>7, <1>8, <1>9 DEF Loop, Answered

LEMMA AppendFacts ==
  ASSUME NEW S, NEW s \in Seq(S), NEW e \in S
  PROVE  /\ Append(s, e) \in Seq(S) /\ ToSet(Append(s, e)) = ToSet(s) \cup {e}
         /\ DOMAIN Append(s, e) = 1..(Len(s) + 1) /\ Append(s, e)[Len(s) + 1] = e
         /\ DOMAIN s = 1..Len(s) /\ Len(s) \in Nat
         /\ \A n \in 1..Len(s) : Append(s, e)[n] = s[n]
<1>1. /\ Append(s, e) \in Seq(S) /\ Len(Append(s, e)) = Len(s) + 1
      /\ Append(s, e)[Len(s) + 1] = e /\ Len(s) \in Nat /\ DOMAIN s = 1..Len(s)
      /\ \A n \in 1..Len(s) : Append(s, e)[n] = s[n]
      /\ DOMAIN Append(s, e) = 1..(Len(s) + 1)
  BY AppendProperties, LenProperties
<1>2. ToSet(Append(s, e)) = ToSet(s) \cup {e} BY <1>1 DEF ToSet
<1> QED BY <1>1, <1>2

\* The better of the extreme so far and one more value.
LEMMA BestNext ==
  ASSUME Runs, Aggregating, NEW S \in SUBSET Values, NEW id \in Values, Best(S, best, found)
  PROVE  Best(S \cup {id}, IF Better(Value(query.prop, id)) THEN Value(query.prop, id) ELSE best,
              found \/ Better(Value(query.prop, id)))
<1> DEFINE v(x) == Value(query.prop, x)
<1>1. query.prop \in Prop /\ query.op \in {"min", "max"} BY QueryFields DEF Runs, Aggregating
<1>2. Values \subseteq Stored BY FirstsFacts DEF Values, Runs
<1>3. \A x \in Values : v(x) \in Int /\ v(x) # NullRank[query.prop]
  BY <1>1, <1>2, ValueType DEF Values
<1>4. \A x \in Values : Least[query.prop] <= v(x) /\ v(x) <= Greatest[query.prop]
  BY <1>1, <1>2, <1>3, ValueBounds
<1>5. /\ Start(query) = IF query.op = "min" THEN Greatest[query.prop] ELSE Least[query.prop]
      /\ Start(query) \in Int
  BY <1>1, QueryAssumption DEF Start
<1>6. \A x \in S : x \in Values OBVIOUS
<1>7. best \in Int BY <1>3, <1>5, <1>6 DEF Best
<1> HIDE DEF v
<1>8. Better(v(id)) <=> IF query.op = "min" THEN v(id) < best ELSE v(id) > best
  BY <1>3 DEF Better
<1>9. /\ best = Start(query) \/ \E x \in S : best = v(x)
      /\ \A x \in S : IF query.op = "min" THEN best <= v(x) ELSE best >= v(x)
      /\ found <=> best # Start(query)
  BY DEF Best, v
<1>10. CASE query.op = "min" /\ v(id) < best
  <2>1. v(id) \in Int /\ v(id) # Start(query)
    BY <1>3, <1>4, <1>5, <1>6, <1>7, <1>9, <1>10
  <2>2. \A x \in S \cup {id} : v(id) <= v(x) BY <1>3, <1>6, <1>7, <1>9, <1>10
  <2>3. Best(S \cup {id}, v(id), TRUE) BY <1>10, <2>1, <2>2 DEF Best, v
  <2> QED BY <1>8, <1>10, <2>3 DEF v
<1>11. CASE query.op = "max" /\ v(id) > best
  <2>1. v(id) \in Int /\ v(id) # Start(query)
    BY <1>3, <1>4, <1>5, <1>6, <1>7, <1>9, <1>11
  <2>2. \A x \in S \cup {id} : v(id) >= v(x) BY <1>3, <1>6, <1>7, <1>9, <1>11
  <2>3. Best(S \cup {id}, v(id), TRUE) BY <1>11, <2>1, <2>2 DEF Best, v
  <2> QED BY <1>8, <1>11, <2>3 DEF v
<1>12. CASE ~Better(v(id))
  <2>1. \A x \in S \cup {id} : IF query.op = "min" THEN best <= v(x) ELSE best >= v(x)
    BY <1>3, <1>7, <1>8, <1>9, <1>12
  <2>2. Best(S \cup {id}, best, found \/ FALSE) BY <1>9, <2>1 DEF Best, v
  <2> QED BY <1>12, <2>2 DEF v
<1> QED BY <1>1, <1>8, <1>10, <1>11, <1>12

\* A first object behind the offset is returned as long as the limit lasts.
LEMMA ReturnKeeps ==
  ASSUME Shape, Loop, phase = "scanning", ahead # {}, ScanReturn(Min(ahead))
  PROVE  Shape' /\ Loop'
<1> DEFINE id == Min(ahead)
           v == Value(query.prop, id)
<1>1. query \in Query /\ InOrder /\ Counters /\ Answered /\ Lazy BY DEF Shape, Loop
<1>2. /\ ~Rejected(id) /\ ahead' = ahead \ {id} /\ skip = 0 /\ take > 0 /\ take' = take - 1
      /\ Seen(id) /\ Receive(id)
      /\ phase' = IF query.op = "isEmpty" THEN "done" ELSE "scanning"
      /\ UNCHANGED <<objects, query, skip>>
  BY DEF ScanReturn, Consume
<1> HIDE DEF id
<1>3. /\ id \in Firsts /\ id \in ahead /\ id \in Id /\ id \notin Passed /\ Passed' = Passed \cup {id}
      /\ InOrder' /\ Cardinality(Passed') = Cardinality(Passed) + 1
      /\ Place(id) = Cardinality(Passed) + 1
  <2>1. /\ id \in Firsts /\ Firsts \ (ahead \ {id}) = Passed \cup {id} /\ id \notin Passed
        /\ Cardinality(Passed \cup {id}) = Cardinality(Passed) + 1
        /\ Place(id) = Cardinality(Passed) + 1 /\ id \in ahead /\ id \in Id
    BY <1>1, <1>2, NextObject DEF id
  <2>2. \A x \in Stored \ (ahead \ {id}), y \in ahead \ {id} : x < y BY <1>1, NextObject DEF id
  <2> QED BY <1>2, <2>1, <2>2, SameQuery DEF Passed, InOrder
<1>4. /\ skip \in Nat /\ take \in Nat /\ Offset \in Nat /\ Limit \in Nat /\ take <= Limit
      /\ Runs /\ Cardinality(Passed) \in Nat /\ count \in Nat
  BY <1>1, LimitFacts DEF Shape, Counters
<1>5. id \in Stored /\ v \in Int
  BY <1>1, <1>3, <1>4, QueryFields, FirstsFacts, ValueType DEF Runs
<1>6. Shape'
  <2>1. /\ results' = results \/ results' = Append(results, id)
        /\ found' = found \/ found' = TRUE \/ found' = FALSE
        /\ sum' = sum \/ sum' = sum + v
        /\ count' = count \/ count' = count + 1
    BY <1>2 DEF Receive, Added
  <2>2. results' \in Seq(Id) BY <1>3, <2>1, AppendFacts DEF Shape
  <2>3. found' \in BOOLEAN /\ sum' \in Int /\ count' \in Nat
    <3> HIDE DEF v
    <3>1. found \in BOOLEAN /\ sum \in Int /\ count \in Nat BY DEF Shape
    <3>2. found' \in BOOLEAN BY <2>1, <3>1
    <3> QED BY <1>5, <2>1, <3>1, <3>2
  <2>4. take' \in Nat BY <1>2, <1>4
  <2>5. phase' \in {"scanning", "done"} BY <1>2
  <2> QED BY <1>1, <1>2, <2>2, <2>3, <2>4, <2>5, SameQuery DEF Shape
<1>7. Counters'
  <2>1. Hashed' BY <1>1, <1>2, <1>3, SeenHashed DEF Counters
  <2>2. Offset' = Offset /\ Limit' = Limit BY <1>2, SameQuery
  <2>3. Cardinality(Passed) = (Offset - skip) + (Limit - take) /\ skip <= Offset
    BY <1>1 DEF Counters
  <2>4. (skip <= Offset /\ take <= Limit /\ (skip > 0 => take = Limit))'
    BY <1>2, <1>4, <2>2, <2>3
  <2>5. (Cardinality(Passed) = (Offset - skip) + (Limit - take))'
    BY <1>2, <1>3, <1>4, <2>2, <2>3
  <2>6. phase' = "done" => query'.op = "isEmpty" /\ Passed' # {} BY <1>2, <1>3
  <2> QED BY <2>1, <2>4, <2>5, <2>6 DEF Counters
<1>8. Returned'
  <2>1. SUFFICES ASSUME query.op = "find" PROVE Returned' BY <1>2 DEF Returned
  <2>2. results' = Append(results, id) BY <1>2, <2>1 DEF Receive, Aggregating
  <2>3. /\ ToSet(results) = {x \in Passed : InWindow(Place(x))}
        /\ \A m, n \in DOMAIN results : m < n => results[m] < results[n]
        /\ results \in Seq(Id)
    BY <1>1, <2>1 DEF Answered, Returned, Shape
  <2>4. InWindow(Place(id)) BY <1>1, <1>2, <1>3, <2>1, WindowFacts
  <2>5. ToSet(results') = {x \in Passed' : InWindow(Place(x))}
    <3>1. ToSet(results') = ToSet(results) \cup {id} BY <1>3, <2>2, <2>3, AppendFacts
    <3> QED BY <1>3, <2>3, <2>4, <3>1
  <2>6. ASSUME NEW m \in DOMAIN results', NEW n \in DOMAIN results', m < n
        PROVE  results'[m] < results'[n]
    <3>1. /\ DOMAIN results' = 1..(Len(results) + 1) /\ results'[Len(results) + 1] = id
          /\ DOMAIN results = 1..Len(results) /\ Len(results) \in Nat
          /\ \A k \in 1..Len(results) : results'[k] = results[k]
      BY <1>3, <2>2, <2>3, AppendFacts
    <3>2. m \in DOMAIN results /\ results'[m] = results[m] BY <2>6, <3>1
    <3>3. CASE n \in DOMAIN results
      <4>1. results'[n] = results[n] BY <3>1, <3>3
      <4> QED BY <2>3, <2>6, <3>2, <3>3, <4>1
    <3>4. CASE n = Len(results) + 1
      <4>1. results[m] \in ToSet(results) BY <3>2 DEF ToSet
      <4>2. results[m] \in Passed BY <2>3, <4>1
      <4>3. results[m] \in Stored \ ahead BY <1>4, <4>2, FirstsFacts DEF Passed, Runs
      <4>4. results[m] < id BY <1>1, <1>3, <4>3 DEF InOrder
      <4> QED BY <3>1, <3>2, <3>4, <4>4
    <3> QED BY <3>1, <3>3, <3>4
  <2>7. \A x : InWindow(Place(x))' = InWindow(Place(x))
    BY <1>2, SameQuery DEF InWindow
  <2> QED BY <2>5, <2>6, <2>7 DEF Returned
<1>9. Counted' BY <1>1, <1>2, <1>3, <1>4 DEF Answered, Counted, Receive, Aggregating
<1>10. Extreme'
  <2>1. SUFFICES ASSUME Aggregating PROVE Extreme'
    BY <1>2, SameQuery DEF Extreme
  <2>2. /\ best' = IF Better(v) THEN v ELSE best
        /\ found' = (found \/ Better(v))
    BY <1>2, <2>1 DEF Receive, Aggregating
  <2>3. Best(Values \ ahead, best, found) BY <1>1, <2>1 DEF Answered, Extreme
  <2>4. Best(Values \ ahead', best', found')
    <3>1. CASE v = NullRank[query.prop]
      <4>1. Values \ ahead' = Values \ ahead BY <1>2, <3>1 DEF Values
      <4>2. ~Better(v) BY <3>1 DEF Better
      <4> QED BY <2>2, <2>3, <4>1, <4>2 DEF Shape
    <3>2. CASE v # NullRank[query.prop]
      <4>1. id \in Values BY <1>3, <3>2 DEF Values
      <4>2. Values \ ahead' = (Values \ ahead) \cup {id} BY <1>2, <1>3, <4>1
      <4>3. Values \ ahead \in SUBSET Values OBVIOUS
      <4> HIDE DEF v
      <4>4. Best((Values \ ahead) \cup {id}, IF Better(v) THEN v ELSE best, found \/ Better(v))
        BY <1>4, <2>1, <2>3, <4>1, <4>3, BestNext DEF v
      <4> QED BY <2>2, <4>2, <4>4
    <3> QED BY <3>1, <3>2
  <2> QED BY <1>2, <2>4, SameQuery DEF Extreme, Best
<1>11. Summed'
  <2>1. SUFFICES ASSUME query.op = "sum" PROVE Summed' BY <1>2 DEF Summed
  <2>2. sum = Total(Values \ ahead) /\ count = Cardinality(Values \ ahead)
    BY <1>1, <2>1 DEF Answered, Summed
  <2>3. sum' = Total(Values \ ahead') /\ count' = Cardinality(Values \ ahead')
    <3>1. CASE v = NullRank[query.prop]
      <4>1. Values \ ahead' = Values \ ahead BY <1>2, <3>1 DEF Values
      <4>2. UNCHANGED <<sum, count>> BY <1>2, <2>1, <3>1 DEF Receive, Aggregating, Added
      <4> QED BY <2>2, <4>1, <4>2
    <3>2. CASE v # NullRank[query.prop]
      <4> DEFINE S == Values \ ahead
      <4>1. Values \ ahead' = S \cup {id} /\ id \notin S
        BY <1>2, <1>3, <3>2 DEF Values
      <4>2. S \in SUBSET Stored /\ IsFiniteSet(S)
        BY <1>4, FirstsFacts, FS_Subset DEF Values, Runs
      <4>3. sum' = sum + v /\ count' = count + 1
        BY <1>2, <2>1, <3>2 DEF Receive, Aggregating, Added
      <4> HIDE DEF S
      <4>4. Total(S \cup {id}) = Total(S) + v BY <1>4, <1>5, <4>1, <4>2, TotalNext
      <4>5. Cardinality(S \cup {id}) = Cardinality(S) + 1 BY <4>1, <4>2, FS_AddElement
      <4> QED BY <2>2, <4>1, <4>3, <4>4, <4>5 DEF S
    <3> QED BY <3>1, <3>2
  <2> QED BY <1>2, <2>3, SameQuery DEF Summed
<1> QED BY <1>3, <1>6, <1>7, <1>8, <1>9, <1>10, <1>11 DEF Loop, Answered

-----------------------------------------------------------------------------
(* Dropping duplicates.                                                    *)

Later(s, n) == \E m \in 1..(n - 1) : Duplicate(s[m], s[n])

\* What is kept of the first k objects, u, in the order they have.
KeptOf(u, s, k) ==
  /\ \A n \in 1..k : ~Later(s, n) => \E i \in DOMAIN u : u[i] = s[n]
  /\ \A i \in DOMAIN u : \E n \in 1..k : u[i] = s[n] /\ ~Later(s, n)
  /\ \A i, j \in DOMAIN u : i < j => \E m, n \in 1..k : m < n /\ u[i] = s[m] /\ u[j] = s[n]

LEMMA KeptAppend ==
  ASSUME NEW S, NEW s \in Seq(S), NEW k \in 1..Len(s), NEW u \in Seq(S), KeptOf(u, s, k - 1),
         ~Later(s, k)
  PROVE  Append(u, s[k]) \in Seq(S) /\ KeptOf(Append(u, s[k]), s, k)
<1> DEFINE t == Append(u, s[k])
<1>1. s[k] \in S /\ k - 1 \in Nat /\ k \in Nat BY LenProperties, ElementOfSeq
<1>2. /\ t \in Seq(S) /\ DOMAIN t = 1..(Len(u) + 1) /\ t[Len(u) + 1] = s[k]
      /\ DOMAIN u = 1..Len(u) /\ Len(u) \in Nat
      /\ \A i \in 1..Len(u) : t[i] = u[i]
  BY <1>1, AppendFacts
<1> HIDE DEF t
<1>3. \A n \in 1..k : n = k \/ n \in 1..(k - 1) BY <1>1
<1>4. 1..(k - 1) \subseteq 1..k /\ k \in 1..k BY <1>1
<1>5. \A i \in DOMAIN t : i = Len(u) + 1 \/ i \in DOMAIN u BY <1>2
<1>6. DOMAIN u \subseteq DOMAIN t /\ Len(u) + 1 \in DOMAIN t BY <1>2
<1>7. ASSUME NEW n \in 1..k, ~Later(s, n) PROVE \E i \in DOMAIN t : t[i] = s[n]
  <2>1. CASE n = k BY <1>2, <1>6, <2>1
  <2>2. CASE n \in 1..(k - 1)
    <3>1. PICK i \in DOMAIN u : u[i] = s[n] BY <1>7, <2>2 DEF KeptOf
    <3> QED BY <1>2, <1>6, <3>1
  <2> QED BY <1>3, <2>1, <2>2
<1>8. ASSUME NEW i \in DOMAIN t PROVE \E n \in 1..k : t[i] = s[n] /\ ~Later(s, n)
  <2>1. CASE i = Len(u) + 1 BY <1>2, <1>4, <2>1
  <2>2. CASE i \in DOMAIN u
    <3>1. PICK n \in 1..(k - 1) : u[i] = s[n] /\ ~Later(s, n) BY <2>2 DEF KeptOf
    <3> QED BY <1>2, <1>4, <2>2, <3>1
  <2> QED BY <1>5, <2>1, <2>2
<1>9. ASSUME NEW i \in DOMAIN t, NEW j \in DOMAIN t, i < j
      PROVE  \E m, n \in 1..k : m < n /\ t[i] = s[m] /\ t[j] = s[n]
  <2>1. i \in DOMAIN u BY <1>2, <1>9
  <2>2. CASE j = Len(u) + 1
    <3>1. PICK m \in 1..(k - 1) : u[i] = s[m] BY <2>1 DEF KeptOf
    <3>2. m < k /\ m \in 1..k BY <1>1, <3>1
    <3> QED BY <1>2, <1>4, <2>1, <2>2, <3>1, <3>2
  <2>3. CASE j \in DOMAIN u
    <3>1. PICK m \in 1..(k - 1), n \in 1..(k - 1) : m < n /\ u[i] = s[m] /\ u[j] = s[n]
      BY <1>9, <2>1, <2>3 DEF KeptOf
    <3> QED BY <1>2, <1>4, <2>1, <2>3, <3>1
  <2> QED BY <1>5, <2>2, <2>3
<1>10. t \in Seq(S) /\ KeptOf(t, s, k) BY <1>2, <1>7, <1>8, <1>9 DEF KeptOf
<1> QED BY <1>10 DEF t

\* Distinct keeps exactly the first object of each key.
LEMMA DistinctKeeps ==
  ASSUME NEW S, NEW s \in Seq(S)
  PROVE  Distinct(s) \in Seq(S) /\ KeptOf(Distinct(s), s, Len(s))
<1> DEFINE L == Len(s)
           later(n) == \E m \in 1..(n - 1) : DistinctKey(s[m]) = DistinctKey(s[n])
           Def(f) == [n \in 0..L |-> IF n = 0 THEN <<>>
                                     ELSE IF later(n) THEN f[n - 1]
                                     ELSE Append(f[n - 1], s[n])]
           upTo == CHOOSE f : f = Def(f)
<1>1. L \in Nat /\ DOMAIN s = 1..L /\ \A n \in 1..L : s[n] \in S
  BY LenProperties, ElementOfSeq
<1>2. CASE query.distinct = <<>>
  <2>1. Distinct(s) = s BY <1>2 DEF Distinct
  <2>2. \A n : ~Later(s, n) BY <1>2 DEF Later, Duplicate
  <2>3. KeptOf(s, s, L)
    <3> HIDE DEF L
    <3> QED BY <1>1, <2>2 DEF KeptOf
  <2> QED BY <2>1, <2>3
<1>3. CASE query.distinct # <<>>
  <2>1. Distinct(s) = upTo[L] BY <1>3 DEF Distinct
  <2>2. \A n : later(n) <=> Later(s, n) BY <1>3 DEF Later, Duplicate
  <2> HIDE DEF L, later
  <2>3. \E f : f = Def(f)
    <3> DEFINE G == [x \in Seq(S) \X (1..L) |->
                       IF later(x[2]) THEN x[1] ELSE Append(x[1], s[x[2]])]
    <3>1. G \in [Seq(S) \X (1..L) -> Seq(S)]
      <4>1. ASSUME NEW x \in Seq(S) \X (1..L) PROVE Append(x[1], s[x[2]]) \in Seq(S)
        BY <1>1, AppendProperties
      <4> QED BY <4>1
    <3>2. <<>> \in Seq(S) OBVIOUS
    <3>3. PICK f \in [0..L -> Seq(S)] : Steps(f, <<>>, G, L)
      <4> HIDE DEF G
      <4> QED BY <1>1, <3>1, <3>2, Recursion
    <3>4. ASSUME NEW n \in 1..L
          PROVE  f[n] = IF later(n) THEN f[n - 1] ELSE Append(f[n - 1], s[n])
      <4>1. n - 1 \in 0..L BY <1>1
      <4>2. <<f[n - 1], n>> \in Seq(S) \X (1..L) BY <4>1
      <4>3. f[n] = G[<<f[n - 1], n>>] BY <3>3 DEF Steps
      <4> QED BY <4>2, <4>3
    <3>5. f[0] = <<>> BY <3>3 DEF Steps
    <3>6. ASSUME NEW n \in 0..L PROVE f[n] = Def(f)[n]
      <4>1. n = 0 \/ n \in 1..L BY <1>1
      <4> QED BY <3>4, <3>5, <4>1
    <3>7. f = Def(f) BY <3>6
    <3> QED BY <3>7
  <2>4. upTo = Def(upTo) BY <2>3
  <2> HIDE DEF upTo
  <2>5. upTo[0] = <<>> BY <1>1, <2>4
  <2>6. ASSUME NEW k \in 1..L
        PROVE  upTo[k] = IF later(k) THEN upTo[k - 1] ELSE Append(upTo[k - 1], s[k])
    <3>1. k \in 0..L /\ k # 0 BY <1>1
    <3>2. upTo[k] = Def(upTo)[k] BY <2>4
    <3> HIDE <2>4
    <3> QED BY <3>1, <3>2
  <2> HIDE DEF Def
  <2> DEFINE P(k) == upTo[k] \in Seq(S) /\ KeptOf(upTo[k], s, k)
             T == {k \in 0..L : P(k)}
  <2>7. P(0) BY <2>5 DEF KeptOf
  <2>8. ASSUME NEW k \in 1..L, P(k - 1) PROVE P(k)
    <3>1. CASE ~later(k)
      <4>1. upTo[k] = Append(upTo[k - 1], s[k]) BY <2>6, <3>1
      <4>2. k \in 1..Len(s) /\ ~Later(s, k) BY <2>2, <3>1 DEF L
      <4> QED BY <2>8, <4>1, <4>2, KeptAppend
    <3>2. CASE later(k)
      <4>1. upTo[k] = upTo[k - 1] BY <2>6, <3>2
      <4>2. \A n \in 1..k : n = k \/ n \in 1..(k - 1) BY <1>1
      <4>3. 1..(k - 1) \subseteq 1..k BY <1>1
      <4>4. KeptOf(upTo[k - 1], s, k)
        BY <2>2, <2>8, <3>2, <4>2, <4>3 DEF KeptOf
      <4> QED BY <2>8, <4>1, <4>4
    <3> QED BY <3>1, <3>2
  <2>9. P(L)
    <3> HIDE DEF P
    <3>1. 0 \in T BY <1>1, <2>7
    <3>2. \A n \in 1..L : n - 1 \in T => n \in T BY <1>1, <2>8
    <3>3. 0..L \subseteq T
      <4> HIDE DEF T
      <4> QED BY <1>1, <3>1, <3>2, Upward
    <3>4. L \in 0..L BY <1>1
    <3> QED BY <3>3, <3>4
  <2> QED BY <2>1, <2>9 DEF L
<1> QED BY <1>2, <1>3

-----------------------------------------------------------------------------
(* What is left of a sorted list.                                          *)

Same(x, y) == x = y \/ Duplicate(x, y)

\* All matching objects, in an order that the comparison allows.
Ordered(t) ==
  /\ t \in Seq(Id) /\ ToSet(t) = Matching
  /\ \A m, n \in 1..Len(t) : t[m] = t[n] => m = n
  /\ \A m, n \in 1..Len(t) : m < n => ~Before(t[n], t[m])

\* One object for each key, at the place that the least object with the key has.
Representatives(u) ==
  /\ u \in Seq(Id)
  /\ \A i \in 1..Len(u) : u[i] \in Matching
  /\ \A x \in Matching : \E i \in 1..Len(u) : Same(u[i], x)
  /\ \A i, j \in 1..Len(u) : Same(u[i], u[j]) => i = j
  /\ \A x \in Matching, i, j \in 1..Len(u) : Same(u[i], x) /\ Before(x, u[j]) => i < j
  /\ \A i, j \in 1..Len(u) : i < j => ~Before(u[j], u[i])

LEMMA NotBeforeItself ==
  ASSUME Runs, NEW x \in Stored
  PROVE  ~Before(x, x)
<1> SUFFICES ASSUME NEW n \in DOMAIN query.sort,
                    Value(query.sort[n].prop, x) < Value(query.sort[n].prop, x)
             PROVE  FALSE
  BY DEF Before
<1>1. query.sort[n] \in [prop : Prop, ascending : BOOLEAN]
  BY QueryFields, ElementOfSeq, LenProperties DEF Runs
<1>2. Value(query.sort[n].prop, x) \in Int BY <1>1, ValueType
<1> QED BY <1>2

LEMMA SameFacts ==
  /\ \A x : Same(x, x)
  /\ \A x, y : Same(x, y) => Same(y, x)
  /\ \A x, y, z : Same(x, y) /\ Same(y, z) => Same(x, z)
BY DEF Same, Duplicate

LEMMA DistinctRepresents ==
  ASSUME Runs, NEW t, Ordered(t)
  PROVE  Representatives(Distinct(t))
<1> DEFINE u == Distinct(t)
           N == Len(t)
<1>1. u \in Seq(Id) /\ KeptOf(u, t, N) BY DistinctKeeps DEF Ordered
<1>2. /\ Len(u) \in Nat /\ DOMAIN u = 1..Len(u) /\ N \in Nat /\ DOMAIN t = 1..N
      /\ \A n \in 1..N : t[n] \in Matching
      /\ \A x \in Matching : \E n \in 1..N : t[n] = x
  BY <1>1, LenProperties DEF Ordered, ToSet
<1>3. Matching \subseteq Stored BY FirstsFacts DEF Runs
<1> HIDE DEF u, N
<1>4. ASSUME NEW n \in 1..N PROVE \E m \in 1..n : Same(t[m], t[n]) /\ ~Later(t, m)
  <2> DEFINE M == {m \in 1..n : Same(t[m], t[n])}
  <2>1. n \in Nat /\ n \in 1..n BY <1>2
  <2>2. IsFiniteSet(1..n) /\ n \in M BY <2>1, SameFacts, FS_Interval
  <2>3. IsFiniteSet(M) /\ M \subseteq Int BY <2>1, <2>2, FS_Subset
  <2>4. PICK m \in M : \A k \in M : m <= k
    <3> HIDE DEF M
    <3> QED BY <2>2, <2>3, LeastOf
  <2>5. ASSUME NEW k \in 1..(m - 1), Duplicate(t[k], t[m]) PROVE FALSE
    <3>1. m \in 1..n /\ k \in 1..n /\ ~(m <= k) BY <2>1, <2>4
    <3>2. Same(t[k], t[n]) BY <2>4, <2>5, SameFacts DEF Same
    <3> QED BY <2>4, <3>1, <3>2
  <2> QED BY <2>4, <2>5 DEF Later
<1>5. ASSUME NEW m \in 1..N, NEW n \in 1..N, ~Later(t, m), ~Later(t, n), Same(t[m], t[n])
      PROVE  m = n
  <2>1. CASE m < n
    <3>1. m \in 1..(n - 1) /\ t[m] # t[n] BY <1>2, <2>1 DEF Ordered, N
    <3> QED BY <1>5, <3>1 DEF Later, Same
  <2>2. CASE n < m
    <3>1. n \in 1..(m - 1) /\ t[m] # t[n] BY <1>2, <2>2 DEF Ordered, N
    <3>2. Same(t[n], t[m]) BY <1>5, SameFacts
    <3> QED BY <1>5, <3>1, <3>2 DEF Later, Same
  <2> QED BY <1>2, <2>1, <2>2
<1>6. ASSUME NEW i \in 1..Len(u) PROVE \E n \in 1..N : u[i] = t[n] /\ ~Later(t, n)
  BY <1>1, <1>2 DEF KeptOf
<1>7. ASSUME NEW i \in 1..Len(u), NEW j \in 1..Len(u), i < j, NEW m \in 1..N, NEW n \in 1..N,
             u[i] = t[m], u[j] = t[n]
      PROVE  m < n
  <2>1. i \in DOMAIN u /\ j \in DOMAIN u BY <1>2
  <2>2. PICK a \in 1..N, b \in 1..N : a < b /\ u[i] = t[a] /\ u[j] = t[b]
    BY <1>1, <1>7, <2>1 DEF KeptOf
  <2>3. a = m /\ b = n BY <1>7, <2>2 DEF Ordered, N
  <2> QED BY <2>2, <2>3
<1>8. \A i \in 1..Len(u) : u[i] \in Matching BY <1>2, <1>6
<1>9. ASSUME NEW x \in Matching PROVE \E i \in 1..Len(u) : Same(u[i], x)
  <2>1. PICK n \in 1..N : t[n] = x BY <1>2
  <2>2. PICK m \in 1..n : Same(t[m], x) /\ ~Later(t, m) BY <1>4, <2>1
  <2>3. m \in 1..N BY <1>2
  <2>4. PICK i \in DOMAIN u : u[i] = t[m] BY <1>1, <2>2, <2>3 DEF KeptOf
  <2> QED BY <1>2, <2>2, <2>4
<1>10. ASSUME NEW i \in 1..Len(u), NEW j \in 1..Len(u), Same(u[i], u[j]) PROVE i = j
  <2>1. PICK m \in 1..N : u[i] = t[m] /\ ~Later(t, m) BY <1>6
  <2>2. PICK n \in 1..N : u[j] = t[n] /\ ~Later(t, n) BY <1>6
  <2>3. m = n BY <1>5, <1>10, <2>1, <2>2
  <2>4. ~(i < j) BY <1>2, <1>7, <2>1, <2>2, <2>3
  <2>5. ~(j < i) BY <1>2, <1>7, <2>1, <2>2, <2>3
  <2> QED BY <1>2, <2>4, <2>5
<1>11. ASSUME NEW x \in Matching, NEW i \in 1..Len(u), NEW j \in 1..Len(u), Same(u[i], x),
              Before(x, u[j])
       PROVE  i < j
  <2>1. PICK n \in 1..N : t[n] = x BY <1>2
  <2>2. PICK p \in 1..N : u[j] = t[p] BY <1>6
  <2>3. PICK m \in 1..N : u[i] = t[m] /\ ~Later(t, m) BY <1>6
  <2>4. PICK k \in 1..n : Same(t[k], x) /\ ~Later(t, k) BY <1>4, <2>1
  <2>5. k \in 1..N /\ k <= n BY <1>2
  <2>6. Same(t[m], t[k]) BY <1>11, <2>3, <2>4, SameFacts
  <2>7. m = k BY <1>5, <2>3, <2>4, <2>5, <2>6
  <2>8. n # p BY <1>3, <1>11, <2>1, <2>2, NotBeforeItself
  <2>9. ~(p < n) BY <1>11, <2>1, <2>2 DEF Ordered, N
  <2>10. m < p BY <2>5, <2>7, <2>8, <2>9
  <2>11. i # j BY <2>2, <2>3, <2>10 DEF Ordered, N
  <2>12. ~(j < i) BY <1>7, <2>2, <2>3, <2>10
  <2> QED BY <1>2, <2>11, <2>12
<1>12. ASSUME NEW i \in 1..Len(u), NEW j \in 1..Len(u), i < j PROVE ~Before(u[j], u[i])
  <2>1. PICK m \in 1..N : u[i] = t[m] BY <1>6
  <2>2. PICK n \in 1..N : u[j] = t[n] BY <1>6
  <2>3. m < n BY <1>7, <1>12, <2>1, <2>2
  <2> QED BY <2>1, <2>2, <2>3 DEF Ordered, N
<1> QED BY <1>1, <1>8, <1>9, <1>10, <1>11, <1>12 DEF Representatives, u

LEMMA FirstsApart ==
  ASSUME Runs, NEW x \in Firsts, NEW y \in Firsts, Same(x, y)
  PROVE  x = y
<1>1. x \in Matching /\ y \in Matching /\ x \in Int /\ y \in Int
  BY FirstsFacts, StoredFacts DEF Runs
<1>2. ~(x < y) BY <1>1 DEF Firsts, Same
<1>3. Same(y, x) BY SameFacts
<1>4. ~(y < x) BY <1>1, <1>3 DEF Firsts, Same
<1> QED BY <1>1, <1>2, <1>4

LEMMA FirstOfSame ==
  ASSUME Runs, NEW y \in Matching
  PROVE  \E x \in Firsts : Same(x, y)
BY FirstOf DEF Runs, Same

\* There are as many representatives as first objects, and each has as many of
\* them before and not after it as it has place.
LEMMA Places ==
  ASSUME Runs, NEW u, Representatives(u)
  PROVE  /\ Len(u) = Cardinality(Firsts)
         /\ \A j \in 1..Len(u) : Earlier(u[j]) < j /\ NotLater(u[j]) >= j
<1> DEFINE L == Len(u)
           Rep(x) == CHOOSE i \in 1..L : Same(u[i], x)
           First(y) == CHOOSE x \in Firsts : Same(x, y)
<1>1. /\ L \in Nat
      /\ Firsts \subseteq Matching /\ IsFiniteSet(Firsts) /\ Cardinality(Firsts) \in Nat
  BY LenProperties, FirstsFacts DEF Runs, Representatives
<1>2. \A x \in Matching : Rep(x) \in 1..L /\ Same(u[Rep(x)], x) BY DEF Representatives
<1>3. \A y \in Matching : First(y) \in Firsts /\ Same(First(y), y) BY FirstOfSame
<1>4. /\ \A i \in 1..L : u[i] \in Matching
      /\ \A i, j \in 1..L : Same(u[i], u[j]) => i = j
      /\ \A x \in Matching, i, j \in 1..L : Same(u[i], x) /\ Before(x, u[j]) => i < j
      /\ \A i, j \in 1..L : i < j => ~Before(u[j], u[i])
  BY DEF Representatives
<1> HIDE DEF L, Rep, First
<1>5. ASSUME NEW x \in Firsts, NEW y \in Firsts, Rep(x) = Rep(y) PROVE x = y
  <2>1. Same(x, u[Rep(x)]) /\ Same(u[Rep(x)], y) BY <1>1, <1>2, <1>5, SameFacts
  <2>2. Same(x, y) BY <2>1, SameFacts
  <2> QED BY <2>2, FirstsApart
<1>6. ASSUME NEW i \in 1..L, NEW j \in 1..L, First(u[i]) = First(u[j]) PROVE i = j
  <2>1. Same(u[i], First(u[i])) /\ Same(First(u[i]), u[j]) BY <1>3, <1>4, <1>6, SameFacts
  <2>2. Same(u[i], u[j]) BY <2>1, SameFacts
  <2> QED BY <1>4, <2>2
<1>7. L = Cardinality(Firsts)
  <2> DEFINE f == [x \in Firsts |-> Rep(x)]
             g == [i \in 1..L |-> First(u[i])]
  <2>1. f \in Injection(Firsts, 1..L) BY <1>1, <1>2, <1>5 DEF Injection, IsInjective
  <2>2. g \in Injection(1..L, Firsts) BY <1>3, <1>4, <1>6 DEF Injection, IsInjective
  <2>3. IsFiniteSet(1..L) /\ Cardinality(1..L) = L BY <1>1, FS_Interval
  <2> HIDE DEF f, g
  <2>4. Cardinality(Firsts) <= L BY <2>1, <2>3, FS_Injection
  <2>5. L <= Cardinality(Firsts) BY <1>1, <2>2, <2>3, FS_Injection
  <2> QED BY <1>1, <2>4, <2>5
<1>8. ASSUME NEW j \in 1..L PROVE Earlier(u[j]) < j
  <2> DEFINE E == {x \in Firsts : \E y \in Matching : (x = y \/ Duplicate(x, y)) /\ Before(y, u[j])}
             f == [x \in E |-> Rep(x)]
  <2>1. ASSUME NEW x \in E PROVE Rep(x) \in 1..(j - 1)
    <3>1. PICK y \in Matching : Same(x, y) /\ Before(y, u[j]) BY DEF Same
    <3>2. Rep(x) \in 1..L /\ Same(u[Rep(x)], x) BY <1>1, <1>2
    <3>3. Same(u[Rep(x)], y) BY <3>1, <3>2, SameFacts
    <3>4. Rep(x) < j BY <1>4, <3>1, <3>2, <3>3
    <3> QED BY <1>1, <3>2, <3>4
  <2>2. f \in Injection(E, 1..(j - 1)) BY <1>5, <2>1 DEF Injection, IsInjective
  <2>3. IsFiniteSet(1..(j - 1)) /\ Cardinality(1..(j - 1)) = j - 1 BY <1>1, FS_Interval
  <2>4. IsFiniteSet(E) BY <1>1, FS_Subset
  <2>5. Cardinality(E) \in Nat BY <2>4, FS_CardinalityType
  <2>6. Cardinality(E) <= j - 1
    <3> HIDE DEF E, f
    <3> QED BY <2>2, <2>3, FS_Injection
  <2>7. Earlier(u[j]) = Cardinality(E) BY DEF Earlier
  <2> HIDE DEF E
  <2> QED BY <1>1, <2>5, <2>6, <2>7
<1>9. ASSUME NEW j \in 1..L PROVE NotLater(u[j]) >= j
  <2> DEFINE E == {x \in Firsts : \E y \in Matching : (x = y \/ Duplicate(x, y)) /\ ~Before(u[j], y)}
             f == [i \in 1..j |-> First(u[i])]
  <2>1. 1..j \subseteq 1..L BY <1>1
  <2>2. ASSUME NEW i \in 1..j PROVE First(u[i]) \in E
    <3>1. i \in 1..L /\ u[i] \in Matching BY <1>4, <2>1
    <3>2. First(u[i]) \in Firsts /\ Same(First(u[i]), u[i]) BY <1>3, <3>1
    <3>3. ~Before(u[j], u[i])
      <4>1. CASE i < j BY <1>4, <3>1, <4>1
      <4>2. CASE i = j
        <5>1. u[j] \in Stored BY <1>4, FirstsFacts DEF Runs
        <5> QED BY <4>2, <5>1, NotBeforeItself
      <4> QED BY <1>1, <4>1, <4>2
    <3> QED BY <3>1, <3>2, <3>3 DEF Same
  <2>3. f \in Injection(1..j, E) BY <1>6, <2>1, <2>2 DEF Injection, IsInjective
  <2>4. IsFiniteSet(1..j) /\ Cardinality(1..j) = j BY <1>1, FS_Interval
  <2>5. IsFiniteSet(E) BY <1>1, FS_Subset
  <2>6. j <= Cardinality(E) /\ Cardinality(E) \in Nat
    <3> HIDE DEF E, f
    <3> QED BY <2>3, <2>4, <2>5, FS_Injection, FS_CardinalityType
  <2>7. NotLater(u[j]) = Cardinality(E) BY DEF NotLater
  <2> HIDE DEF E
  <2> QED BY <1>1, <2>6, <2>7
<1> QED BY <1>7, <1>8, <1>9 DEF L

\* What SortedFindIsWindow says of the answer w.
SortedAnswer(w) ==
  /\ Len(w) = Cardinality({n \in 1..Cardinality(Firsts) : InWindow(n)})
  /\ ToSet(w) \subseteq Matching
  /\ \A m, n \in DOMAIN w : m < n => ~Before(w[n], w[m]) /\ ~Duplicate(w[m], w[n])
  /\ \A n \in DOMAIN w :
       /\ Earlier(w[n]) < query.offset + n
       /\ NotLater(w[n]) >= query.offset + n

LEMMA WindowAnswers ==
  ASSUME Shape, query \in Query, query.op = "find", skip = Offset, take = Limit,
         NEW u, Representatives(u)
  PROVE  Window(u) \in Seq(Id) /\ SortedAnswer(Window(u))
<1> DEFINE w == Window(u)
           C == Cardinality(Firsts)
           b == IF skip + take < Len(u) THEN skip + take ELSE Len(u)
<1>1. /\ Runs /\ skip = query.offset /\ skip \in Nat /\ take \in Nat /\ query.limit \in Nat
      /\ C \in Nat /\ C <= Cardinality(Id) /\ Cardinality(Id) \in Nat
      /\ query.limit # 0 => take = query.limit
      /\ query.limit = 0 => take = Cardinality(Id) + 1
  BY LimitFacts, QueryFields, FirstsFacts DEF Offset, Limit, Shape
<1>2. Len(u) = C /\ u \in Seq(Id) /\ DOMAIN u = 1..C
  BY <1>1, Places, LenProperties DEF Representatives
<1>3. b \in Int /\ b <= C /\ \A i \in (skip + 1)..b : i \in 1..C BY <1>1, <1>2
<1>4. \A n \in 1..C : InWindow(n) <=> n \in (skip + 1)..b
  BY <1>1, <1>2 DEF InWindow
<1>5. {n \in 1..C : InWindow(n)} = (skip + 1)..b BY <1>3, <1>4
<1> HIDE DEF C
<1>6. /\ w \in Seq(Id) /\ Len(w) = IF skip + 1 <= b THEN b - skip ELSE 0
      /\ \A i \in 1..(b - skip) : w[i] = u[skip + i]
  <2>1. \A i \in (skip + 1)..b : u[i] \in Id BY <1>2, <1>3, ElementOfSeq
  <2>2. w = SubSeq(u, skip + 1, b) BY DEF Window
  <2>3. skip + 1 \in Int BY <1>1
  <2> HIDE DEF w, b
  <2>4. /\ w \in Seq(Id) /\ Len(w) = IF skip + 1 <= b THEN b - (skip + 1) + 1 ELSE 0
        /\ \A i \in 1..(b - (skip + 1) + 1) : w[i] = u[(skip + 1) + i - 1]
    BY <1>3, <2>1, <2>2, <2>3, SubSeqProperties
  <2>5. b - (skip + 1) + 1 = b - skip BY <1>1, <1>3
  <2>6. \A i \in 1..(b - skip) : (skip + 1) + i - 1 = skip + i BY <1>1, <1>3
  <2> QED BY <2>4, <2>5, <2>6
<1>7. Len(w) = Cardinality((skip + 1)..b)
  <2>1. skip + 1 \in Int /\ b \in Int BY <1>1, <1>3
  <2> HIDE DEF w, b
  <2>2. Cardinality((skip + 1)..b) = IF skip + 1 > b THEN 0 ELSE b - (skip + 1) + 1
    BY <2>1, FS_Interval
  <2> QED BY <1>1, <1>6, <2>1, <2>2
<1> HIDE DEF w, b
<1>8. \A n \in DOMAIN w : n \in Nat /\ n >= 1 /\ w[n] = u[skip + n] /\ skip + n \in 1..C
  <2>1. DOMAIN w = 1..Len(w) BY <1>6, LenProperties
  <2>2. DOMAIN w \subseteq 1..(b - skip) BY <1>1, <1>3, <1>6, <2>1
  <2>3. \A n \in 1..(b - skip) : n \in Nat /\ n >= 1 /\ skip + n \in (skip + 1)..b BY <1>1, <1>3
  <2> QED BY <1>3, <1>6, <2>2, <2>3
<1>9. ToSet(w) \subseteq Matching BY <1>2, <1>8 DEF ToSet, Representatives
<1>10. ASSUME NEW m \in DOMAIN w, NEW n \in DOMAIN w, m < n
       PROVE  ~Before(w[n], w[m]) /\ ~Duplicate(w[m], w[n])
  <2>1. skip + m \in 1..Len(u) /\ skip + n \in 1..Len(u) /\ skip + m < skip + n
    BY <1>1, <1>2, <1>8, <1>10
  <2>2. ~Before(u[skip + n], u[skip + m]) BY <2>1 DEF Representatives
  <2>3. ~Same(u[skip + m], u[skip + n]) BY <2>1 DEF Representatives
  <2> QED BY <1>8, <2>2, <2>3 DEF Same
<1>11. ASSUME NEW n \in DOMAIN w
       PROVE  Earlier(w[n]) < query.offset + n /\ NotLater(w[n]) >= query.offset + n
  <2>1. skip + n \in 1..Len(u) /\ w[n] = u[skip + n] BY <1>2, <1>8
  <2> QED BY <1>1, <2>1, Places
<1> QED BY <1>5, <1>6, <1>7, <1>9, <1>10, <1>11 DEF SortedAnswer, w, C

\* Any order that the sort may leave.
LEMMA OrdersFacts ==
  ASSUME results \in Seq(Id), ToSet(results) = Matching, NEW t \in Orders(results)
  PROVE  Ordered(t)
<1>1. /\ t \in [DOMAIN results -> ToSet(results)] /\ IsInjective(t) /\ ToSet(t) = Matching
      /\ \A m, n \in DOMAIN t : m < n => ~Before(t[n], t[m])
  BY DEF Orders, Sorted
<1>2. DOMAIN results = 1..Len(results) /\ Len(results) \in Nat BY LenProperties
<1>3. ToSet(results) \subseteq Id BY <1>2, ElementOfSeq DEF ToSet
<1>4. t \in [1..Len(results) -> Id] BY <1>1, <1>2, <1>3
<1>5. t \in Seq(Id) BY <1>2, <1>4
<1>6. DOMAIN t = 1..Len(t) BY <1>5, LenProperties
<1> QED BY <1>1, <1>5, <1>6 DEF Ordered, IsInjective

-----------------------------------------------------------------------------
(* The invariant of the whole query.                                       *)

\* Before a sort everything is collected that the filter accepts.
Collected ==
  phase = "collecting" =>
    InOrder /\ skip = Offset /\ take = Limit /\ ToSet(results) = Matching \ ahead

SortedDone == phase = "done" /\ ~Lazy => SortedAnswer(results)

IInv == Shape /\ Loop /\ Collected /\ SortedDone

LEMMA SameAnswer ==
  ASSUME UNCHANGED <<objects, query>>
  PROVE  \A w : SortedAnswer(w)' = SortedAnswer(w)
<1>1. /\ Firsts' = Firsts /\ Matching' = Matching
      /\ \A n : InWindow(n)' = InWindow(n)
      /\ \A p, x : Value(p, x)' = Value(p, x)
  BY SameQuery
<1>2. \A x, y : Duplicate(x, y)' = Duplicate(x, y) BY SameQuery DEF Duplicate
<1>3. \A x, y : Before(x, y)' = Before(x, y) BY DEF Before, Value
<1>4. \A x : Earlier(x)' = Earlier(x) BY <1>1, <1>2, <1>3 DEF Earlier
<1>5. \A x : NotLater(x)' = NotLater(x) BY <1>1, <1>2, <1>3 DEF NotLater
<1> QED BY <1>1, <1>2, <1>3, <1>4, <1>5 DEF SortedAnswer

\* A new query begins with nothing passed.
LEMMA AskKeeps ==
  ASSUME Shape, NEW q \in Query, Ask(q)
  PROVE  IInv'
<1>1. /\ objects' = objects /\ query' = q /\ ahead' = Stored /\ hashes' = {} /\ results' = <<>>
      /\ found' = FALSE /\ sum' = 0 /\ count' = 0 /\ best' = Start(q)
      /\ skip' = (IF q.op = "find" THEN q.offset ELSE 0)
      /\ take' = (IF q.op = "find" /\ q.limit # 0 THEN q.limit ELSE Cardinality(Id) + 1)
      /\ phase' = IF q.sort # <<>> /\ q.op = "find" THEN "collecting" ELSE "scanning"
  BY DEF Ask, Shape
<1>2. q.offset \in Nat /\ q.limit \in Nat BY QueryAssumption
<1>3. Cardinality(Id) \in Nat BY QueryAssumption, FS_CardinalityType
<1>4. Stored' = Stored BY <1>1 DEF Stored
<1>5. skip' \in Nat /\ take' \in Nat BY <1>1, <1>2, <1>3
<1>6. skip' = Offset' /\ take' = Limit' BY <1>1 DEF Offset, Limit
<1>7. Lazy' <=> phase' = "scanning" BY <1>1 DEF Lazy
<1>8. Passed' = {} /\ (Matching \ ahead)' = {} /\ (Values \ ahead)' = {}
  BY <1>1, <1>4 DEF Passed, Firsts, Matching, Values
<1>9. Shape'
  <2>1. results' \in Seq(Id) /\ ahead' \subseteq Stored' BY <1>1, <1>4
  <2>2. phase' = "collecting" \/ phase' = "scanning" BY <1>1
  <2>3. query' \in Query /\ objects' \in Database BY <1>1 DEF Shape
  <2>4. found' \in BOOLEAN /\ sum' \in Int /\ count' \in Nat
    <3>1. found' \in BOOLEAN BY <1>1, Zenon
    <3>2. sum' = 0 /\ count' = 0 BY <1>1
    <3> QED BY <3>1, <3>2
  <2>5. phase' = "collecting" <=> ~Lazy' BY <1>1, <1>7, <2>2
  <2> QED BY <1>5, <1>7, <2>1, <2>2, <2>3, <2>4, <2>5 DEF Shape
<1>10. InOrder' BY <1>1, <1>4 DEF InOrder
<1>11. ToSet(results') = {} /\ DOMAIN results' = {} BY <1>1 DEF ToSet
<1>12. Cardinality({}) = 0 BY FS_EmptySet
<1>13. Counters'
  <2>1. Hashed' BY <1>1, <1>8 DEF Hashed
  <2>2. phase' # "done" BY <1>1
  <2> QED BY <1>5, <1>6, <1>8, <1>12, <2>1, <2>2 DEF Counters
<1>14. Answered'
  <2>1. Returned' BY <1>8, <1>11 DEF Returned
  <2>2. Counted' BY <1>1, <1>8, <1>12 DEF Counted
  <2>3. Extreme' BY <1>1, <1>8 DEF Extreme, Best
  <2>4. Summed'
    <3>1. Runs' BY <1>1 DEF Runs, Shape
    <3>2. (Runs => Total({}) = 0)' BY TotalEmpty, PTL
    <3> QED BY <1>1, <1>8, <1>12, <3>1, <3>2 DEF Summed
  <2> QED BY <2>1, <2>2, <2>3, <2>4 DEF Answered
<1>15. Collected' BY <1>6, <1>8, <1>10, <1>11 DEF Collected
<1>16. SortedDone' BY <1>1 DEF SortedDone
<1> QED BY <1>9, <1>10, <1>13, <1>14, <1>15, <1>16 DEF IInv, Loop

LEMMA CloseKeeps ==
  ASSUME Shape, Close
  PROVE  IInv'
<1>1. Shape'
  <2>1. /\ phase' = "idle" /\ query' = None /\ ahead' = {} /\ hashes' = {} /\ results' = <<>>
        /\ skip' = 0 /\ take' = 0 /\ found' = FALSE /\ sum' = 0 /\ count' = 0
        /\ objects' \in Database
    BY DEF Close, Shape
  <2>2. results' \in Seq(Id) /\ ahead' \subseteq Stored' /\ skip' \in Nat /\ take' \in Nat
    BY <2>1
  <2>3. found' \in BOOLEAN /\ sum' \in Int /\ count' \in Nat
    <3>1. found' \in BOOLEAN BY <2>1, Zenon
    <3>2. sum' = 0 /\ count' = 0 BY <2>1
    <3> QED BY <3>1, <3>2
  <2> QED BY <2>1, <2>2, <2>3 DEF Shape
<1>2. phase' = "idle" BY DEF Close
<1> QED BY <1>1, <1>2 DEF IInv, Loop, Collected, SortedDone

\* The loop ends when the cursor does, or when nothing more may be taken.
LEMMA EndKeeps ==
  ASSUME Shape, Loop, phase = "scanning", phase' = "done",
         UNCHANGED <<objects, query, ahead, hashes, skip, take, results, best, found, sum, count>>,
         ahead = {} \/ (skip = 0 /\ take = 0)
  PROVE  Shape' /\ Loop'
<1>1. Lazy /\ InOrder /\ Counters /\ Answered BY DEF Loop, Shape
<1>2. Shape' BY SameQuery DEF Shape
<1>3. Passed' = Passed BY SameQuery DEF Passed
<1>4. InOrder' BY <1>1, SameQuery DEF InOrder
<1>5. Counters' BY <1>1, <1>3, SameQuery DEF Counters, Hashed
<1>6. Returned' /\ Counted' BY <1>1, <1>3, SameQuery DEF Answered, Returned, Counted
<1>7. (Values \ ahead)' = Values \ ahead BY SameQuery
<1>8. Extreme' BY <1>1, <1>7, SameQuery DEF Answered, Extreme, Best
<1>9. Summed' BY <1>1, <1>7, SameQuery DEF Answered, Summed
<1> QED BY <1>2, <1>4, <1>5, <1>6, <1>8, <1>9 DEF Loop, Answered

LEMMA CollectKeeps ==
  ASSUME Shape, Collected, CollectStep
  PROVE  IInv'
<1> DEFINE id == Min(ahead)
<1>1. /\ phase = "collecting" /\ phase' = phase /\ ahead # {} /\ ahead' = ahead \ {id}
      /\ results' = IF Accepted(id) THEN Append(results, id) ELSE results
      /\ UNCHANGED <<objects, query, hashes, skip, take, best, found, sum, count>>
  BY DEF CollectStep, Consume
<1>2. InOrder /\ skip = Offset /\ take = Limit /\ ToSet(results) = Matching \ ahead
  BY <1>1 DEF Collected
<1>3. /\ id \in ahead /\ id \in Stored /\ id \in Id
      /\ \A x \in Stored \ (ahead \ {id}), y \in ahead \ {id} : x < y
  BY <1>1, <1>2, Cursor
<1> HIDE DEF id
<1>4. results \in Seq(Id) BY DEF Shape
<1>5. results' \in Seq(Id) BY <1>1, <1>3, <1>4, AppendFacts
<1>6. Shape' BY <1>1, <1>5, SameQuery DEF Shape
<1>7. InOrder' BY <1>1, <1>3, SameQuery DEF InOrder
<1>8. ToSet(results') = Matching \ ahead'
  <2>1. CASE Accepted(id)
    <3>1. id \in Matching BY <1>3, <2>1 DEF Matching
    <3>2. ToSet(results') = ToSet(results) \cup {id} BY <1>1, <1>3, <1>4, <2>1, AppendFacts
    <3> QED BY <1>1, <1>2, <1>3, <3>1, <3>2
  <2>2. CASE ~Accepted(id)
    <3>1. id \notin Matching BY <2>2 DEF Matching
    <3> QED BY <1>1, <1>2, <2>2, <3>1
  <2> QED BY <2>1, <2>2
<1>9. Collected' BY <1>1, <1>2, <1>7, <1>8, SameQuery DEF Collected
<1>10. Loop' /\ SortedDone' BY <1>1 DEF Loop, SortedDone
<1> QED BY <1>6, <1>9, <1>10 DEF IInv

LEMMA SortKeeps ==
  ASSUME Shape, Collected, SortResults
  PROVE  IInv'
<1>1. /\ phase = "collecting" /\ phase' = "done" /\ ahead = {} /\ query \in Query /\ ~Lazy
      /\ UNCHANGED <<objects, query, ahead, hashes, skip, take, best, found, sum, count>>
  BY DEF SortResults, Shape
<1>2. skip = Offset /\ take = Limit /\ ToSet(results) = Matching /\ results \in Seq(Id)
  BY <1>1 DEF Collected, Shape
<1>3. query.op = "find" BY <1>1 DEF Lazy
<1>4. PICK t \in Orders(results) : results' = Window(Distinct(t)) BY DEF SortResults
<1>5. Runs BY <1>1 DEF Runs, Shape
<1>6. Representatives(Distinct(t)) BY <1>2, <1>5, OrdersFacts, DistinctRepresents
<1>7. results' \in Seq(Id) /\ SortedAnswer(results')
  BY <1>1, <1>2, <1>3, <1>4, <1>6, WindowAnswers
<1>8. Shape' BY <1>1, <1>7, SameQuery DEF Shape
<1>9. ~Lazy' /\ Loop' /\ Collected' BY <1>1, SameQuery DEF Loop, Collected
<1>10. SortedDone' BY <1>1, <1>7, SameAnswer DEF SortedDone
<1> QED BY <1>8, <1>9, <1>10 DEF IInv

LEMMA StutterKeeps ==
  ASSUME IInv, UNCHANGED vars
  PROVE  IInv'
<1>1. UNCHANGED <<objects, query>> BY DEF vars
<1>2. Passed' = Passed /\ (InOrder' <=> InOrder) /\ (Values \ ahead)' = Values \ ahead
  BY <1>1, SameQuery DEF Passed, InOrder, vars
<1>3. Shape' BY <1>1, SameQuery DEF IInv, Shape, vars
<1>4. Counters' <=> Counters BY <1>1, <1>2, SameQuery DEF Counters, Hashed, vars
<1>5. (Returned' <=> Returned) /\ (Counted' <=> Counted)
  BY <1>1, <1>2, SameQuery DEF Returned, Counted, vars
<1>6. (Extreme' <=> Extreme) /\ (Summed' <=> Summed)
  BY <1>1, <1>2, SameQuery DEF Extreme, Best, Summed, vars
<1>7. Loop' BY <1>1, <1>2, <1>4, <1>5, <1>6, SameQuery DEF IInv, Loop, Answered, vars
<1>8. Collected' BY <1>1, <1>2, SameQuery DEF IInv, Collected, vars
<1>9. SortedDone' BY <1>1, SameQuery, SameAnswer DEF IInv, SortedDone, vars
<1> QED BY <1>3, <1>7, <1>8, <1>9 DEF IInv

LEMMA NextIInv ==
  ASSUME IInv, [Next]_vars
  PROVE  IInv'
<1>1. Shape /\ Loop /\ Collected BY DEF IInv
<1>2. ASSUME NEW q \in Query, Ask(q) PROVE IInv' BY <1>1, <1>2, AskKeeps
<1>3. CASE Close BY <1>1, <1>3, CloseKeeps
<1>4. CASE ScanStep
  <2>1. phase = "scanning" /\ ahead # {} BY <1>4 DEF ScanStep
  <2>2. CASE ScanReject(Min(ahead))
    <3>1. Shape' /\ Loop' BY <1>1, <2>1, <2>2, RejectKeeps
    <3>2. phase' = "scanning" BY <2>1, <2>2 DEF ScanReject
    <3> QED BY <3>1, <3>2 DEF IInv, Collected, SortedDone
  <2>3. CASE ScanSkip(Min(ahead))
    <3>1. Shape' /\ Loop' BY <1>1, <2>1, <2>3, SkipKeeps
    <3>2. phase' = "scanning" BY <2>1, <2>3 DEF ScanSkip
    <3> QED BY <3>1, <3>2 DEF IInv, Collected, SortedDone
  <2>4. CASE ScanReturn(Min(ahead))
    <3>1. Shape' /\ Loop' BY <1>1, <2>1, <2>4, ReturnKeeps
    <3>2. phase' \in {"scanning", "done"} /\ UNCHANGED <<objects, query>>
      BY <2>4 DEF ScanReturn
    <3>3. Lazy' BY <1>1, <2>1, <3>2, SameQuery DEF Shape
    <3> QED BY <3>1, <3>2, <3>3 DEF IInv, Collected, SortedDone
  <2>5. CASE ScanStop(Min(ahead))
    <3>1. /\ skip = 0 /\ take = 0 /\ phase' = "done"
          /\ UNCHANGED <<objects, query, ahead, hashes, skip, take, results, best, found, sum, count>>
      BY <2>5 DEF ScanStop
    <3>2. Shape' /\ Loop' BY <1>1, <2>1, <3>1, EndKeeps
    <3>3. Lazy' BY <1>1, <2>1, <3>1, SameQuery DEF Shape
    <3> QED BY <3>1, <3>2, <3>3 DEF IInv, Collected, SortedDone
  <2> QED BY <1>4, <2>2, <2>3, <2>4, <2>5 DEF ScanStep
<1>5. CASE ScanEnd
  <2>1. /\ phase = "scanning" /\ ahead = {} /\ phase' = "done"
        /\ UNCHANGED <<objects, query, ahead, hashes, skip, take, results, best, found, sum, count>>
    BY <1>5 DEF ScanEnd
  <2>2. Shape' /\ Loop' BY <1>1, <2>1, EndKeeps
  <2>3. Lazy' BY <1>1, <2>1, SameQuery DEF Shape
  <2> QED BY <2>1, <2>2, <2>3 DEF IInv, Collected, SortedDone
<1>6. CASE CollectStep BY <1>1, <1>6, CollectKeeps
<1>7. CASE SortResults BY <1>1, <1>7, SortKeeps
<1>8. CASE UNCHANGED vars BY <1>8, StutterKeeps
<1> QED BY <1>2, <1>3, <1>4, <1>5, <1>6, <1>7, <1>8 DEF Next

LEMMA Invariant == Spec => []IInv
<1>1. ASSUME Init PROVE IInv
  <2>1. /\ results \in Seq(Id) /\ ahead \subseteq Stored /\ skip \in Nat /\ take \in Nat
        /\ found \in BOOLEAN /\ sum \in Int /\ count \in Nat
    <3>1. found \in BOOLEAN BY <1>1, Zenon DEF Init
    <3>2. results = <<>> /\ ahead = {} /\ skip = 0 /\ take = 0 /\ sum = 0 /\ count = 0
      BY <1>1 DEF Init
    <3>3. results \in Seq(Id) BY <3>2
    <3> QED BY <3>1, <3>2, <3>3
  <2>2. Shape BY <1>1, <2>1 DEF Init, Shape
  <2>3. phase = "idle" BY <1>1 DEF Init
  <2> QED BY <2>2, <2>3 DEF IInv, Loop, Collected, SortedDone
<1>2. ASSUME IInv, [Next]_vars PROVE IInv' BY <1>2, NextIInv
<1> QED BY <1>1, <1>2, PTL DEF Spec

-----------------------------------------------------------------------------
(* The theorems.                                                           *)

\* Where the loop ends early, the query has what it asked for; an aggregate,
\* whose limit is beyond the number of ids, always comes to the end.
LEMMA Ended ==
  ASSUME Shape, Loop, phase = "done", Lazy
  PROVE  \/ ahead = {} /\ Passed = Firsts
         \/ query.op = "isEmpty" /\ Passed # {}
         \/ /\ query.op = "find" /\ query.limit # 0
            /\ Cardinality(Passed) = query.offset + query.limit
<1>1. Counters /\ query \in Query BY DEF Loop, Shape
<1>2. /\ Limit \in Nat /\ Cardinality(Passed) \in Nat /\ Cardinality(Id) \in Nat
      /\ Cardinality(Passed) <= Cardinality(Id) /\ Offset \in Nat
      /\ query.limit \in Nat /\ query.offset \in Nat
  BY <1>1, LimitFacts, QueryFields
<1>3. CASE ahead = {} BY <1>3 DEF Passed
<1>4. CASE skip = 0 /\ take = 0
  <2>1. Cardinality(Passed) = Offset + Limit BY <1>1, <1>2, <1>4 DEF Counters
  <2>2. query.op = "find" /\ query.limit # 0 BY <1>2, <2>1 DEF Limit
  <2> QED BY <2>1, <2>2 DEF Offset, Limit
<1> QED BY <1>1, <1>3, <1>4 DEF Counters

\* Every state of a query is one of the declared ones, in particular the
\* iterator's counters skip and take never fall below zero.
THEOREM TypeCorrect == Spec => []TypeOK
<1>1. ASSUME IInv PROVE TypeOK
  <2>1. query \in Query \cup {None} BY <1>1 DEF IInv, Shape
  <2> QED BY <1>1, <2>1 DEF IInv, Shape, TypeOK
<1> QED BY <1>1, Invariant, PTL

\* The lazy iterators: the counting down of offset and limit, together with the
\* hash set of the distinct keys, returns the window of the first objects.
THEOREM FindReturnsWindow == Spec => []FindIsWindow
<1>1. ASSUME IInv, Asked({"find"}), query.sort = <<>>
      PROVE  /\ ToSet(results) = {id \in Firsts : InWindow(Cardinality({x \in Firsts : x <= id}))}
             /\ \A m, n \in DOMAIN results : m < n => results[m] < results[n]
  <2>1. Shape /\ Loop /\ phase = "done" /\ query.op = "find" /\ Lazy /\ query \in Query
    BY <1>1 DEF IInv, Asked, Lazy, Shape
  <2>2. InOrder /\ Returned BY <2>1 DEF Loop, Answered
  <2>3. ToSet(results) = {id \in Passed : InWindow(Place(id))} BY <2>1, <2>2 DEF Returned
  <2>4. ASSUME NEW id \in Firsts, InWindow(Place(id)) PROVE id \in Passed
    <3>1. SUFFICES ASSUME id \in ahead PROVE FALSE BY DEF Passed
    <3>2. /\ query.limit # 0 /\ Cardinality(Passed) = query.offset + query.limit
      BY <2>1, <3>1, Ended
    <3> DEFINE Up == {x \in Firsts : x <= id}
    <3>3. Runs /\ IsFiniteSet(Passed) /\ Cardinality(Passed) \in Nat BY <2>1, LimitFacts
    <3>4. Firsts \subseteq Stored /\ Stored \subseteq Int /\ IsFiniteSet(Firsts)
      BY <3>3, FirstsFacts, StoredFacts DEF Runs
    <3>5. \A x \in Passed : x < id BY <2>2, <3>1, <3>4 DEF InOrder, Passed
    <3>6. Passed \cup {id} \subseteq Up
      <4>1. id \in Int /\ \A x \in Passed : x \in Firsts /\ x \in Int
        BY <3>4 DEF Passed
      <4>2. id <= id /\ \A x \in Passed : x \in Firsts /\ x <= id BY <3>5, <4>1
      <4> QED BY <4>2
    <3>7. IsFiniteSet(Up) BY <3>4, FS_Subset
    <3> HIDE DEF Up
    <3>8. Cardinality(Passed \cup {id}) <= Cardinality(Up) BY <3>6, <3>7, FS_Subset
    <3>9. Cardinality(Passed \cup {id}) = Cardinality(Passed) + 1
      BY <3>1, <3>3, FS_AddElement DEF Passed
    <3>10. Place(id) = Cardinality(Up) /\ Cardinality(Up) \in Nat
      BY <3>7, FS_CardinalityType DEF Place, Up
    <3> QED BY <2>4, <3>2, <3>3, <3>8, <3>9, <3>10, <2>1, QueryFields DEF InWindow
  <2>5. ToSet(results) = {id \in Firsts : InWindow(Place(id))} BY <2>3, <2>4 DEF Passed
  <2> QED BY <2>1, <2>2, <2>5 DEF Place, Returned
<1>2. IInv => FindIsWindow BY <1>1 DEF FindIsWindow
<1> QED BY <1>2, Invariant, PTL

\* The sorted iterator: after the sort, the dropping of duplicates and the
\* cutting out of the window, every object is at a place it can have.
THEOREM SortedFindReturnsWindow == Spec => []SortedFindIsWindow
<1>1. ASSUME IInv PROVE SortedFindIsWindow
  <2>1. SUFFICES ASSUME Asked({"find"}), query.sort # <<>> PROVE SortedAnswer(results)
    BY DEF SortedFindIsWindow, SortedAnswer
  <2> QED BY <1>1, <2>1 DEF IInv, SortedDone, Lazy, Asked
<1> QED BY <1>1, Invariant, PTL

\* Iterator::count and is_empty see the objects that find would return without
\* offset and limit.
THEOREM CountsAgree == Spec => []CountAgrees
<1>1. ASSUME IInv, phase = "done", query.op \in {"count", "isEmpty"}
      PROVE  /\ query.op = "count" => count = Cardinality(Firsts)
             /\ query.op = "isEmpty" => (count = 0 <=> Matching = {})
  <2>1. Shape /\ Loop /\ Lazy /\ query \in Query BY <1>1 DEF IInv, Lazy, Shape
  <2>2. count = Cardinality(Passed) BY <1>1, <2>1 DEF Loop, Answered, Counted
  <2>3. \/ ahead = {} /\ Passed = Firsts
        \/ query.op = "isEmpty" /\ Passed # {}
    BY <1>1, <2>1, Ended
  <2>4. query.op = "count" => count = Cardinality(Firsts) BY <2>2, <2>3
  <2>5. count = 0 <=> Passed = {} BY <2>1, <2>2, LimitFacts, FS_EmptySet
  <2>6. Passed # {} => Matching # {} BY <2>1, FirstsFacts DEF Passed, Shape
  <2>7. Matching # {} => Firsts # {} BY <2>1, FirstOf DEF Shape
  <2> QED BY <2>3, <2>4, <2>5, <2>6, <2>7
<1>2. IInv => CountAgrees BY <1>1 DEF CountAgrees, Asked
<1> QED BY <1>2, Invariant, PTL

\* aggregate_min_max: the extreme of the values that are not null, and null if
\* there are none or all of them equal the value the search starts with.
THEOREM ExtremesFound == Spec => []ExtremesAgree
<1>1. ASSUME IInv, Asked({"min", "max"})
      PROVE  /\ best = Start(query) \/ \E id \in Values : best = Value(query.prop, id)
             /\ \A id \in Values : IF query.op = "min" THEN best <= Value(query.prop, id)
                                                         ELSE best >= Value(query.prop, id)
             /\ found <=> \E id \in Values : Value(query.prop, id) # Start(query)
  <2>1. /\ Shape /\ Loop /\ Lazy /\ query \in Query /\ phase = "done" /\ Aggregating
        /\ query.op \in {"min", "max"}
    BY <1>1 DEF IInv, Lazy, Shape, Asked, Aggregating
  <2>2. ahead = {} BY <2>1, Ended
  <2>3. Best(Values, best, found) BY <2>1, <2>2 DEF Loop, Answered, Extreme
  <2>4. Runs /\ query.prop \in Prop BY <2>1, LimitFacts, QueryFields
  <2>5. Values \subseteq Stored BY <2>4, FirstsFacts DEF Values, Runs
  <2>6. \A id \in Values : /\ Value(query.prop, id) \in Int
                           /\ Least[query.prop] <= Value(query.prop, id)
                           /\ Value(query.prop, id) <= Greatest[query.prop]
    BY <2>4, <2>5, ValueType, ValueBounds DEF Values
  <2>7. /\ query.op = "min" => Start(query) = Greatest[query.prop]
        /\ query.op = "max" => Start(query) = Least[query.prop]
        /\ Start(query) \in Int
    BY <2>1, <2>4, QueryAssumption DEF Start
  <2>8. ASSUME NEW id \in Values, Value(query.prop, id) # Start(query) PROVE best # Start(query)
    <3> DEFINE v == Value(query.prop, id)
    <3>1. IF query.op = "min" THEN best <= v ELSE best >= v BY <2>3 DEF Best
    <3>2. v \in Int /\ Least[query.prop] <= v /\ v <= Greatest[query.prop] BY <2>6
    <3> HIDE DEF v
    <3> QED BY <2>1, <2>7, <2>8, <3>1, <3>2 DEF v
  <2>9. best # Start(query) => \E id \in Values : Value(query.prop, id) # Start(query)
    BY <2>3 DEF Best
  <2> QED BY <2>3, <2>8, <2>9 DEF Best
<1>2. IInv => ExtremesAgree BY <1>1 DEF ExtremesAgree
<1> QED BY <1>2, Invariant, PTL

\* aggregate_sum_average: the sum, and the number the average divides by, are
\* those of the values that are not null.
THEOREM SumsRight == Spec => []SumsAgree
<1>1. ASSUME IInv, Asked({"sum"})
      PROVE  sum = Total(Values) /\ count = Cardinality(Values)
  <2>1. Shape /\ Loop /\ Lazy /\ query \in Query /\ phase = "done" /\ query.op = "sum"
    BY <1>1 DEF IInv, Lazy, Shape, Asked
  <2>2. ahead = {} BY <2>1, Ended
  <2> QED BY <2>1, <2>2 DEF Loop, Answered, Summed
<1>2. IInv => SumsAgree BY <1>1 DEF SumsAgree, Total
<1> QED BY <1>2, Invariant, PTL
=============================================================================
