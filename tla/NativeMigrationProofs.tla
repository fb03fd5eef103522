------------------------ MODULE NativeMigrationProofs ------------------------
(***************************************************************************)
(* What the file holds through any number of openings, finished or not:    *)
(* the databases and the layout of every collection.  The invariant        *)
(* (SchemaInv) says which of the schemas of the opening were dealt with,   *)
(* and that the stored schemas of all others are as they were read; the    *)
(* lemmas before it, what merging a schema with the stored one gives.      *)
(* The second part is about objects and indexes.                           *)
(***************************************************************************)
EXTENDS NativeMigration, FiniteSetTheorems, SequenceTheorems, WellFoundedInduction, TLAPS

-----------------------------------------------------------------------------
(* Induction.  The library's induction theorems take a predicate as a      *)
(* parameter, which the provers cannot instantiate; here the predicate is  *)
(* a set.                                                                  *)

\* Every set of natural numbers that is not empty has a least element: the
\* intervals from 0 to its elements are ordered by inclusion.
LEMMA Least ==
  ASSUME NEW T, T \subseteq Nat, T # {}
  PROVE  \E x \in T : \A y \in T : x <= y
<1> DEFINE Below == {0..k : k \in T}
<1>1. IsWellFoundedOn(StrictSubsetOrdering(Nat), FiniteSubsetsOf(Nat))
  BY FS_StrictSubsetOrderingWellFounded
<1>2. Below \subseteq FiniteSubsetsOf(Nat)
  <2>1. ASSUME NEW k \in T PROVE 0..k \in FiniteSubsetsOf(Nat)
    <3>1. IsFiniteSet(0..k) BY FS_Interval
    <3> QED BY <3>1 DEF FiniteSubsetsOf
  <2> QED BY <2>1
<1>3. Below # {} OBVIOUS
<1>4. PICK b \in Below : \A y \in Below : <<y, b>> \notin StrictSubsetOrdering(Nat)
  <2> HIDE DEF Below
  <2> QED BY <1>1, <1>2, <1>3, WFMin
<1>5. PICK x \in T : b = 0..x OBVIOUS
<1>6. ASSUME NEW y \in T, y < x PROVE FALSE
  <2>1. 0..y \in Below OBVIOUS
  <2>2. 0..y \subseteq 0..x /\ 0..y # 0..x BY <1>6
  <2>3. <<0..y, 0..x>> \in StrictSubsetOrdering(Nat)
    BY <2>2 DEF StrictSubsetOrdering
  <2> QED BY <1>4, <1>5, <2>1, <2>3
<1> QED BY <1>6

\* Induction up to a number.
LEMMA Upward ==
  ASSUME NEW L \in Nat, NEW T, 0 \in T, \A n \in 1..L : n - 1 \in T => n \in T
  PROVE  0..L \subseteq T
<1> DEFINE B == {n \in 0..L : n \notin T}
<1> SUFFICES ASSUME B # {} PROVE FALSE OBVIOUS
<1>1. PICK x \in B : \A y \in B : x <= y
  <2>1. B \subseteq Nat OBVIOUS
  <2> HIDE DEF B
  <2> QED BY <2>1, Least
<1>2. x \in 0..L /\ x \notin T /\ x # 0 OBVIOUS
<1>3. x \in 1..L /\ x - 1 \in 0..L /\ ~(x <= x - 1) BY <1>2
<1>4. x - 1 \notin B BY <1>1, <1>3
<1> QED BY <1>2, <1>3, <1>4

\* A set of natural numbers with a bound has a greatest element.
LEMMA Greatest ==
  ASSUME NEW N \in Nat, NEW T, T \subseteq 0..N, T # {}
  PROVE  \E x \in T : \A y \in T : y <= x
<1> DEFINE U == {N - k : k \in T}
<1>1. U \subseteq Nat /\ U # {}
  <2>1. \A k \in T : k \in 0..N /\ N - k \in Nat OBVIOUS
  <2> QED BY <2>1
<1>2. PICK x \in U : \A y \in U : x <= y
  <2> HIDE DEF U
  <2> QED BY <1>1, Least
<1>3. PICK k \in T : x = N - k OBVIOUS
<1>4. ASSUME NEW y \in T PROVE y <= k
  <2>1. N - y \in U OBVIOUS
  <2>2. N - k <= N - y BY <1>2, <1>3, <2>1
  <2>3. y \in Nat /\ k \in Nat BY <1>3
  <2> QED BY <2>2, <2>3
<1> QED BY <1>4

\* What the first k values of a function with the start b and the step G are.
Steps(f, b, G, k) == f[0] = b /\ \A n \in 1..k : f[n] = G[<<f[n - 1], n>>]

\* A function defined by recursion exists.
LEMMA Recursion ==
  ASSUME NEW V, NEW b \in V, NEW L \in Nat, NEW G \in [V \X (1..L) -> V]
  PROVE  \E f \in [0..L -> V] : Steps(f, b, G, L)
<1> DEFINE T == {k \in 0..L : \E f \in [0..k -> V] : Steps(f, b, G, k)}
<1>1. 0 \in T
  <2> DEFINE f == [n \in 0..0 |-> b]
  <2>1. f \in [0..0 -> V] OBVIOUS
  <2>2. Steps(f, b, G, 0) BY DEF Steps
  <2> QED BY <2>1, <2>2
<1>2. ASSUME NEW k \in 1..L, k - 1 \in T PROVE k \in T
  <2>1. PICK f \in [0..(k - 1) -> V] : Steps(f, b, G, k - 1) BY <1>2
  <2> DEFINE v == G[<<f[k - 1], k>>]
             g == [n \in 0..k |-> IF n = k THEN v ELSE f[n]]
  <2>2. f[k - 1] \in V OBVIOUS
  <2>3. v \in V BY <2>2
  <2> HIDE DEF v
  <2>4. g \in [0..k -> V]
    <3>1. \A n \in 0..k : n = k \/ n \in 0..(k - 1) OBVIOUS
    <3> QED BY <2>3, <3>1
  <2>5. g[0] = b BY <2>1 DEF Steps
  <2>6. ASSUME NEW n \in 1..k PROVE g[n] = G[<<g[n - 1], n>>]
    <3>1. g[n - 1] = f[n - 1] OBVIOUS
    <3>2. CASE n = k
      <4>1. g[n] = v BY <3>2
      <4> HIDE DEF g
      <4> QED BY <3>1, <3>2, <4>1 DEF v
    <3>3. CASE n # k
      <4>1. n \in 1..(k - 1) BY <3>3
      <4>2. g[n] = f[n] BY <3>3
      <4> QED BY <2>1, <3>1, <4>1, <4>2 DEF Steps
    <3> QED BY <3>2, <3>3
  <2>7. Steps(g, b, G, k) BY <2>5, <2>6 DEF Steps
  <2> HIDE DEF g
  <2> QED BY <2>4, <2>7
<1>3. 0..L \subseteq T
  <2> HIDE DEF T
  <2> QED BY <1>1, <1>2, Upward
<1> QED BY <1>3

-----------------------------------------------------------------------------
(* Named.                                                                  *)

\* What the properties picked so far, s, have to do with the first k ones.
PickedFrom(s, props, names, k) ==
  /\ \A i \in DOMAIN s : \E n \in 1..k : props[n].name \in names /\ s[i] = props[n]
  /\ \A n \in 1..k : props[n].name \in names => \E i \in DOMAIN s : s[i] = props[n]

NoTwo(props, names) ==
  \A m, n \in DOMAIN props :
    props[m].name = props[n].name /\ props[n].name \in names => m = n

LEMMA PickedAppend ==
  ASSUME NEW S, NEW props \in Seq(S), NEW names, NEW k \in 1..Len(props), NEW s \in Seq(S),
         PickedFrom(s, props, names, k - 1), NoTwo(props, names) => NoTwo(s, names),
         props[k].name \in names
  PROVE  /\ Append(s, props[k]) \in Seq(S)
         /\ PickedFrom(Append(s, props[k]), props, names, k)
         /\ NoTwo(props, names) => NoTwo(Append(s, props[k]), names)
<1> DEFINE e == props[k]
           t == Append(s, e)
<1>1. e \in S /\ Len(s) \in Nat /\ DOMAIN s = 1..Len(s) BY LenProperties, ElementOfSeq
<1>2. /\ t \in Seq(S) /\ DOMAIN t = 1..(Len(s) + 1) /\ t[Len(s) + 1] = e
      /\ \A i \in 1..Len(s) : t[i] = s[i]
  BY <1>1, AppendProperties, LenProperties
<1> HIDE DEF t
<1>3. ASSUME NEW i \in DOMAIN t
      PROVE  \E n \in 1..k : props[n].name \in names /\ t[i] = props[n]
  <2>1. CASE i = Len(s) + 1 BY <1>2, <2>1
  <2>2. CASE i \in DOMAIN s BY <1>1, <1>2, <2>2 DEF PickedFrom
  <2> QED BY <1>1, <1>2, <2>1, <2>2
<1>4. ASSUME NEW n \in 1..k, props[n].name \in names
      PROVE  \E i \in DOMAIN t : t[i] = props[n]
  <2>1. CASE n = k BY <1>1, <1>2, <2>1
  <2>2. CASE n # k
    <3>1. PICK i \in DOMAIN s : s[i] = props[n] BY <1>4, <2>2 DEF PickedFrom
    <3> QED BY <1>1, <1>2, <3>1
  <2> QED BY <2>1, <2>2
<1>5. ASSUME NoTwo(props, names) PROVE NoTwo(t, names)
  <2>1. ASSUME NEW i \in DOMAIN s PROVE s[i].name # e.name
    <3>1. PICK n \in 1..(k - 1) : props[n].name \in names /\ s[i] = props[n] BY DEF PickedFrom
    <3>2. n \in DOMAIN props /\ k \in DOMAIN props /\ n # k BY LenProperties
    <3> QED BY <1>5, <3>1, <3>2 DEF NoTwo
  <2>2. ASSUME NEW i \in DOMAIN t, NEW j \in DOMAIN t, t[i].name = t[j].name, t[j].name \in names
        PROVE  i = j
    <3>1. CASE i \in DOMAIN s /\ j \in DOMAIN s BY <1>1, <1>2, <1>5, <2>2, <3>1 DEF NoTwo
    <3>2. CASE i = Len(s) + 1 /\ j \in DOMAIN s BY <1>1, <1>2, <2>1, <2>2, <3>2
    <3>3. CASE j = Len(s) + 1 /\ i \in DOMAIN s BY <1>1, <1>2, <2>1, <2>2, <3>3
    <3> QED BY <1>1, <1>2, <3>1, <3>2, <3>3
  <2> QED BY <2>2 DEF NoTwo
<1> QED BY <1>2, <1>3, <1>4, <1>5 DEF PickedFrom, t

\* Named picks exactly the properties with one of the names, each of them once.
LEMMA NamedPicks ==
  ASSUME NEW S, NEW props \in Seq(S), NEW names
  PROVE  /\ Named(props, names) \in Seq(S)
         /\ PickedFrom(Named(props, names), props, names, Len(props))
         /\ NoTwo(props, names) => NoTwo(Named(props, names), names)
<1> DEFINE L == Len(props)
           Def(f) == [n \in 0..L |->
                        IF n = 0 THEN <<>>
                        ELSE IF props[n].name \in names THEN Append(f[n - 1], props[n])
                        ELSE f[n - 1]]
           upTo == CHOOSE f : f = Def(f)
<1>1. L \in Nat /\ DOMAIN props = 1..L /\ \A n \in 1..L : props[n] \in S
  BY LenProperties, ElementOfSeq
<1>2. Named(props, names) = upTo[L] BY DEF Named
<1> HIDE DEF L
<1>3. \E f : f = Def(f)
  <2> DEFINE G == [x \in Seq(S) \X (1..L) |->
                     IF props[x[2]].name \in names THEN Append(x[1], props[x[2]]) ELSE x[1]]
  <2>1. G \in [Seq(S) \X (1..L) -> Seq(S)]
    <3>1. ASSUME NEW x \in Seq(S) \X (1..L) PROVE Append(x[1], props[x[2]]) \in Seq(S)
      BY <1>1, AppendProperties
    <3> QED BY <3>1
  <2>2. <<>> \in Seq(S) OBVIOUS
  <2>3. PICK f \in [0..L -> Seq(S)] : Steps(f, <<>>, G, L)
    <3> HIDE DEF G
    <3> QED BY <1>1, <2>1, <2>2, Recursion
  <2>4. ASSUME NEW n \in 1..L
        PROVE  f[n] = IF props[n].name \in names THEN Append(f[n - 1], props[n]) ELSE f[n - 1]
    <3>1. n - 1 \in 0..L BY <1>1
    <3>2. <<f[n - 1], n>> \in Seq(S) \X (1..L) BY <3>1
    <3>3. f[n] = G[<<f[n - 1], n>>] BY <2>3 DEF Steps
    <3> QED BY <3>2, <3>3
  <2>5. f[0] = <<>> BY <2>3 DEF Steps
  <2>6. ASSUME NEW n \in 0..L PROVE f[n] = Def(f)[n]
    <3>1. n = 0 \/ n \in 1..L BY <1>1
    <3> QED BY <2>4, <2>5, <3>1
  <2>7. f = Def(f) BY <2>6
  <2> QED BY <2>7
<1>4. upTo = Def(upTo) BY <1>3
<1> HIDE DEF upTo
<1>5. upTo[0] = <<>> BY <1>1, <1>4
<1>6. ASSUME NEW k \in 1..L
      PROVE  upTo[k] = IF props[k].name \in names THEN Append(upTo[k - 1], props[k]) ELSE upTo[k - 1]
  <2>1. k \in 0..L /\ k # 0 BY <1>1
  <2>2. upTo[k] = Def(upTo)[k] BY <1>4
  <2> HIDE <1>4
  <2> QED BY <2>1, <2>2
<1> HIDE DEF Def
<1> DEFINE P(k) == /\ upTo[k] \in Seq(S)
                   /\ PickedFrom(upTo[k], props, names, k)
                   /\ NoTwo(props, names) => NoTwo(upTo[k], names)
           T == {k \in 0..L : P(k)}
<1>7. P(0) BY <1>5 DEF PickedFrom, NoTwo
<1>8. ASSUME NEW k \in 1..L, P(k - 1) PROVE P(k)
  <2>1. CASE props[k].name \in names
    <3>1. upTo[k] = Append(upTo[k - 1], props[k]) BY <1>6, <2>1
    <3>2. k \in 1..Len(props) BY DEF L
    <3> QED BY <1>8, <2>1, <3>1, <3>2, PickedAppend
  <2>2. CASE props[k].name \notin names
    <3>1. upTo[k] = upTo[k - 1] BY <1>6, <2>2
    <3>2. \A n \in 1..k : n = k \/ n \in 1..(k - 1) BY <1>1
    <3>3. 1..(k - 1) \subseteq 1..k BY <1>1
    <3>4. PickedFrom(upTo[k - 1], props, names, k) BY <1>8, <2>2, <3>2, <3>3 DEF PickedFrom
    <3> QED BY <1>8, <3>1, <3>4
  <2> QED BY <2>1, <2>2
<1>9. P(L)
  <2> HIDE DEF P
  <2>1. 0 \in T BY <1>1, <1>7
  <2>2. \A n \in 1..L : n - 1 \in T => n \in T BY <1>1, <1>8
  <2>3. 0..L \subseteq T
    <3> HIDE DEF T
    <3> QED BY <1>1, <2>1, <2>2, Upward
  <2>4. L \in 0..L BY <1>1
  <2> QED BY <2>3, <2>4
<1> QED BY <1>2, <1>9 DEF L

-----------------------------------------------------------------------------
(* Merging a schema with the stored one.                                   *)

Slots == [name : Property \cup {None}, type : Types]

\* No property has two slots.
OneSlotEach(props) ==
  \A m, n \in DOMAIN props : props[m].name = props[n].name => m = n \/ props[n].name = None

\* The slot that has a property's name is the one whose type and offset are
\* found under it.
LEMMA SlotFound ==
  ASSUME NEW props \in Seq(Slots), OneSlotEach(props),
         NEW n \in DOMAIN props, props[n].name # None
  PROVE  /\ TypeIn(props, props[n].name) = props[n].type
         /\ Offset(props, props[n].name) = n - 1
<1>1. (CHOOSE m \in DOMAIN props : props[m].name = props[n].name) = n
  BY DEF OneSlotEach
<1> QED BY <1>1 DEF TypeIn, Offset

\* Every live property has a slot.
LEMMA SlotOf ==
  ASSUME NEW props, NEW p \in Live(props)
  PROVE  \E n \in DOMAIN props : props[n].name = p /\ p # None
BY DEF Live

LEMMA VerifiedFacts ==
  ASSUME NEW new, Verified(new)
  PROVE  /\ new.props \in Seq(Slots) /\ OneSlotEach(new.props)
         /\ \A n \in DOMAIN new.props : new.props[n].name \in Live(new.props)
<1>1. None \notin Property BY MigrationAssumption
<1>2. new.props \in Seq([name : Property, type : Types]) BY DEF Verified
<1>3. [name : Property, type : Types] \subseteq Slots BY DEF Slots
<1>4. new.props \in Seq(Slots) BY <1>2, <1>3, SeqMonotonic
<1>5. \A n \in DOMAIN new.props : new.props[n].name \in Property
  <2>1. DOMAIN new.props = 1..Len(new.props) BY <1>4, LenProperties
  <2>2. \A n \in DOMAIN new.props : new.props[n] \in [name : Property, type : Types]
    BY <1>2, <2>1, ElementOfSeq
  <2> QED BY <2>2
<1> QED BY <1>1, <1>4, <1>5 DEF Verified, OneSlotEach, Live

LEMMA SavedFacts ==
  ASSUME NEW old, Saved(old)
  PROVE  /\ old.props \in Seq(Slots) /\ OneSlotEach(old.props)
         /\ DOMAIN old.props = 1..Len(old.props) /\ Len(old.props) \in Nat
         /\ \A n \in DOMAIN old.props : old.props[n] \in Slots
<1>1. old.props \in Seq(Slots) BY DEF Saved, Slots
<1> QED BY <1>1, LenProperties, ElementOfSeq DEF Saved, OneSlotEach

\* The properties that get a new slot: those of the new schema that have none
\* or one of another type, with the type the new schema gives them.
LEMMA AddedSlots ==
  ASSUME NEW new, NEW old, Verified(new), Saved(old)
  PROVE  LET A == AddProperties(new, old)
             stays == Live(old.props) \ DropProperties(new, old)
         IN /\ A \in Seq(Slots)
            /\ \A k \in DOMAIN A : /\ A[k].name \in Live(new.props) \ stays
                                   /\ A[k].type = TypeIn(new.props, A[k].name)
            /\ \A j, k \in DOMAIN A : A[j].name = A[k].name => j = k
            /\ \A p \in Live(new.props) \ stays : \E k \in DOMAIN A : A[k].name = p
<1> DEFINE live == Live(new.props)
           was  == Live(old.props)
           drop == DropProperties(new, old)
           back == live \cap drop
           R == Named(old.props, back)
           Q == [n \in DOMAIN R |-> [name |-> R[n].name, type |-> TypeIn(new.props, R[n].name)]]
           N == Named(new.props, live \ was)
           A == AddProperties(new, old)
<1>1. A = Q \o N BY DEF AddProperties
<1>2. /\ new.props \in Seq(Slots) /\ OneSlotEach(new.props) /\ old.props \in Seq(Slots)
      /\ OneSlotEach(old.props) /\ \A n \in DOMAIN new.props : new.props[n].name \in live
  BY VerifiedFacts, SavedFacts
<1>3. None \notin live /\ None \notin was /\ drop \subseteq was
  BY DEF Live, DropProperties
<1>4. /\ R \in Seq(Slots) /\ PickedFrom(R, old.props, back, Len(old.props)) /\ NoTwo(R, back)
  <2>1. NoTwo(old.props, back) BY <1>2, <1>3 DEF NoTwo, OneSlotEach
  <2> QED BY <1>2, <2>1, NamedPicks
<1>5. /\ N \in Seq(Slots) /\ PickedFrom(N, new.props, live \ was, Len(new.props))
      /\ NoTwo(N, live \ was)
  <2>1. NoTwo(new.props, live \ was) BY <1>2, <1>3 DEF NoTwo, OneSlotEach
  <2> QED BY <1>2, <2>1, NamedPicks
<1>6. /\ Len(R) \in Nat /\ DOMAIN R = 1..Len(R) /\ Len(N) \in Nat /\ DOMAIN N = 1..Len(N)
      /\ DOMAIN old.props = 1..Len(old.props) /\ DOMAIN new.props = 1..Len(new.props)
  BY <1>2, <1>4, <1>5, LenProperties
<1> HIDE DEF R, N, A, drop, live, was
<1>7. ASSUME NEW p \in live
      PROVE  \E n \in DOMAIN new.props : new.props[n].name = p /\ TypeIn(new.props, p) = new.props[n].type
  <2>1. PICK n \in DOMAIN new.props : new.props[n].name = p /\ p # None BY SlotOf DEF live
  <2> QED BY <1>2, <2>1, SlotFound
<1>8. \A n \in DOMAIN R : R[n].name \in back BY <1>4 DEF PickedFrom
<1>9. \A n \in DOMAIN N : /\ N[n].name \in live \ was /\ N[n].type = TypeIn(new.props, N[n].name)
  <2>1. ASSUME NEW n \in DOMAIN N PROVE N[n].name \in live \ was /\ N[n].type = TypeIn(new.props, N[n].name)
    <3>1. PICK m \in 1..Len(new.props) : new.props[m].name \in live \ was /\ N[n] = new.props[m]
      BY <1>5 DEF PickedFrom
    <3> QED BY <1>2, <1>3, <1>6, <3>1, SlotFound
  <2> QED BY <2>1
<1>10. Q \in Seq(Slots)
  <2>1. ASSUME NEW n \in 1..Len(R)
        PROVE  [name |-> R[n].name, type |-> TypeIn(new.props, R[n].name)] \in Slots
    <3>1. R[n].name \in live BY <1>6, <1>8
    <3>2. PICK m \in DOMAIN new.props :
            new.props[m].name = R[n].name /\ TypeIn(new.props, R[n].name) = new.props[m].type
      BY <1>7, <3>1
    <3>3. new.props[m] \in Slots BY <1>2, <1>6, ElementOfSeq
    <3> QED BY <3>2, <3>3 DEF Slots
  <2> QED BY <1>6, <2>1
<1>11. Len(Q) = Len(R) BY <1>6, <1>10, LenProperties
<1> DEFINE r == Len(R)
           s == Len(N)
<1>12. /\ A \in Seq(Slots) /\ DOMAIN A = 1..(r + s)
       /\ \A i \in 1..(r + s) : A[i] = IF i <= r THEN Q[i] ELSE N[i - r]
  <2>1. /\ Q \o N \in Seq(Slots) /\ Len(Q \o N) = r + s
        /\ \A i \in 1..(r + s) : (Q \o N)[i] = IF i <= r THEN Q[i] ELSE N[i - r]
    <3> HIDE DEF Q
    <3>1. /\ Q \o N \in Seq(Slots) /\ Len(Q \o N) = Len(Q) + Len(N)
          /\ \A i \in 1..(Len(Q) + Len(N)) :
               (Q \o N)[i] = IF i <= Len(Q) THEN Q[i] ELSE N[i - Len(Q)]
      BY <1>5, <1>10, ConcatProperties
    <3> QED BY <1>11, <3>1
  <2> QED BY <1>1, <2>1, LenProperties
<1>13. r \in Nat /\ s \in Nat /\ DOMAIN R = 1..r /\ DOMAIN N = 1..s BY <1>6
<1> HIDE DEF r, s
<1>14. ASSUME NEW k \in 1..(r + s)
       PROVE  \/ /\ k \in DOMAIN R /\ A[k].name = R[k].name
                 /\ A[k].type = TypeIn(new.props, A[k].name)
              \/ k > r /\ k - r \in DOMAIN N /\ A[k] = N[k - r]
  <2>1. CASE k <= r BY <1>12, <1>13, <2>1
  <2>2. CASE k > r BY <1>12, <1>13, <2>2
  <2> QED BY <1>13, <2>1, <2>2
<1> HIDE DEF Q
<1>15. ASSUME NEW k \in DOMAIN A
       PROVE  A[k].name \in live \ (was \ drop) /\ A[k].type = TypeIn(new.props, A[k].name)
  BY <1>8, <1>9, <1>12, <1>14
<1>16. ASSUME NEW j \in DOMAIN A, NEW k \in DOMAIN A, A[j].name = A[k].name PROVE j = k
  <2>1. CASE j \in DOMAIN R /\ A[j].name = R[j].name /\ k \in DOMAIN R /\ A[k].name = R[k].name
    BY <1>4, <1>8, <1>16, <2>1 DEF NoTwo
  <2>2. CASE j > r /\ k > r /\ j - r \in DOMAIN N /\ A[j] = N[j - r] /\ k - r \in DOMAIN N /\ A[k] = N[k - r]
    <3>1. j - r = k - r BY <1>5, <1>9, <1>16, <2>2 DEF NoTwo
    <3> QED BY <1>12, <1>13, <3>1
  <2>3. \A m \in DOMAIN R, n \in DOMAIN N : R[m].name # N[n].name BY <1>3, <1>8, <1>9
  <2> QED BY <1>12, <1>14, <1>16, <2>1, <2>2, <2>3
<1>17. ASSUME NEW p \in live \ (was \ drop) PROVE \E k \in DOMAIN A : A[k].name = p
  <2>1. CASE p \in drop
    <3>1. PICK n \in DOMAIN old.props : old.props[n].name = p
      BY <1>3, <2>1, SlotOf DEF was
    <3>2. PICK i \in DOMAIN R : R[i] = old.props[n] BY <1>4, <1>6, <2>1, <3>1 DEF PickedFrom
    <3>3. i \in DOMAIN A /\ i <= r BY <1>12, <1>13
    <3>4. A[i].name = R[i].name BY <1>12, <1>13, <3>3 DEF Q
    <3> QED BY <3>1, <3>2, <3>3, <3>4
  <2>2. CASE p \notin was
    <3>1. PICK n \in DOMAIN new.props : new.props[n].name = p BY SlotOf DEF live
    <3>2. PICK i \in DOMAIN N : N[i] = new.props[n] BY <1>5, <1>6, <2>2, <3>1 DEF PickedFrom
    <3>3. i + r \in 1..(r + s) /\ ~(i + r <= r) /\ (i + r) - r = i BY <1>13
    <3>4. A[i + r] = N[i] BY <1>12, <3>3
    <3> QED BY <1>12, <3>1, <3>2, <3>3, <3>4
  <2> QED BY <2>1, <2>2
<1> QED BY <1>12, <1>15, <1>16, <1>17 DEF A, live, was, drop

\* A property that is in both schemas with the same type.
Stays(new, old) == Live(old.props) \ DropProperties(new, old)

\* The layout of the merged schema: the old slots first, each with its type
\* and with its name or none; then one slot for every property that has none.
LEMMA MergedSlots ==
  ASSUME NEW new, NEW old, Verified(new), Saved(old)
  PROVE  LET M == MergedProperties(new, old)
         IN /\ M \in Seq(Slots) /\ OneSlotEach(M) /\ Live(M) = Live(new.props)
            /\ DOMAIN old.props \subseteq DOMAIN M
            /\ \A n \in DOMAIN old.props :
                 /\ M[n].type = old.props[n].type
                 /\ M[n].name = IF old.props[n].name \in Stays(new, old)
                                THEN old.props[n].name ELSE None
            /\ \A n \in DOMAIN M \ DOMAIN old.props :
                 n > Len(old.props) /\ M[n].name \in Live(new.props) \ Stays(new, old)
            /\ \A n \in DOMAIN M : M[n].name # None => M[n].type = TypeIn(new.props, M[n].name)
<1> DEFINE live  == Live(new.props)
           stays == Stays(new, old)
           l == Len(old.props)
           O == [n \in DOMAIN old.props |->
                   IF old.props[n].name \in DropProperties(new, old)
                   THEN [old.props[n] EXCEPT !.name = None] ELSE old.props[n]]
           A == AddProperties(new, old)
           a == Len(A)
           M == MergedProperties(new, old)
<1>1. M = O \o A BY DEF MergedProperties
<1>2. /\ old.props \in Seq(Slots) /\ OneSlotEach(old.props) /\ DOMAIN old.props = 1..l
      /\ l \in Nat /\ \A n \in 1..l : old.props[n] \in Slots
  BY SavedFacts
<1>3. /\ A \in Seq(Slots)
      /\ \A k \in DOMAIN A : A[k].name \in live \ stays /\ A[k].type = TypeIn(new.props, A[k].name)
      /\ \A j, k \in DOMAIN A : A[j].name = A[k].name => j = k
      /\ \A p \in live \ stays : \E k \in DOMAIN A : A[k].name = p
  BY AddedSlots DEF Stays
<1>4. a \in Nat /\ DOMAIN A = 1..a BY <1>3, LenProperties
<1>5. None \notin live /\ None \notin stays BY DEF Live, Stays
<1>6. ASSUME NEW p \in stays
      PROVE  /\ p \in live /\ TypeIn(new.props, p) = TypeIn(old.props, p)
             /\ \E n \in 1..l : old.props[n].name = p
  <2>1. p \in Live(old.props) /\ p \notin DropProperties(new, old) BY DEF Stays
  <2>2. p \in live /\ TypeIn(new.props, p) = TypeIn(old.props, p) BY <2>1 DEF DropProperties
  <2> QED BY <1>2, <2>1, <2>2, SlotOf
<1>7. ASSUME NEW n \in 1..l
      PROVE  /\ O[n] \in Slots /\ O[n].type = old.props[n].type
             /\ O[n].name = IF old.props[n].name \in stays THEN old.props[n].name ELSE None
  <2>1. O[n] = IF old.props[n].name \in DropProperties(new, old)
               THEN [old.props[n] EXCEPT !.name = None] ELSE old.props[n]
    BY <1>2
  <2>2. old.props[n].name \in DropProperties(new, old) => old.props[n].name \notin stays BY DEF Stays
  <2>3. old.props[n].name \notin DropProperties(new, old) =>
          old.props[n].name \in stays \/ old.props[n].name = None
    BY <1>2 DEF Stays, Live
  <2>4. old.props[n] \in Slots BY <1>2
  <2>5. CASE old.props[n].name \in DropProperties(new, old)
    <3>1. O[n] = [name |-> None, type |-> old.props[n].type] BY <2>1, <2>4, <2>5 DEF Slots
    <3> QED BY <2>2, <2>4, <2>5, <3>1 DEF Slots
  <2>6. CASE old.props[n].name \notin DropProperties(new, old)
    BY <2>1, <2>3, <2>4, <2>6
  <2> QED BY <2>5, <2>6
<1>8. O \in Seq(Slots) /\ Len(O) = l
  <2>1. O \in [1..l -> Slots] BY <1>2, <1>7
  <2> HIDE DEF O, l
  <2>2. O \in Seq(Slots) BY <1>2, <2>1
  <2>3. Len(O) \in Nat /\ 1..Len(O) = 1..l BY <2>1, <2>2, LenProperties
  <2> QED BY <1>2, <2>2, <2>3
<1> HIDE DEF O, A, M, live, stays, l
<1>9. /\ M \in Seq(Slots) /\ DOMAIN M = 1..(l + a)
      /\ \A i \in 1..(l + a) : M[i] = IF i <= l THEN O[i] ELSE A[i - l]
  <2>1. /\ O \o A \in Seq(Slots) /\ Len(O \o A) = Len(O) + Len(A)
        /\ \A i \in 1..(Len(O) + Len(A)) : (O \o A)[i] = IF i <= Len(O) THEN O[i] ELSE A[i - Len(O)]
    <3>1. O \in Seq(Slots) /\ A \in Seq(Slots) BY <1>3, <1>8
    <3> QED BY ONLY <3>1, ConcatProperties
  <2> QED BY <1>1, <1>8, <2>1, LenProperties
<1> HIDE DEF a
<1>10. \A i \in 1..l : i \in 1..(l + a) /\ M[i] = O[i] BY <1>2, <1>4, <1>9
<1>11. \A i \in 1..(l + a) : i \notin 1..l => i > l /\ i - l \in DOMAIN A /\ M[i] = A[i - l]
  BY <1>2, <1>4, <1>9
<1>12. \A k \in DOMAIN A : k + l \in 1..(l + a) /\ M[k + l] = A[k]
  <2>1. ASSUME NEW k \in DOMAIN A PROVE k + l \in 1..(l + a) /\ M[k + l] = A[k]
    <3>1. k + l \in 1..(l + a) /\ ~(k + l <= l) /\ (k + l) - l = k BY <1>2, <1>4
    <3> QED BY <1>9, <3>1
  <2> QED BY <2>1
<1>13. OneSlotEach(M)
  <2>1. ASSUME NEW m \in 1..(l + a), NEW n \in 1..(l + a), M[m].name = M[n].name, M[n].name # None
        PROVE  m = n
    <3>1. CASE m \in 1..l /\ n \in 1..l
      <4>1. M[m].name = old.props[m].name /\ M[n].name = old.props[n].name
        BY <1>7, <1>10, <2>1, <3>1
      <4> QED BY <1>2, <2>1, <3>1, <4>1 DEF OneSlotEach
    <3>2. CASE m \notin 1..l /\ n \notin 1..l
      <4>1. m - l = n - l BY <1>3, <1>11, <2>1, <3>2
      <4> QED BY <1>2, <1>4, <4>1
    <3>3. \A i \in 1..l : M[i].name # None => M[i].name \in stays BY <1>7, <1>10
    <3>4. \A i \in 1..(l + a) : i \notin 1..l => M[i].name \notin stays BY <1>3, <1>11
    <3> QED BY <2>1, <3>1, <3>2, <3>3, <3>4
  <2> QED BY <1>9, <2>1 DEF OneSlotEach
<1>14. Live(M) = live
  <2>1. ASSUME NEW i \in 1..(l + a), M[i].name # None PROVE M[i].name \in live
    <3>1. CASE i \in 1..l BY <1>6, <1>7, <1>10, <2>1, <3>1
    <3>2. CASE i \notin 1..l BY <1>3, <1>11, <3>2
    <3> QED BY <3>1, <3>2
  <2>2. ASSUME NEW p \in live PROVE \E i \in 1..(l + a) : M[i].name = p
    <3>1. CASE p \in stays
      <4>1. PICK n \in 1..l : old.props[n].name = p BY <1>6, <3>1
      <4> QED BY <1>7, <1>10, <3>1, <4>1
    <3>2. CASE p \notin stays
      <4>1. PICK k \in DOMAIN A : A[k].name = p BY <1>3, <3>2
      <4> QED BY <1>12, <4>1
    <3> QED BY <3>1, <3>2
  <2> QED BY <1>5, <1>9, <2>1, <2>2 DEF Live
<1>15. ASSUME NEW i \in 1..(l + a), M[i].name # None PROVE M[i].type = TypeIn(new.props, M[i].name)
  <2>1. CASE i \in 1..l
    <3>1. M[i].name \in stays /\ M[i].name = old.props[i].name /\ M[i].type = old.props[i].type
      BY <1>7, <1>10, <1>15, <2>1
    <3>2. TypeIn(old.props, old.props[i].name) = old.props[i].type
      BY <1>2, <1>15, <2>1, <3>1, SlotFound
    <3> QED BY <1>6, <3>1, <3>2
  <2>2. CASE i \notin 1..l BY <1>3, <1>11, <2>2
  <2> QED BY <2>1, <2>2
<1>16. \A n \in 1..l : /\ M[n].type = old.props[n].type
                       /\ M[n].name = IF old.props[n].name \in stays THEN old.props[n].name ELSE None
  BY <1>7, <1>10
<1>17. \A n \in 1..(l + a) : n \notin 1..l => n > l /\ M[n].name \in live \ stays
  BY <1>3, <1>11
<1> QED BY <1>2, <1>9, <1>10, <1>13, <1>14, <1>15, <1>16, <1>17 DEF M, live, stays, l

-----------------------------------------------------------------------------
(* Functions whose domain changes.                                         *)

LEMMA WithoutFacts ==
  ASSUME NEW f, NEW S
  PROVE  /\ DOMAIN Without(f, S) = DOMAIN f \ S
         /\ \A y \in DOMAIN f \ S : Without(f, S)[y] = f[y]
BY DEF Without

LEMMA InIndexes ==
  ASSUME NEW c, NEW indexes, NEW x
  PROVE  x \in Indexes(c, Names(indexes)) <=> \E i \in indexes : x = <<c, i.name>>
BY DEF Indexes, Names

LEMMA InAllIndexes ==
  ASSUME NEW schemas, NEW x
  PROVE  x \in AllIndexes(schemas) <=>
           \E c \in DOMAIN schemas : x \in Indexes(c, Names(schemas[c].indexes))
BY DEF AllIndexes

-----------------------------------------------------------------------------
(* The schemas.                                                            *)

\* The schemas of this opening that have been dealt with.
Ready == IF phase = "migrating" THEN 1..(step - 1) ELSE DOMAIN want

ReadyNames == {want[m].name : m \in Ready}

\* What is stored of a schema and what its collection is, after its turn.
InPlace(schema, stored, col) ==
  /\ stored.indexes = schema.indexes /\ stored.embedded = schema.embedded
  /\ Live(stored.props) = Live(schema.props)
  /\ \A p \in Live(schema.props) : TypeIn(stored.props, p) = TypeIn(schema.props, p)
  /\ col = NewCollection(schema, stored.props)

\* How far the opening is.
Progress ==
  /\ phase \in {"closed", "migrating", "open"}
  /\ phase = "closed" => want = <<>>
  /\ phase # "closed" => want \in Schemas
  /\ phase = "migrating" => step \in 1..(Len(want) + 1)
  /\ DOMAIN cols = ReadyNames
  /\ \A m \in Ready : /\ want[m].name \in DOMAIN info
                     /\ InPlace(want[m], info[want[m].name], cols[want[m].name])
  /\ phase = "open" => DOMAIN info = ReadyNames

\* What was read at the start is still in the file, but for the collections
\* that have been dealt with.
ReadIsStored ==
  phase = "migrating" =>
    /\ DOMAIN info = DOMAIN existing \cup ReadyNames
    /\ \A c \in DOMAIN existing \ ReadyNames : info[c] = existing[c]

\* The databases are those of the stored schemas.
Databases ==
  /\ DOMAIN info \subseteq Collection
  /\ \A c \in DOMAIN info : Saved(info[c])
  /\ DOMAIN dbs \subseteq DOMAIN info
  /\ \A c \in DOMAIN info : ~info[c].embedded => c \in DOMAIN dbs
  /\ DOMAIN truth = DOMAIN info
  /\ DOMAIN entries = AllIndexes(info) /\ DOMAIN written = DOMAIN entries

SchemaInv == Progress /\ ReadIsStored /\ Databases

\* The lists that an opening may have.
LEMMA WantFacts ==
  ASSUME want \in Schemas
  PROVE  /\ Len(want) \in Nat /\ DOMAIN want = 1..Len(want)
         /\ \A m, n \in DOMAIN want : want[m].name = want[n].name => m = n
         /\ \A n \in DOMAIN want : Verified(want[n])
BY MigrationAssumption

\* What MigrateCollection saves for a schema.
Layout(schema) ==
  IF schema.name \in DOMAIN existing THEN MergedProperties(schema, existing[schema.name])
  ELSE schema.props

Dropped(schema) ==
  IF schema.name \in DOMAIN existing THEN Names(DropIndexes(schema, existing[schema.name])) ELSE {}

Record(schema) ==
  [props |-> Layout(schema), indexes |-> schema.indexes, embedded |-> schema.embedded,
   version |-> FileVersion]

\* The collection in turn: its schema is as it was read, and no schema that
\* was dealt with has its name.
LEMMA InTurn ==
  ASSUME SchemaInv, phase = "migrating", step \in DOMAIN want
  PROVE  /\ Verified(want[step]) /\ want[step].name \in Collection
         /\ want \in Schemas /\ Len(want) \in Nat /\ DOMAIN want = 1..Len(want)
         /\ step \in 1..Len(want) /\ Ready = 1..(step - 1)
         /\ \A m \in Ready : m \in DOMAIN want /\ want[m].name # want[step].name
         /\ want[step].name \in DOMAIN info <=> want[step].name \in DOMAIN existing
         /\ want[step].name \in DOMAIN existing =>
              info[want[step].name] = existing[want[step].name] /\ Saved(existing[want[step].name])
<1>1. want \in Schemas BY DEF SchemaInv, Progress
<1>2. /\ Len(want) \in Nat /\ DOMAIN want = 1..Len(want) /\ Verified(want[step])
      /\ \A m, n \in DOMAIN want : want[m].name = want[n].name => m = n
  BY <1>1, WantFacts
<1>3. Ready = 1..(step - 1) BY DEF Ready
<1>4. \A m \in Ready : m \in DOMAIN want /\ m # step BY <1>2, <1>3
<1>5. want[step].name \notin ReadyNames BY <1>2, <1>4 DEF ReadyNames
<1>6. want[step].name \in DOMAIN info <=> want[step].name \in DOMAIN existing
  BY <1>5 DEF SchemaInv, ReadIsStored
<1>7. want[step].name \in DOMAIN existing =>
        info[want[step].name] = existing[want[step].name] /\ Saved(existing[want[step].name])
  BY <1>5, <1>6 DEF SchemaInv, ReadIsStored, Databases
<1> QED BY <1>1, <1>2, <1>3, <1>4, <1>6, <1>7 DEF Verified

\* The record that is saved is in order, and says of every property what the
\* application's schema says.
LEMMA SavedInTurn ==
  ASSUME SchemaInv, phase = "migrating", step \in DOMAIN want
  PROVE  /\ Saved(Record(want[step])) /\ Live(Layout(want[step])) = Live(want[step].props)
         /\ \A p \in Live(want[step].props) :
              TypeIn(Layout(want[step]), p) = TypeIn(want[step].props, p)
<1> DEFINE schema == want[step]
           M == Layout(schema)
<1>1. Verified(schema) BY InTurn
<1>2. /\ M \in Seq(Slots) /\ OneSlotEach(M) /\ Live(M) = Live(schema.props)
      /\ \A n \in DOMAIN M : M[n].name # None => M[n].type = TypeIn(schema.props, M[n].name)
  <2>1. CASE schema.name \in DOMAIN existing
    <3>1. Saved(existing[schema.name]) BY <2>1, InTurn
    <3>2. M = MergedProperties(schema, existing[schema.name]) BY <2>1 DEF Layout
    <3> HIDE DEF M, schema
    <3> QED BY <1>1, <3>1, <3>2, MergedSlots
  <2>2. CASE schema.name \notin DOMAIN existing
    <3>1. M = schema.props BY <2>2 DEF Layout
    <3> HIDE DEF M, schema
    <3>2. M \in Seq(Slots) /\ OneSlotEach(M) BY <1>1, <3>1, VerifiedFacts
    <3> QED BY <3>1, <3>2, SlotFound
  <2> QED BY <2>1, <2>2
<1> HIDE DEF M
<1>3. ASSUME NEW p \in Live(schema.props) PROVE TypeIn(M, p) = TypeIn(schema.props, p)
  <2>1. PICK n \in DOMAIN M : M[n].name = p /\ p # None BY <1>2, SlotOf
  <2> QED BY <1>2, <2>1, SlotFound
<1>4. Saved(Record(schema))
  <2>1. /\ Record(schema).props = M /\ Record(schema).indexes = schema.indexes
        /\ Record(schema).embedded = schema.embedded
    BY DEF Record, M
  <2>2. IndexesVerified(schema) BY <1>1 DEF Verified
  <2>3. IndexesVerified(Record(schema)) BY <1>2, <2>1, <2>2 DEF IndexesVerified
  <2> QED BY <1>2, <2>1, <2>3 DEF Saved, Slots, OneSlotEach
<1> QED BY <1>2, <1>3, <1>4 DEF M

\* MigrateCollection, with names for its parts.
LEMMA MigrateParts ==
  ASSUME MigrateCollection
  PROVE  LET schema == want[step]
             c == schema.name
         IN /\ phase = "migrating" /\ step \in DOMAIN want
            /\ info' = Set(info, c, Record(schema))
            /\ dbs' = IF schema.embedded \/ c \in DOMAIN dbs THEN dbs ELSE Set(dbs, c, Nothing)
            /\ entries' = Reindexed(entries, c, schema, Dropped(schema))
            /\ cols' = Set(cols, c, NewCollection(schema, Layout(schema)))
            /\ truth' = Set(truth, c, IF c \in DOMAIN existing
                                      THEN Migrated(truth[c], schema, existing[c]) ELSE Nothing)
            /\ written' = Reindexed(written, c, schema, Dropped(schema))
            /\ step' = step + 1
            /\ UNCHANGED <<phase, want, existing, stretched, opens, writes>>
BY DEF MigrateCollection, Record, Layout, Dropped

\* The databases after a collection: the indexes that are not in its new
\* schema were among the dropped ones.
LEMMA MigrateDatabases ==
  ASSUME SchemaInv, MigrateCollection
  PROVE  Databases'
<1> DEFINE schema == want[step]
           c == schema.name
<1>1. /\ phase = "migrating" /\ step \in DOMAIN want
      /\ info' = Set(info, c, Record(schema))
      /\ dbs' = IF schema.embedded \/ c \in DOMAIN dbs THEN dbs ELSE Set(dbs, c, Nothing)
      /\ entries' = Reindexed(entries, c, schema, Dropped(schema))
      /\ DOMAIN truth' = DOMAIN truth \cup {c}
      /\ written' = Reindexed(written, c, schema, Dropped(schema))
  BY MigrateParts DEF Set
<1>2. /\ c \in Collection /\ (c \in DOMAIN info <=> c \in DOMAIN existing)
      /\ c \in DOMAIN existing => info[c] = existing[c]
  BY <1>1, InTurn
<1>3. Saved(Record(schema)) BY <1>1, SavedInTurn
<1>4. Record(schema).indexes = schema.indexes /\ Record(schema).embedded = schema.embedded
  BY DEF Record
<1> HIDE DEF schema
<1>5. /\ DOMAIN info' = DOMAIN info \cup {c} /\ info'[c] = Record(schema)
      /\ \A d \in DOMAIN info \ {c} : info'[d] = info[d]
  BY <1>1 DEF Set
<1>6. DOMAIN dbs' = DOMAIN dbs \/ DOMAIN dbs' = DOMAIN dbs \cup {c} BY <1>1 DEF Set
<1>7. ~schema.embedded => c \in DOMAIN dbs' BY <1>1 DEF Set
<1>8. DOMAIN info' \subseteq Collection /\ \A d \in DOMAIN info' : Saved(info'[d])
  BY <1>2, <1>3, <1>5 DEF SchemaInv, Databases
<1>9. /\ DOMAIN dbs' \subseteq DOMAIN info' /\ \A d \in DOMAIN info' : ~info'[d].embedded => d \in DOMAIN dbs'
  BY <1>4, <1>5, <1>6, <1>7 DEF SchemaInv, Databases
<1>10. DOMAIN truth' = DOMAIN info' BY <1>1, <1>5 DEF SchemaInv, Databases
<1>11. /\ DOMAIN entries' = (DOMAIN entries \ Indexes(c, Dropped(schema))) \cup Indexes(c, Names(schema.indexes))
       /\ DOMAIN written' = DOMAIN entries'
  BY <1>1 DEF SchemaInv, Databases, Reindexed, Without
<1>12. ASSUME NEW x PROVE x \in DOMAIN entries' <=> x \in AllIndexes(info')
  <2>1. x \in AllIndexes(info') <=>
          \/ x \in Indexes(c, Names(schema.indexes))
          \/ \E d \in DOMAIN info \ {c} : x \in Indexes(d, Names(info[d].indexes))
    BY <1>4, <1>5, InAllIndexes
  <2>2. x \in DOMAIN entries <=> \E d \in DOMAIN info : x \in Indexes(d, Names(info[d].indexes))
    BY InAllIndexes DEF SchemaInv, Databases
  <2>3. ASSUME NEW d, d # c, NEW names, x \in Indexes(d, names)
        PROVE  x \notin Indexes(c, Dropped(schema))
    BY <2>3 DEF Indexes
  <2>4. ASSUME c \in DOMAIN info, x \in Indexes(c, Names(info[c].indexes))
        PROVE  x \in Indexes(c, Dropped(schema)) \/ x \in Indexes(c, Names(schema.indexes))
    <3>1. PICK i \in existing[c].indexes : x = <<c, i.name>> BY <1>2, <2>4, InIndexes
    <3>2. Dropped(schema) = Names(DropIndexes(schema, existing[c])) BY <1>2, <2>4 DEF Dropped
    <3>3. i.name \notin Names(schema.indexes) => i \in DropIndexes(schema, existing[c])
      BY DEF DropIndexes
    <3> QED BY <3>1, <3>2, <3>3 DEF Indexes, Names
  <2> QED BY <1>11, <2>1, <2>2, <2>3, <2>4
<1>13. DOMAIN entries' = AllIndexes(info') BY <1>12
<1> QED BY <1>8, <1>9, <1>10, <1>11, <1>13 DEF Databases

LEMMA MigrateProgress ==
  ASSUME SchemaInv, MigrateCollection
  PROVE  Progress' /\ ReadIsStored'
<1> DEFINE schema == want[step]
           c == schema.name
<1>1. /\ phase = "migrating" /\ step \in DOMAIN want
      /\ info' = Set(info, c, Record(schema))
      /\ cols' = Set(cols, c, NewCollection(schema, Layout(schema)))
      /\ step' = step + 1 /\ phase' = phase /\ want' = want /\ existing' = existing
  BY MigrateParts
<1>2. /\ want \in Schemas /\ Len(want) \in Nat /\ DOMAIN want = 1..Len(want) /\ step \in 1..Len(want)
      /\ Ready = 1..(step - 1) /\ \A m \in Ready : m \in DOMAIN want /\ want[m].name # c
      /\ c \in DOMAIN info <=> c \in DOMAIN existing
  BY <1>1, InTurn
<1>3. /\ DOMAIN info' = DOMAIN info \cup {c} /\ info'[c] = Record(schema)
      /\ \A d \in DOMAIN info \ {c} : info'[d] = info[d]
      /\ DOMAIN cols' = DOMAIN cols \cup {c} /\ cols'[c] = NewCollection(schema, Layout(schema))
      /\ \A d \in DOMAIN cols \ {c} : cols'[d] = cols[d]
  BY <1>1 DEF Set
<1>4. Ready' = 1..step /\ Ready' = Ready \cup {step} BY <1>1, <1>2 DEF Ready
<1>5. ReadyNames' = ReadyNames \cup {c} BY <1>1, <1>4 DEF ReadyNames
<1>6. InPlace(schema, info'[c], cols'[c])
  <2>1. /\ Record(schema).indexes = schema.indexes /\ Record(schema).embedded = schema.embedded
        /\ Record(schema).props = Layout(schema)
    BY DEF Record
  <2>2. /\ Live(Layout(schema)) = Live(schema.props)
        /\ \A p \in Live(schema.props) : TypeIn(Layout(schema), p) = TypeIn(schema.props, p)
    BY <1>1, SavedInTurn
  <2> QED BY <1>3, <2>1, <2>2 DEF InPlace
<1>7. \A m \in Ready : want[m].name \in DOMAIN info /\ want[m].name \in DOMAIN cols
  BY DEF SchemaInv, Progress, ReadyNames
<1>8. ASSUME NEW m \in Ready'
      PROVE  want[m].name \in DOMAIN info' /\ InPlace(want[m], info'[want[m].name], cols'[want[m].name])
  <2>1. CASE m = step BY <1>3, <1>6, <2>1
  <2>2. CASE m \in Ready
    <3>1. want[m].name # c BY <1>2, <2>2
    <3>2. info'[want[m].name] = info[want[m].name] /\ cols'[want[m].name] = cols[want[m].name]
      BY <1>3, <1>7, <2>2, <3>1
    <3>3. InPlace(want[m], info[want[m].name], cols[want[m].name]) BY <2>2 DEF SchemaInv, Progress
    <3> QED BY <1>3, <1>7, <2>2, <3>2, <3>3
  <2> QED BY <1>4, <2>1, <2>2
<1>9. DOMAIN cols' = ReadyNames' BY <1>3, <1>5 DEF SchemaInv, Progress
<1>10. step + 1 \in 1..(Len(want) + 1) BY <1>2
<1>11. Progress' BY <1>1, <1>2, <1>8, <1>9, <1>10 DEF Progress
<1>12. ReadIsStored'
  <2>1. DOMAIN info' = DOMAIN existing \cup ReadyNames' BY <1>1, <1>3, <1>5 DEF SchemaInv, ReadIsStored
  <2>2. ASSUME NEW d \in DOMAIN existing \ ReadyNames' PROVE info'[d] = existing[d]
    <3>1. d # c /\ d \in DOMAIN existing \ ReadyNames BY <1>5
    <3>2. d \in DOMAIN info /\ info[d] = existing[d] BY <1>1, <3>1 DEF SchemaInv, ReadIsStored
    <3> QED BY <1>3, <3>1, <3>2
  <2> QED BY <1>1, <2>1, <2>2 DEF ReadIsStored
<1> QED BY <1>11, <1>12

\* The end of an instance, wherever it was.
LEMMA ClosedSchemas ==
  ASSUME SchemaInv, Closed, UNCHANGED <<file, known>>
  PROVE  SchemaInv'
<1>1. /\ phase' = "closed" /\ want' = <<>> /\ cols' = Nothing
      /\ info' = info /\ dbs' = dbs /\ entries' = entries /\ truth' = truth /\ written' = written
  BY DEF Closed, file, known
<1>2. Ready' = {} /\ ReadyNames' = {} BY <1>1 DEF Ready, ReadyNames
<1>3. Progress' BY <1>1, <1>2 DEF Progress, Nothing
<1>4. ReadIsStored' BY <1>1 DEF ReadIsStored
<1>5. Databases' BY <1>1 DEF SchemaInv, Databases
<1> QED BY <1>3, <1>4, <1>5 DEF SchemaInv

LEMMA StartSchemas ==
  ASSUME SchemaInv, OpenStart
  PROVE  SchemaInv'
<1>1. /\ phase' = "migrating" /\ want' \in Schemas /\ step' = 1 /\ cols' = Nothing /\ existing' = info
      /\ info' = info /\ dbs' = dbs /\ entries' = entries /\ truth' = truth /\ written' = written
  BY DEF OpenStart, file, known
<1>2. Ready' = {} /\ ReadyNames' = {} BY <1>1 DEF Ready, ReadyNames
<1>3. Len(want') \in Nat BY <1>1, MigrationAssumption
<1>4. Progress' BY <1>1, <1>2, <1>3 DEF Progress, Nothing
<1>5. ReadIsStored' BY <1>1, <1>2 DEF ReadIsStored
<1>6. Databases' BY <1>1 DEF SchemaInv, Databases
<1> QED BY <1>4, <1>5, <1>6 DEF SchemaInv

\* The end of the migration: every schema of the list is in place, and what
\* is not in the list has not changed since it was read.
LEMMA DeleteSchemas ==
  ASSUME SchemaInv, DeleteRemoved
  PROVE  SchemaInv'
<1> DEFINE listed == {want[n].name : n \in DOMAIN want}
           gone == DOMAIN existing \ listed
           lost == UNION {Indexes(c, Names(existing[c].indexes)) : c \in gone}
<1>1. /\ phase = "migrating" /\ step = Len(want) + 1
      /\ info' = Without(info, gone) /\ dbs' = Without(dbs, gone) /\ entries' = Without(entries, lost)
      /\ truth' = Without(truth, gone) /\ written' = Without(written, lost)
      /\ phase' = "open" /\ want' = want /\ cols' = cols
  BY DEF DeleteRemoved
<1>2. want \in Schemas /\ Len(want) \in Nat /\ DOMAIN want = 1..Len(want)
  BY <1>1, WantFacts DEF SchemaInv, Progress
<1>3. Ready = DOMAIN want /\ ReadyNames = listed BY <1>1, <1>2 DEF Ready, ReadyNames
<1>4. Ready' = DOMAIN want /\ ReadyNames' = listed BY <1>1 DEF Ready, ReadyNames
<1>5. /\ DOMAIN info = DOMAIN existing \cup listed
      /\ \A c \in gone : c \in DOMAIN info /\ info[c] = existing[c]
  BY <1>1, <1>3 DEF SchemaInv, ReadIsStored
<1>6. DOMAIN info' = listed /\ \A c \in listed : info'[c] = info[c]
  <2>1. DOMAIN info \ gone = listed BY <1>5
  <2> QED BY <1>1, <2>1, WithoutFacts
<1>7. Progress'
  <2>1. \A m \in DOMAIN want : want[m].name \in listed OBVIOUS
  <2>2. \A m \in DOMAIN want : InPlace(want[m], info[want[m].name], cols[want[m].name])
    BY <1>3 DEF SchemaInv, Progress
  <2>3. \A m \in DOMAIN want : InPlace(want[m], info'[want[m].name], cols[want[m].name])
    BY <1>6, <2>1, <2>2
  <2>4. DOMAIN cols = listed BY <1>3 DEF SchemaInv, Progress
  <2> HIDE DEF listed
  <2> QED BY <1>1, <1>2, <1>4, <1>6, <2>1, <2>3, <2>4 DEF Progress
<1>8. ReadIsStored' BY <1>1 DEF ReadIsStored
<1>9. ASSUME NEW x PROVE x \in DOMAIN entries \ lost <=> x \in AllIndexes(info')
  <2>1. x \in DOMAIN entries <=> \E d \in DOMAIN info : x \in Indexes(d, Names(info[d].indexes))
    BY InAllIndexes DEF SchemaInv, Databases
  <2>2. x \in AllIndexes(info') <=> \E d \in listed : x \in Indexes(d, Names(info[d].indexes))
    <3> HIDE DEF listed
    <3> QED BY <1>6, InAllIndexes
  <2>3. x \in lost <=> \E d \in gone : x \in Indexes(d, Names(info[d].indexes))
    <3> HIDE DEF gone
    <3> QED BY <1>5
  <2>4. \A d, e : x \in Indexes(d, Names(info[d].indexes)) /\ x \in Indexes(e, Names(info[e].indexes)) => d = e
    BY DEF Indexes
  <2>5. DOMAIN info = gone \cup listed /\ gone \cap listed = {} BY <1>5
  <2> HIDE DEF gone, listed, lost
  <2> QED BY <2>1, <2>2, <2>3, <2>4, <2>5
<1>10. Databases'
  <2> HIDE DEF gone, listed, lost
  <2>1. DOMAIN entries' = DOMAIN entries \ lost /\ DOMAIN written' = DOMAIN written \ lost
    BY <1>1, WithoutFacts
  <2>2. DOMAIN dbs' = DOMAIN dbs \ gone /\ DOMAIN truth' = DOMAIN truth \ gone
        /\ DOMAIN info' = DOMAIN info \ gone
    BY <1>1, WithoutFacts
  <2>3. DOMAIN entries' = AllIndexes(info') BY <1>9, <2>1
  <2>4. \A c \in DOMAIN info' : c \in DOMAIN info /\ info'[c] = info[c] BY <1>6, <2>2
  <2> QED BY <2>1, <2>2, <2>3, <2>4 DEF SchemaInv, Databases
<1> QED BY <1>7, <1>8, <1>10 DEF SchemaInv

\* A step of an open database leaves schemas and domains alone.
LEMMA SameSchemas ==
  ASSUME SchemaInv, UNCHANGED <<info, phase, want, existing, step, cols>>,
         DOMAIN dbs' = DOMAIN dbs, DOMAIN truth' = DOMAIN truth,
         DOMAIN entries' = DOMAIN entries, DOMAIN written' = DOMAIN written
  PROVE  SchemaInv'
<1>1. Ready' = Ready /\ ReadyNames' = ReadyNames BY DEF Ready, ReadyNames
<1>2. Progress' BY <1>1 DEF SchemaInv, Progress
<1>3. ReadIsStored' BY <1>1 DEF SchemaInv, ReadIsStored
<1>4. Databases' BY DEF SchemaInv, Databases
<1> QED BY <1>2, <1>3, <1>4 DEF SchemaInv

\* Every step that writes an object.
LEMMA WriteCases ==
  ASSUME Writes
  PROVE  \E c \in Collection, id \in Id :
           /\ phase = "open" /\ c \in DOMAIN cols /\ ~cols[c].embedded
           /\ \/ \E values \in Contents(c) : Put(c, id, values)
              \/ /\ id \in DOMAIN dbs[c]
                 /\ \E n \in DOMAIN cols[c].props : \E value \in Values(cols[c].props[n].type) :
                      Update(c, id, n, value)
              \/ id \in DOMAIN dbs[c] /\ Delete(c, id)
              \/ Closed /\ UNCHANGED <<file, known>>
BY DEF Writes, CanWrite, WriteDies, ProcessDies

LEMMA StoreDomains ==
  ASSUME NEW c, NEW id, NEW object, Store(c, id, object)
  PROVE  /\ UNCHANGED <<info, phase, want, existing, step, cols>>
         /\ DOMAIN dbs' = DOMAIN dbs /\ DOMAIN entries' = DOMAIN entries
         /\ DOMAIN written' = DOMAIN written
         /\ \A d \in DOMAIN dbs \ {c} : dbs'[d] = dbs[d]
         /\ c \in DOMAIN dbs =>
              dbs'[c] = Set(Without(dbs[c], Evicted(c, id, object)), id, object)
BY DEF Store, Unlisted

LEMMA WritesSchemas ==
  ASSUME SchemaInv, Writes
  PROVE  SchemaInv'
<1>1. PICK c \in Collection, id \in Id :
        \/ \E values \in Contents(c) : Put(c, id, values)
        \/ \E n \in DOMAIN cols[c].props : \E value \in Values(cols[c].props[n].type) :
             Update(c, id, n, value)
        \/ Delete(c, id)
        \/ Closed /\ UNCHANGED <<file, known>>
  BY WriteCases
<1>2. ASSUME NEW values \in Contents(c), Put(c, id, values) PROVE SchemaInv'
  <2>1. Store(c, id, Serialized(c, values)) /\ DOMAIN truth' = DOMAIN truth BY <1>2 DEF Put
  <2> QED BY <2>1, StoreDomains, SameSchemas
<1>3. ASSUME NEW n, NEW value, Update(c, id, n, value) PROVE SchemaInv'
  <2>1. Store(c, id, Updated(c, id, n, value)) /\ DOMAIN truth' = DOMAIN truth BY <1>3 DEF Update
  <2> QED BY <2>1, StoreDomains, SameSchemas
<1>4. CASE Delete(c, id)
  <2>1. /\ UNCHANGED <<info, phase, want, existing, step, cols>>
        /\ DOMAIN dbs' = DOMAIN dbs /\ DOMAIN truth' = DOMAIN truth
        /\ DOMAIN entries' = DOMAIN entries /\ DOMAIN written' = DOMAIN written
    BY <1>4 DEF Delete, Unlisted
  <2> QED BY <2>1, SameSchemas
<1>5. CASE Closed /\ UNCHANGED <<file, known>> BY <1>5, ClosedSchemas
<1> QED BY <1>1, <1>2, <1>3, <1>4, <1>5

LEMMA InitSchemas ==
  ASSUME Init
  PROVE  SchemaInv
<1>1. /\ info \in Files /\ phase = "closed" /\ want = <<>> /\ cols = Nothing
      /\ DOMAIN dbs = {d \in DOMAIN info : ~info[d].embedded} /\ DOMAIN truth = DOMAIN info
      /\ DOMAIN entries = AllIndexes(info) /\ written = entries
  BY DEF Init
<1>2. Ready = {} /\ ReadyNames = {} BY <1>1 DEF Ready, ReadyNames
<1>3. Progress BY <1>1, <1>2 DEF Progress, Nothing
<1>4. ReadIsStored BY <1>1 DEF ReadIsStored
<1>5. Databases BY <1>1, MigrationAssumption DEF Databases
<1> QED BY <1>3, <1>4, <1>5 DEF SchemaInv

LEMMA NextSchemas ==
  ASSUME SchemaInv, [Next]_vars
  PROVE  SchemaInv'
<1>1. CASE OpenStart BY <1>1, StartSchemas
<1>2. CASE MigrateCollection BY <1>2, MigrateDatabases, MigrateProgress DEF SchemaInv
<1>3. CASE VersionError BY <1>3, ClosedSchemas DEF VersionError
<1>4. CASE DeleteRemoved BY <1>4, DeleteSchemas
<1>5. CASE Interrupted BY <1>5, ClosedSchemas DEF Interrupted
<1>6. CASE Close BY <1>6, ClosedSchemas DEF Close
<1>7. CASE Writes BY <1>7, WritesSchemas
<1>8. CASE UNCHANGED vars BY <1>8, SameSchemas DEF vars
<1> QED BY <1>1, <1>2, <1>3, <1>4, <1>5, <1>6, <1>7, <1>8 DEF Next

LEMMA SchemasInvariant == Spec => []SchemaInv
BY InitSchemas, NextSchemas, PTL DEF Spec

\* However many openings were interrupted before, and wherever, the index
\* databases in the file are those of the stored schemas, and an opening that
\* succeeds leaves exactly the collections, properties and indexes it was
\* asked for (perform_migration, delete_collection).
THEOREM FileAsWanted == Spec => []FileIsAsWanted
<1>1. ASSUME SchemaInv PROVE FileIsAsWanted
  <2>1. DOMAIN entries = AllIndexes(info) BY <1>1 DEF SchemaInv, Databases
  <2>2. ASSUME phase = "open"
        PROVE  /\ DOMAIN info = {want[n].name : n \in DOMAIN want}
               /\ \A n \in DOMAIN want :
                    LET stored == info[want[n].name]
                    IN /\ Live(stored.props) = Live(want[n].props)
                       /\ stored.indexes = want[n].indexes
                       /\ want[n].embedded \/ want[n].name \in DOMAIN dbs
    <3>1. Ready = DOMAIN want /\ ReadyNames = {want[n].name : n \in DOMAIN want}
      BY <2>2 DEF Ready, ReadyNames
    <3>2. DOMAIN info = ReadyNames BY <1>1, <2>2 DEF SchemaInv, Progress
    <3>3. ASSUME NEW n \in DOMAIN want
          PROVE  /\ want[n].name \in DOMAIN info
                 /\ InPlace(want[n], info[want[n].name], cols[want[n].name])
                 /\ ~info[want[n].name].embedded => want[n].name \in DOMAIN dbs
      BY <1>1, <3>1 DEF SchemaInv, Progress, Databases
    <3> QED BY <3>1, <3>2, <3>3 DEF InPlace
  <2> QED BY <2>1, <2>2 DEF FileIsAsWanted
<1> QED BY <1>1, SchemasInvariant, PTL

\* As long as a collection is in the file its slots keep their type and their
\* property, in every step of every opening: what makes it safe to leave the
\* objects as they were written (migrate_collection).
THEOREM SlotsKept == Spec => SlotsAreKept
<1> DEFINE Kept(c) == \A n \in DOMAIN info[c].props :
                        LET now == info'[c].props
                        IN /\ n \in DOMAIN now
                           /\ now[n].type = info[c].props[n].type
                           /\ now[n].name \in {info[c].props[n].name, None}
<1>1. ASSUME SchemaInv, [Next]_vars PROVE [\A c \in DOMAIN info \cap DOMAIN info' : Kept(c)]_vars
  <2> SUFFICES ASSUME NEW c \in DOMAIN info \cap DOMAIN info' PROVE Kept(c) OBVIOUS
  <2>1. ASSUME info'[c] = info[c] PROVE Kept(c) BY <2>1
  <2>2. CASE UNCHANGED info BY <2>1, <2>2
  <2>3. CASE MigrateCollection
    <3>1. CASE c = want[step].name
      <4>1. info'[c] = Record(want[step]) BY <2>3, <3>1, MigrateParts DEF Set
      <4>2. /\ Verified(want[step]) /\ c \in DOMAIN existing /\ info[c] = existing[c] /\ Saved(existing[c])
        BY <1>1, <2>3, <3>1, InTurn, MigrateParts
      <4>3. info'[c].props = MergedProperties(want[step], existing[c])
        BY <3>1, <4>1, <4>2 DEF Record, Layout
      <4> QED BY <4>2, <4>3, MergedSlots
    <3>2. CASE c # want[step].name
      <4>1. info' = Set(info, want[step].name, Record(want[step])) BY <2>3, MigrateParts
      <4>2. info'[c] = info[c] BY <3>2, <4>1 DEF Set
      <4> QED BY <2>1, <4>2
    <3> QED BY <3>1, <3>2
  <2>4. CASE DeleteRemoved
    <3>1. info'[c] = info[c] BY <2>4 DEF DeleteRemoved, Without
    <3> QED BY <2>1, <3>1
  <2>5. CASE Writes
    <3>1. PICK d \in Collection, id \in Id :
            \/ \E values \in Contents(d) : Put(d, id, values)
            \/ \E n \in DOMAIN cols[d].props : \E value \in Values(cols[d].props[n].type) :
                 Update(d, id, n, value)
            \/ Delete(d, id)
            \/ UNCHANGED info
      BY <2>5, WriteCases DEF file
    <3>2. \A values : Put(d, id, values) => UNCHANGED info BY DEF Put, Store
    <3>3. \A n, value : Update(d, id, n, value) => UNCHANGED info BY DEF Update, Store
    <3>4. Delete(d, id) => UNCHANGED info BY DEF Delete
    <3>5. UNCHANGED info BY <3>1, <3>2, <3>3, <3>4
    <3> QED BY <2>2, <3>5
  <2> QED BY <1>1, <2>2, <2>3, <2>4, <2>5
        DEF Next, OpenStart, VersionError, Interrupted, Close, file, vars
<1> QED BY <1>1, SchemasInvariant, PTL DEF SlotsAreKept, Spec

-----------------------------------------------------------------------------
(***************************************************************************)
(* What the objects and indexes of a native database hold, through any     *)
(* number of openings with other schemas.                                  *)
(*                                                                         *)
(* From the bytes up: an object is a static section, one cell for a slot,  *)
(* and strings behind it, to which the cells refer.  It is Sound under a   *)
(* layout when every cell of a string slot that has a name refers to a     *)
(* string in the object and no two of these overlap.  A write to one slot  *)
(* keeps an object sound and changes only what that slot reads (Wrote);    *)
(* the merge of two schemas keeps every object sound and what each staying *)
(* property reads (MigratedObject).  So the objects read as ObjectsInv     *)
(* says, and the indexes, whose keys depend only on what is read, list     *)
(* what IndexInv says.                                                     *)
(***************************************************************************)

-----------------------------------------------------------------------------
(* Objects.                                                                *)

\* An object with a static section of z cells.
Obj(z, s) == [size |-> z, cells |-> s]

\* Slot n is in the static section, has a property and refers to a string.
Refers(z, s, slots, n) ==
  n <= z /\ slots[n].name # None /\ slots[n].type = "string" /\ s[n] # 0

\* The string of slot n has l characters and is at `at', behind the static
\* section and in the object.
Points(z, s, n, at, l) ==
  s[n] = at /\ z <= at /\ s[at + 1] = l /\ at + 1 + l <= Len(s)

\* All strings are there, and none of them lies in another one.
Strung(z, s, slots) ==
  /\ \A n \in DOMAIN slots :
       Refers(z, s, slots, n) => \E at, l \in Nat : Points(z, s, n, at, l)
  /\ \A m, n \in DOMAIN slots : \A at, l, at2, l2 \in Nat :
       /\ m # n /\ Refers(z, s, slots, m) /\ Refers(z, s, slots, n)
       /\ Points(z, s, m, at, l) /\ Points(z, s, n, at2, l2)
       => at + 1 + l <= at2 \/ at2 + 1 + l2 <= at

LEMMA SubSeqSame ==
  ASSUME NEW s \in Seq(Nat), NEW t \in Seq(Nat), NEW a \in Nat, NEW b \in Nat,
         \A i \in a..b : s[i] \in Nat /\ t[i] = s[i]
  PROVE  SubSeq(t, a, b) = SubSeq(s, a, b)
<1>1. /\ SubSeq(s, a, b) \in Seq(Nat) /\ Len(SubSeq(s, a, b)) = IF a <= b THEN b - a + 1 ELSE 0
      /\ \A i \in 1..(b - a + 1) : SubSeq(s, a, b)[i] = s[a + i - 1]
  BY SubSeqProperties
<1>2. /\ SubSeq(t, a, b) \in Seq(Nat) /\ Len(SubSeq(t, a, b)) = IF a <= b THEN b - a + 1 ELSE 0
      /\ \A i \in 1..(b - a + 1) : SubSeq(t, a, b)[i] = t[a + i - 1]
  <2>1. \A i \in a..b : t[i] \in Nat OBVIOUS
  <2> QED BY <2>1, SubSeqProperties
<1>3. \A i \in 1..Len(SubSeq(t, a, b)) : SubSeq(t, a, b)[i] = SubSeq(s, a, b)[i]
  <2>1. ASSUME NEW i \in 1..Len(SubSeq(t, a, b)) PROVE SubSeq(t, a, b)[i] = SubSeq(s, a, b)[i]
    <3>1. i \in 1..(b - a + 1) /\ a + i - 1 \in a..b BY <1>2
    <3>2. t[a + i - 1] = s[a + i - 1] BY <3>1
    <3> QED BY <1>1, <1>2, <3>1, <3>2
  <2> QED BY <2>1
<1>4. Len(SubSeq(t, a, b)) = Len(SubSeq(s, a, b)) BY <1>1, <1>2
<1> QED BY <1>1, <1>2, <1>3, <1>4, SeqEqual

\* A cell of a sequence.
LEMMA Cell ==
  ASSUME NEW s \in Seq(Nat), NEW i \in 1..Len(s)
  PROVE  s[i] \in Nat
BY ElementOfSeq

\* How a cell of the static section is read.
LEMMA ReadIs ==
  ASSUME NEW z \in Nat, NEW s \in Seq(Nat), NEW n \in 1..z, z <= Len(s)
  PROVE  /\ s[n] \in Nat
         /\ Read(Obj(z, s), n - 1, "int") = IF s[n] # NullInt THEN s[n] ELSE Null
         /\ s[n] = 0 => Read(Obj(z, s), n - 1, "string") = Null
<1>1. /\ (n - 1) + 1 = n /\ ContainsOffset(Obj(z, s), n - 1)
      /\ Obj(z, s).cells = s
  BY DEF ContainsOffset, Obj
<1>2. Len(s) \in Nat BY LenProperties
<1>3. n \in 1..Len(s) BY <1>2
<1>4. s[n] \in Nat BY <1>3, Cell
<1>5. Read(Obj(z, s), n - 1, "int") = IF s[n] # NullInt THEN s[n] ELSE Null
  BY <1>1 DEF Read, ReadInt
<1>6. s[n] = 0 => Read(Obj(z, s), n - 1, "string") = Null
  BY <1>1 DEF Read, ReadString
<1> QED BY <1>4, <1>5, <1>6

StringIs(z, s, n, at, l) == Read(Obj(z, s), n - 1, "string") = SubSeq(s, at + 2, at + 1 + l)

LEMMA ReadsString ==
  ASSUME NEW z \in Nat, NEW s \in Seq(Nat), NEW n \in 1..z,
         NEW at \in Nat, NEW l \in Nat, Points(z, s, n, at, l), at # 0
  PROVE  StringIs(z, s, n, at, l)
<1>1. (n - 1) + 1 = n /\ ContainsOffset(Obj(z, s), n - 1) /\ Obj(z, s).cells = s
  BY DEF ContainsOffset, Obj
<1>2. Len(s) \in Nat BY LenProperties
<1>3. s[n] = at /\ s[at + 1] = l /\ at + 1 + l <= Len(s) BY DEF Points
<1>4. ~(at + 1 > Len(s) \/ at + 1 + l > Len(s)) BY <1>2, <1>3
<1>5. ReadString(Obj(z, s), n - 1) = SubSeq(s, at + 2, at + 1 + l)
  BY <1>1, <1>3, <1>4 DEF ReadString
<1> QED BY <1>5 DEF Read, StringIs

\* Slot n of t reads what it reads in s, which depends on its cell and, if it
\* refers to one, on the cells of its string.
Undisturbed(z, s, t, n) ==
  /\ t[n] = s[n]
  /\ \A at, l \in Nat : Points(z, s, n, at, l) =>
       at + 1 + l <= Len(t) /\ \A i \in (at + 1)..(at + 1 + l) : t[i] = s[i]

LEMMA PointsKept ==
  ASSUME NEW s, NEW t, NEW z \in Nat, NEW y \in Nat, NEW n \in Nat, y <= z,
         Undisturbed(z, s, t, n), NEW at \in Nat, NEW l \in Nat, Points(z, s, n, at, l)
  PROVE  Points(y, t, n, at, l)
<1>1. /\ s[n] = at /\ z <= at /\ s[at + 1] = l /\ t[n] = s[n]
      /\ at + 1 + l <= Len(t) /\ \A i \in (at + 1)..(at + 1 + l) : t[i] = s[i]
  BY DEF Points, Undisturbed
<1>2. at + 1 \in (at + 1)..(at + 1 + l) OBVIOUS
<1>3. t[at + 1] = l BY <1>1, <1>2
<1>4. y <= at BY <1>1
<1> QED BY <1>1, <1>3, <1>4 DEF Points

LEMMA SameReading ==
  ASSUME NEW s \in Seq(Nat), NEW t \in Seq(Nat), NEW z \in Nat, NEW y \in Nat,
         NEW n \in 1..z, n <= y, z <= Len(s), y <= Len(t), y <= z,
         NEW type \in Types, Undisturbed(z, s, t, n),
         type = "string" /\ s[n] # 0 => \E at, l \in Nat : Points(z, s, n, at, l)
  PROVE  Read(Obj(y, t), n - 1, type) = Read(Obj(z, s), n - 1, type)
<1>1. n \in 1..y /\ t[n] = s[n] /\ Len(s) \in Nat BY LenProperties DEF Undisturbed
<1>2. CASE type = "int"
  <2>1. Read(Obj(z, s), n - 1, "int") = IF s[n] # NullInt THEN s[n] ELSE Null BY ReadIs
  <2>2. Read(Obj(y, t), n - 1, "int") = IF t[n] # NullInt THEN t[n] ELSE Null BY <1>1, ReadIs
  <2> QED BY <1>1, <1>2, <2>1, <2>2
<1>3. CASE type = "string" /\ s[n] = 0
  <2>1. Read(Obj(z, s), n - 1, "string") = Null BY <1>3, ReadIs
  <2>2. Read(Obj(y, t), n - 1, "string") = Null BY <1>1, <1>3, ReadIs
  <2> QED BY <1>3, <2>1, <2>2
<1>4. CASE type = "string" /\ s[n] # 0
  <2>1. PICK at \in Nat, l \in Nat : Points(z, s, n, at, l) BY <1>4
  <2>2. Points(y, t, n, at, l) /\ at # 0
    <3>1. at # 0 BY <1>4, <2>1 DEF Points
    <3> QED BY <2>1, <3>1, PointsKept
  <2>3. Read(Obj(z, s), n - 1, "string") = SubSeq(s, at + 2, at + 1 + l)
    BY <2>1, <2>2, ReadsString DEF StringIs
  <2>4. Read(Obj(y, t), n - 1, "string") = SubSeq(t, at + 2, at + 1 + l)
    BY <1>1, <2>2, ReadsString DEF StringIs
  <2>5. SubSeq(t, at + 2, at + 1 + l) = SubSeq(s, at + 2, at + 1 + l)
    <3>1. at + 2 \in Nat /\ at + 1 + l \in Nat OBVIOUS
    <3>2. at + 1 + l <= Len(s) BY <2>1 DEF Points
    <3>3. ASSUME NEW i \in (at + 2)..(at + 1 + l) PROVE s[i] \in Nat /\ t[i] = s[i]
      <4>1. i \in (at + 1)..(at + 1 + l) /\ i \in 1..Len(s) BY <1>1, <3>2
      <4>2. t[i] = s[i] BY <2>1, <4>1 DEF Undisturbed
      <4> QED BY <4>1, <4>2, Cell
    <3> QED BY <3>1, <3>3, SubSeqSame
  <2> QED BY <1>4, <2>3, <2>4, <2>5
<1> QED BY <1>2, <1>3, <1>4 DEF Types

\* The slots other than n that have a property.
Others(slots, n, z) == {m \in DOMAIN slots \ {n} : m <= z /\ slots[m].name # None}

\* A write to slot n leaves the others alone, and what n refers to after it
\* is apart from their strings.
LeftAlone(z, s, t, slots, n) ==
  /\ \A m \in Others(slots, n, z) : t[m] = s[m]
  /\ \A m \in Others(slots, n, z) : Refers(z, s, slots, m) => Undisturbed(z, s, t, m)
  /\ Refers(z, t, slots, n) =>
       \E at, l \in Nat :
         /\ Points(z, t, n, at, l)
         /\ \A m \in Others(slots, n, z) : \A at2, l2 \in Nat :
              Refers(z, s, slots, m) /\ Points(z, s, m, at2, l2) =>
                at + 1 + l <= at2 \/ at2 + 1 + l2 <= at

LEMMA OthersKept ==
  ASSUME NEW slots \in Seq(Slots), NEW z \in Nat, NEW s \in Seq(Nat), NEW t \in Seq(Nat),
         z <= Len(s), z <= Len(t), Strung(z, s, slots), NEW n \in DOMAIN slots,
         LeftAlone(z, s, t, slots, n)
  PROVE  /\ Strung(z, t, slots)
         /\ \A m \in Others(slots, n, z) :
              Read(Obj(z, t), m - 1, slots[m].type) = Read(Obj(z, s), m - 1, slots[m].type)
<1>0. /\ \A m \in Others(slots, n, z) : t[m] = s[m]
      /\ \A m \in Others(slots, n, z) : Refers(z, s, slots, m) => Undisturbed(z, s, t, m)
      /\ Refers(z, t, slots, n) =>
           \E at, l \in Nat :
             /\ Points(z, t, n, at, l)
             /\ \A m \in Others(slots, n, z) : \A at2, l2 \in Nat :
                  Refers(z, s, slots, m) /\ Points(z, s, m, at2, l2) =>
                    at + 1 + l <= at2 \/ at2 + 1 + l2 <= at
  BY DEF LeftAlone
<1>1. DOMAIN slots = 1..Len(slots) /\ Len(slots) \in Nat BY LenProperties
<1>2. ASSUME NEW m \in Others(slots, n, z), Refers(z, t, slots, m)
      PROVE  /\ Refers(z, s, slots, m)
             /\ \E at, l \in Nat : Points(z, s, m, at, l) /\ Points(z, t, m, at, l)
  <2>1. m \in DOMAIN slots /\ m \in Nat BY <1>1 DEF Others
  <2>2. Refers(z, s, slots, m) BY <1>0, <1>2 DEF Refers
  <2>3. PICK at \in Nat, l \in Nat : Points(z, s, m, at, l) BY <2>1, <2>2 DEF Strung
  <2>4. Points(z, t, m, at, l)
    <3>1. Undisturbed(z, s, t, m) BY <1>0, <2>2
    <3> QED BY <2>1, <2>3, <3>1, PointsKept
  <2> QED BY <2>2, <2>3, <2>4
<1>3. \A m \in DOMAIN slots : Refers(z, t, slots, m) => m = n \/ m \in Others(slots, n, z)
  BY DEF Others, Refers
<1>4. ASSUME NEW m \in DOMAIN slots, Refers(z, t, slots, m)
      PROVE  \E at, l \in Nat : Points(z, t, m, at, l)
  BY <1>0, <1>2, <1>3, <1>4
<1>5. \A m : \A at, l, at2, l2 : Points(z, t, m, at, l) /\ Points(z, t, m, at2, l2) => at = at2 /\ l = l2
  BY DEF Points
<1>6. ASSUME NEW i \in DOMAIN slots, NEW j \in DOMAIN slots,
             NEW at \in Nat, NEW l \in Nat, NEW at2 \in Nat, NEW l2 \in Nat,
             i # j, Refers(z, t, slots, i), Refers(z, t, slots, j),
             Points(z, t, i, at, l), Points(z, t, j, at2, l2)
      PROVE  at + 1 + l <= at2 \/ at2 + 1 + l2 <= at
  <2>1. CASE i \in Others(slots, n, z) /\ j \in Others(slots, n, z)
    <3>1. Refers(z, s, slots, i) /\ Points(z, s, i, at, l) BY <1>2, <1>5, <1>6, <2>1
    <3>2. Refers(z, s, slots, j) /\ Points(z, s, j, at2, l2) BY <1>2, <1>5, <1>6, <2>1
    <3> QED BY <1>6, <3>1, <3>2 DEF Strung
  <2>2. CASE i = n /\ j \in Others(slots, n, z)
    <3>1. Refers(z, s, slots, j) /\ Points(z, s, j, at2, l2) BY <1>2, <1>5, <1>6, <2>2
    <3> QED BY <1>0, <1>5, <1>6, <2>2, <3>1
  <2>3. CASE j = n /\ i \in Others(slots, n, z)
    <3>1. Refers(z, s, slots, i) /\ Points(z, s, i, at, l) BY <1>2, <1>5, <1>6, <2>3
    <3> QED BY <1>0, <1>5, <1>6, <2>3, <3>1
  <2>4. i = n \/ i \in Others(slots, n, z) BY <1>3, <1>6
  <2>5. j = n \/ j \in Others(slots, n, z) BY <1>3, <1>6
  <2> QED BY <1>6, <2>1, <2>2, <2>3, <2>4, <2>5
<1>7. Strung(z, t, slots)
  <2>1. \A m \in DOMAIN slots :
          Refers(z, t, slots, m) => \E at, l \in Nat : Points(z, t, m, at, l)
    BY <1>4
  <2>2. \A i, j \in DOMAIN slots : \A at, l, at2, l2 \in Nat :
          /\ i # j /\ Refers(z, t, slots, i) /\ Refers(z, t, slots, j)
          /\ Points(z, t, i, at, l) /\ Points(z, t, j, at2, l2)
          => at + 1 + l <= at2 \/ at2 + 1 + l2 <= at
    BY <1>6
  <2> QED BY ONLY <2>1, <2>2 DEF Strung
<1>8. ASSUME NEW m \in Others(slots, n, z)
      PROVE  Read(Obj(z, t), m - 1, slots[m].type) = Read(Obj(z, s), m - 1, slots[m].type)
  <2>1. m \in 1..z /\ m \in DOMAIN slots /\ slots[m].name # None BY <1>1 DEF Others
  <2>2. slots[m].type \in Types
    <3>1. slots[m] \in Slots BY <1>1, <2>1, ElementOfSeq
    <3> QED BY <3>1 DEF Slots
  <2>3. t[m] = s[m] BY <1>0
  <2>4. PICK type \in Types : type = slots[m].type BY <2>2
  <2>5. CASE type = "int"
    <3>1. Read(Obj(z, s), m - 1, "int") = IF s[m] # NullInt THEN s[m] ELSE Null BY <2>1, ReadIs
    <3>2. Read(Obj(z, t), m - 1, "int") = IF t[m] # NullInt THEN t[m] ELSE Null BY <2>1, ReadIs
    <3> QED BY <2>3, <2>4, <2>5, <3>1, <3>2
  <2>6. CASE type = "string" /\ s[m] = 0
    <3>1. Read(Obj(z, s), m - 1, "string") = Null BY <2>1, <2>6, ReadIs
    <3>2. Read(Obj(z, t), m - 1, "string") = Null BY <2>1, <2>3, <2>6, ReadIs
    <3> QED BY <2>4, <2>6, <3>1, <3>2
  <2>7. CASE type = "string" /\ s[m] # 0
    <3>1. Refers(z, s, slots, m) BY <2>1, <2>4, <2>7 DEF Refers
    <3>2. Undisturbed(z, s, t, m) /\ \E at, l \in Nat : Points(z, s, m, at, l)
      BY <1>0, <2>1, <3>1 DEF Strung
    <3>3. m <= z /\ z <= z BY <2>1
    <3>4. Read(Obj(z, t), m - 1, type) = Read(Obj(z, s), m - 1, type)
      BY <2>1, <3>2, <3>3, SameReading
    <3> QED BY <2>4, <3>4
  <2> QED BY <2>5, <2>6, <2>7 DEF Types
<1> QED BY <1>7, <1>8

\* The cells after the three ways of writing.
CellSet(z, s, n, v, t) ==
  /\ WriteStatic(Obj(z, s), n - 1, v) = Obj(z, t) /\ Len(t) = Len(s) /\ t[n] = v
  /\ \A i \in 1..Len(s) : i # n => t[i] = s[i]

LEMMA StaticCells ==
  ASSUME NEW z \in Nat, NEW s \in Seq(Nat), NEW n \in 1..z, z <= Len(s), NEW v \in Nat
  PROVE  \E t \in Seq(Nat) : CellSet(z, s, n, v, t)
<1>1. Len(s) \in Nat /\ DOMAIN s = 1..Len(s) BY LenProperties
<1>2. n \in 1..Len(s) BY <1>1
<1> DEFINE t == [s EXCEPT ![n] = v]
<1>3. t \in Seq(Nat) /\ Len(t) = Len(s) /\ \A j \in 1..Len(s) : t[j] = IF j = n THEN v ELSE s[j]
  BY <1>2, ExceptSeq
<1>4. WriteStatic(Obj(z, s), n - 1, v) = Obj(z, t)
  <2>1. WriteStatic(Obj(z, s), n - 1, v) = [Obj(z, s) EXCEPT !.cells[(n - 1) + 1] = v]
    BY DEF WriteStatic
  <2>2. (n - 1) + 1 = n OBVIOUS
  <2>3. WriteStatic(Obj(z, s), n - 1, v) = [Obj(z, s) EXCEPT !.cells = [Obj(z, s).cells EXCEPT ![n] = v]]
    BY <2>1, <2>2
  <2>4. Obj(z, s).cells = s /\ [Obj(z, s) EXCEPT !.cells = t] = Obj(z, t)
    <3> HIDE DEF t
    <3> QED BY DEF Obj
  <2> QED BY <2>3, <2>4
<1> HIDE DEF t
<1>5. CellSet(z, s, n, v, t) BY <1>2, <1>3, <1>4 DEF CellSet
<1> QED BY <1>3, <1>5

Pointed(z, s, n, data, t) ==
  /\ WriteDynamic(Obj(z, s), n - 1, data) = Obj(z, t)
  /\ Len(t) = Len(s) + 1 + Len(data) /\ t[n] = Len(s) /\ t[Len(s) + 1] = Len(data)
  /\ \A i \in 1..Len(s) : i # n => t[i] = s[i]
  /\ \A j \in 1..Len(data) : t[Len(s) + 1 + j] = data[j]

LEMMA DynamicCells ==
  ASSUME NEW z \in Nat, NEW s \in Seq(Nat), NEW n \in 1..z, z <= Len(s), NEW data \in Seq(Nat)
  PROVE  \E t \in Seq(Nat) : Pointed(z, s, n, data, t)
<1>1. PICK a \in Nat, d \in Nat : a = Len(s) /\ d = Len(data) BY LenProperties
<1>2. PICK r \in Seq(Nat) :
        /\ WriteStatic(Obj(z, s), n - 1, a) = Obj(z, r) /\ Len(r) = a /\ r[n] = a
        /\ \A i \in 1..a : i # n => r[i] = s[i]
  <2>1. a \in Nat /\ z <= Len(s) BY <1>1
  <2>2. PICK r \in Seq(Nat) : CellSet(z, s, n, a, r) BY <2>1, StaticCells
  <2> QED BY <1>1, <2>2 DEF CellSet
<1>3. WriteDynamic(Obj(z, s), n - 1, data) = Obj(z, r \o <<d>> \o data)
  <2>1. Obj(z, s).size = z /\ Obj(z, s).cells = s /\ Obj(z, r).cells = r BY DEF Obj
  <2>2. WriteDynamic(Obj(z, s), n - 1, data)
          = [size |-> z, cells |-> WriteStatic(Obj(z, s), n - 1, a).cells \o <<d>> \o data]
    BY <1>1, <2>1 DEF WriteDynamic
  <2>3. WriteStatic(Obj(z, s), n - 1, a).cells = r BY <1>2, <2>1
  <2> QED BY <2>2, <2>3 DEF Obj
<1>4. PICK q \in Seq(Nat) : q = r \o <<d>> /\ Len(q) = a + 1 /\ q[a + 1] = d
                            /\ \A i \in 1..a : q[i] = r[i]
  <2>1. Append(r, d) \in Seq(Nat) /\ Append(r, d) = r \o <<d>>
    BY AppendProperties, AppendIsConcat
  <2>2. /\ Len(Append(r, d)) = Len(r) + 1 /\ Append(r, d)[Len(r) + 1] = d
        /\ \A i \in 1..Len(r) : Append(r, d)[i] = r[i]
    BY AppendProperties
  <2> QED BY <1>2, <2>1, <2>2
<1>5. PICK t \in Seq(Nat) : /\ t = q \o data /\ Len(t) = a + 1 + d
                            /\ \A i \in 1..(a + 1 + d) :
                                 t[i] = IF i <= a + 1 THEN q[i] ELSE data[i - (a + 1)]
  <2>1. q \in Seq(Nat) /\ data \in Seq(Nat) OBVIOUS
  <2>2. /\ q \o data \in Seq(Nat) /\ Len(q \o data) = Len(q) + Len(data)
        /\ \A i \in 1..(Len(q) + Len(data)) :
             (q \o data)[i] = IF i <= Len(q) THEN q[i] ELSE data[i - Len(q)]
    BY ONLY <2>1, ConcatProperties
  <2>3. Len(q) = a + 1 /\ Len(data) = d BY <1>1, <1>4
  <2>4. PICK t : t = q \o data OBVIOUS
  <2>5. /\ t \in Seq(Nat) /\ Len(t) = a + 1 + d
        /\ \A i \in 1..(a + 1 + d) : t[i] = IF i <= a + 1 THEN q[i] ELSE data[i - (a + 1)]
    BY ONLY <2>2, <2>3, <2>4
  <2> QED BY <2>4, <2>5
<1>6. ASSUME NEW i \in 1..a PROVE t[i] = r[i]
  <2>1. i \in 1..(a + 1 + d) /\ i <= a + 1 OBVIOUS
  <2> QED BY <1>4, <1>5, <2>1
<1>7. t[a + 1] = d
  <2>1. a + 1 \in 1..(a + 1 + d) /\ a + 1 <= a + 1 OBVIOUS
  <2> QED BY <1>4, <1>5, <2>1
<1>8. ASSUME NEW j \in 1..d PROVE t[a + 1 + j] = data[j]
  <2>1. /\ a + 1 + j \in 1..(a + 1 + d) /\ ~(a + 1 + j <= a + 1)
        /\ (a + 1 + j) - (a + 1) = j
    OBVIOUS
  <2> QED BY <1>5, <2>1
<1>9. n \in 1..a BY <1>1
<1>10. WriteDynamic(Obj(z, s), n - 1, data) = Obj(z, t) BY <1>3, <1>4, <1>5
<1>11. t[n] = a /\ \A i \in 1..a : i # n => t[i] = s[i] BY <1>2, <1>6, <1>9
<1>12. Len(t) = Len(s) + 1 + Len(data) /\ t[n] = Len(s) /\ t[Len(s) + 1] = Len(data)
  BY <1>1, <1>5, <1>7, <1>11
<1>13. \A j \in 1..Len(data) : t[Len(s) + 1 + j] = data[j] BY <1>1, <1>8
<1>14. \A i \in 1..Len(s) : i # n => t[i] = s[i] BY <1>1, <1>11
<1>15. Pointed(z, s, n, data, t) BY <1>10, <1>12, <1>13, <1>14 DEF Pointed
<1> QED BY <1>15

Replaced(z, s, at, data, t) ==
  /\ Overwrite(Obj(z, s), at, data) = Obj(z, t) /\ Len(t) = Len(s)
  /\ t[at + 1] = Len(data) /\ \A j \in 1..Len(data) : t[at + 1 + j] = data[j]
  /\ \A i \in 1..Len(s) : i <= at \/ i > at + 1 + Len(data) => t[i] = s[i]

LEMMA OverwrittenCells ==
  ASSUME NEW z \in Nat, NEW s \in Seq(Nat), NEW data \in Seq(Nat), NEW at \in Nat,
         at + 1 + Len(data) <= Len(s)
  PROVE  \E t \in Seq(Nat) : Replaced(z, s, at, data, t)
<1>1. PICK a \in Nat, d \in Nat : /\ a = Len(s) /\ d = Len(data) /\ DOMAIN s = 1..a
                                  /\ DOMAIN data = 1..d
  BY LenProperties
<1> DEFINE t == [n \in 1..a |->
                   IF n = at + 1 THEN d
                   ELSE IF n - at - 1 \in 1..d THEN data[n - at - 1]
                   ELSE s[n]]
<1>2. Overwrite(Obj(z, s), at, data) = Obj(z, t) BY <1>1 DEF Overwrite, Obj
<1>3. \A n \in 1..a : t[n] \in Nat
  <2>1. \A n \in 1..a : s[n] \in Nat BY <1>1, Cell
  <2>2. \A n \in 1..d : data[n] \in Nat BY <1>1, Cell
  <2> QED BY <2>1, <2>2
<1>4. t \in [1..a -> Nat] BY <1>3
<1>5. t[at + 1] = d BY <1>1
<1>6. ASSUME NEW j \in 1..d PROVE t[at + 1 + j] = data[j]
  <2>1. at + 1 + j \in 1..a /\ at + 1 + j # at + 1 /\ (at + 1 + j) - at - 1 = j BY <1>1
  <2> QED BY <2>1
<1>7. ASSUME NEW i \in 1..a, i <= at \/ i > at + 1 + d PROVE t[i] = s[i]
  <2>1. i # at + 1 /\ i - at - 1 \notin 1..d BY <1>7
  <2> QED BY <2>1
<1> HIDE DEF t
<1>8. t \in Seq(Nat) BY <1>4
<1>9. Len(t) \in Nat /\ 1..Len(t) = 1..a BY <1>4, <1>8, LenProperties
<1>10. Len(t) = a BY <1>9
<1> QED BY <1>1, <1>2, <1>5, <1>6, <1>7, <1>8, <1>10 DEF Replaced

LEMMA SubSeqIs ==
  ASSUME NEW t \in Seq(Nat), NEW data \in Seq(Nat), NEW a \in Nat,
         \A j \in 1..Len(data) : t[a + j] = data[j]
  PROVE  SubSeq(t, a + 1, a + Len(data)) = data
<1>1. PICK d \in Nat : d = Len(data) BY LenProperties
<1>2. \A j \in 1..d : data[j] \in Nat BY <1>1, Cell
<1>3. ASSUME NEW i \in (a + 1)..(a + d) PROVE t[i] \in Nat
  <2>1. i - a \in 1..d /\ a + (i - a) = i OBVIOUS
  <2> QED BY <1>1, <1>2, <2>1
<1>4. a + 1 \in Nat /\ a + d \in Nat /\ (a + 1 <= a + d \/ d = 0) OBVIOUS
<1> DEFINE u == SubSeq(t, a + 1, a + d)
<1>5. /\ u \in Seq(Nat) /\ Len(u) = IF a + 1 <= a + d THEN (a + d) - (a + 1) + 1 ELSE 0
      /\ \A i \in 1..((a + d) - (a + 1) + 1) : u[i] = t[(a + 1) + i - 1]
  BY <1>3, <1>4, SubSeqProperties
<1> HIDE DEF u
<1>6. Len(u) = d BY <1>4, <1>5
<1>7. ASSUME NEW i \in 1..d PROVE u[i] = data[i]
  <2>1. i \in 1..((a + d) - (a + 1) + 1) /\ (a + 1) + i - 1 = a + i OBVIOUS
  <2> QED BY <1>1, <1>5, <2>1
<1>8. \A i \in 1..Len(u) : u[i] = data[i] BY <1>6, <1>7
<1>9. u = data BY <1>1, <1>5, <1>6, <1>8, SeqEqual
<1> QED BY <1>1, <1>9 DEF u

\* What a write of a value to slot n leaves in the cells t: the value, and
\* everything else as it was.
Wrote(z, s, t, slots, n, value) ==
  /\ z <= Len(t) /\ Strung(z, t, slots)
  /\ Read(Obj(z, t), n - 1, slots[n].type) = value
  /\ \A m \in Others(slots, n, z) :
       Read(Obj(z, t), m - 1, slots[m].type) = Read(Obj(z, s), m - 1, slots[m].type)

\* What a cell of the static section that holds v is read as.
CellValue(type, v) == IF type = "int" /\ v # NullInt THEN v ELSE Null

LEMMA StaticWritten ==
  ASSUME NEW slots \in Seq(Slots), NEW z \in Nat, NEW s \in Seq(Nat), z <= Len(s),
         Strung(z, s, slots), NEW n \in DOMAIN slots, n <= z, NEW v \in Nat,
         NEW type, type = slots[n].type, type = "int" \/ (type = "string" /\ v = 0)
  PROVE  \E t \in Seq(Nat) : /\ WriteStatic(Obj(z, s), n - 1, v) = Obj(z, t)
                             /\ Wrote(z, s, t, slots, n, CellValue(type, v))
<1>1. n \in 1..z /\ Len(s) \in Nat /\ DOMAIN slots = 1..Len(slots) /\ Len(slots) \in Nat
  BY LenProperties
<1>2. PICK t \in Seq(Nat) :
        /\ WriteStatic(Obj(z, s), n - 1, v) = Obj(z, t) /\ Len(t) = Len(s) /\ t[n] = v
        /\ \A i \in 1..Len(s) : i # n => t[i] = s[i]
  <2>1. PICK t \in Seq(Nat) : CellSet(z, s, n, v, t) BY <1>1, StaticCells
  <2> QED BY <2>1 DEF CellSet
<1>3. \A m \in Others(slots, n, z) : t[m] = s[m] BY <1>1, <1>2 DEF Others
<1>4. ASSUME NEW m \in Others(slots, n, z) PROVE Undisturbed(z, s, t, m)
  <2>1. ASSUME NEW at \in Nat, NEW l \in Nat, Points(z, s, m, at, l)
        PROVE  at + 1 + l <= Len(t) /\ \A i \in (at + 1)..(at + 1 + l) : t[i] = s[i]
    <3>1. z <= at /\ at + 1 + l <= Len(s) BY <2>1 DEF Points
    <3>2. \A i \in (at + 1)..(at + 1 + l) : i \in 1..Len(s) /\ i # n BY <1>1, <3>1
    <3> QED BY <1>2, <3>1, <3>2
  <2> QED BY <1>3, <2>1 DEF Undisturbed
<1>5. ~Refers(z, t, slots, n) BY <1>2 DEF Refers
<1>6. z <= Len(t) BY <1>2
<1>7. /\ Strung(z, t, slots)
      /\ \A m \in Others(slots, n, z) :
           Read(Obj(z, t), m - 1, slots[m].type) = Read(Obj(z, s), m - 1, slots[m].type)
  <2>1. LeftAlone(z, s, t, slots, n) BY <1>3, <1>4, <1>5 DEF LeftAlone
  <2> QED BY <1>6, <2>1, OthersKept
<1>8. Read(Obj(z, t), n - 1, slots[n].type) = CellValue(type, v)
  <2>1. /\ Read(Obj(z, t), n - 1, "int") = IF t[n] # NullInt THEN t[n] ELSE Null
        /\ t[n] = 0 => Read(Obj(z, t), n - 1, "string") = Null
    BY <1>1, <1>6, ReadIs
  <2>2. CASE type = "int" BY <1>2, <2>1, <2>2 DEF CellValue
  <2>3. CASE type = "string" /\ v = 0 BY <1>2, <2>1, <2>3 DEF CellValue
  <2> QED BY <2>2, <2>3
<1> QED BY <1>2, <1>6, <1>7, <1>8 DEF Wrote

\* A string at the end of the object.
LEMMA DynamicWritten ==
  ASSUME NEW slots \in Seq(Slots), NEW z \in Nat, NEW s \in Seq(Nat), z <= Len(s),
         Strung(z, s, slots), NEW n \in DOMAIN slots, n <= z, slots[n].type = "string",
         NEW data \in Seq(Nat)
  PROVE  \E t \in Seq(Nat) : /\ WriteDynamic(Obj(z, s), n - 1, data) = Obj(z, t)
                             /\ Wrote(z, s, t, slots, n, data)
<1>1. n \in 1..z /\ DOMAIN slots = 1..Len(slots) /\ Len(slots) \in Nat
  BY LenProperties
<1>2. PICK a \in Nat, d \in Nat : a = Len(s) /\ d = Len(data) BY LenProperties
<1>3. PICK t \in Seq(Nat) :
        /\ WriteDynamic(Obj(z, s), n - 1, data) = Obj(z, t)
        /\ Len(t) = a + 1 + d /\ t[n] = a /\ t[a + 1] = d
        /\ \A i \in 1..a : i # n => t[i] = s[i]
        /\ \A j \in 1..d : t[a + 1 + j] = data[j]
  <2>1. PICK t \in Seq(Nat) : Pointed(z, s, n, data, t) BY <1>1, DynamicCells
  <2> QED BY <1>2, <2>1 DEF Pointed
<1>4. z <= a /\ a # 0 /\ z <= Len(t)
  <2>1. z <= a /\ a # 0 BY <1>1, <1>2
  <2>2. Len(t) = a + 1 + d BY <1>3
  <2> QED BY <2>1, <2>2
<1>5. \A m \in Others(slots, n, z) : t[m] = s[m]
  <2>1. \A m \in Others(slots, n, z) : m \in 1..a /\ m # n BY <1>1, <1>4 DEF Others
  <2> QED BY <1>3, <2>1
<1>6. ASSUME NEW m \in Others(slots, n, z), NEW at \in Nat, NEW l \in Nat, Points(z, s, m, at, l)
      PROVE  z <= at /\ at + 1 + l <= a
  BY <1>2, <1>6 DEF Points
<1>7. ASSUME NEW m \in Others(slots, n, z) PROVE Undisturbed(z, s, t, m)
  <2>1. ASSUME NEW at \in Nat, NEW l \in Nat, Points(z, s, m, at, l)
        PROVE  at + 1 + l <= Len(t) /\ \A i \in (at + 1)..(at + 1 + l) : t[i] = s[i]
    <3>1. z <= at /\ at + 1 + l <= a BY <1>6, <2>1
    <3>2. \A i \in (at + 1)..(at + 1 + l) : i \in 1..a /\ i # n BY <1>1, <3>1
    <3>3. at + 1 + l <= Len(t) BY <1>3, <3>1
    <3> QED BY <1>3, <3>2, <3>3
  <2> QED BY <1>5, <2>1 DEF Undisturbed
<1>8. Points(z, t, n, a, d) BY <1>3, <1>4 DEF Points
<1>9. \A m \in Others(slots, n, z) : \A at2, l2 \in Nat :
        Refers(z, s, slots, m) /\ Points(z, s, m, at2, l2) => a + 1 + d <= at2 \/ at2 + 1 + l2 <= a
  BY <1>6
<1>10. /\ Strung(z, t, slots)
       /\ \A m \in Others(slots, n, z) :
            Read(Obj(z, t), m - 1, slots[m].type) = Read(Obj(z, s), m - 1, slots[m].type)
  <2>1. LeftAlone(z, s, t, slots, n) BY <1>5, <1>7, <1>8, <1>9 DEF LeftAlone
  <2> QED BY <1>4, <2>1, OthersKept
<1>11. Read(Obj(z, t), n - 1, "string") = data
  <2>1. Read(Obj(z, t), n - 1, "string") = SubSeq(t, a + 2, a + 1 + d)
    <3>1. /\ z \in Nat /\ t \in Seq(Nat) /\ n \in 1..z
          /\ a \in Nat /\ d \in Nat /\ Points(z, t, n, a, d) /\ a # 0
      BY <1>1, <1>4, <1>8
    <3>2. StringIs(z, t, n, a, d) BY ONLY <3>1, ReadsString
    <3> QED BY <3>2 DEF StringIs
  <2>2. a + 1 \in Nat /\ (a + 1) + 1 = a + 2 OBVIOUS
  <2>3. SubSeq(t, (a + 1) + 1, (a + 1) + Len(data)) = data
    <3>1. \A j \in 1..Len(data) : t[(a + 1) + j] = data[j] BY <1>2, <1>3
    <3>2. t \in Seq(Nat) /\ data \in Seq(Nat) OBVIOUS
    <3> QED BY ONLY <2>2, <3>1, <3>2, SubSeqIs
  <2> QED BY <1>2, <2>1, <2>2, <2>3
<1> QED BY <1>3, <1>4, <1>10, <1>11 DEF Wrote

\* A string in the place of one that is at least as long.
LEMMA OverWritten ==
  ASSUME NEW slots \in Seq(Slots), NEW z \in Nat, NEW s \in Seq(Nat), z <= Len(s),
         Strung(z, s, slots), NEW n \in DOMAIN slots, n <= z, slots[n].type = "string",
         slots[n].name # None, NEW data \in Seq(Nat), s[n] # 0, s[s[n] + 1] >= Len(data)
  PROVE  \E t \in Seq(Nat) : /\ Overwrite(Obj(z, s), s[n], data) = Obj(z, t)
                             /\ Wrote(z, s, t, slots, n, data)
<1>1. n \in 1..z /\ DOMAIN slots = 1..Len(slots) /\ Len(slots) \in Nat
  BY LenProperties
<1>2. PICK a \in Nat, d \in Nat : a = Len(s) /\ d = Len(data) BY LenProperties
<1>3. Refers(z, s, slots, n) BY DEF Refers
<1>4. PICK at \in Nat, l \in Nat : Points(z, s, n, at, l) BY <1>3 DEF Strung
<1>5. s[n] = at /\ z <= at /\ s[at + 1] = l /\ at + 1 + l <= a BY <1>2, <1>4 DEF Points
<1>6. at # 0 /\ d <= l /\ at + 1 + d <= a
  <2>1. s[s[n] + 1] = l BY <1>5
  <2> QED BY <1>2, <1>5, <2>1
<1>7. PICK t \in Seq(Nat) :
        /\ Overwrite(Obj(z, s), at, data) = Obj(z, t) /\ Len(t) = a
        /\ t[at + 1] = d /\ \A j \in 1..d : t[at + 1 + j] = data[j]
        /\ \A i \in 1..a : i <= at \/ i > at + 1 + d => t[i] = s[i]
  <2>1. at + 1 + Len(data) <= Len(s) BY <1>2, <1>6
  <2>2. PICK t \in Seq(Nat) : Replaced(z, s, at, data, t) BY <2>1, OverwrittenCells
  <2> QED BY <1>2, <2>2 DEF Replaced
<1>8. \A m \in 1..z : t[m] = s[m] BY <1>2, <1>5, <1>7
<1>9. \A m \in Others(slots, n, z) : t[m] = s[m] BY <1>1, <1>8 DEF Others
<1>10. ASSUME NEW m \in Others(slots, n, z), Refers(z, s, slots, m),
              NEW at2 \in Nat, NEW l2 \in Nat, Points(z, s, m, at2, l2)
       PROVE  at + 1 + l <= at2 \/ at2 + 1 + l2 <= at
  <2>1. m \in DOMAIN slots /\ m # n BY DEF Others
  <2> QED BY <1>3, <1>4, <1>10, <2>1 DEF Strung
<1>11. ASSUME NEW m \in Others(slots, n, z), Refers(z, s, slots, m) PROVE Undisturbed(z, s, t, m)
  <2>1. ASSUME NEW at2 \in Nat, NEW l2 \in Nat, Points(z, s, m, at2, l2)
        PROVE  at2 + 1 + l2 <= Len(t) /\ \A i \in (at2 + 1)..(at2 + 1 + l2) : t[i] = s[i]
    <3>1. at + 1 + l <= at2 \/ at2 + 1 + l2 <= at BY <1>10, <1>11, <2>1
    <3>2. at2 + 1 + l2 <= a BY <1>2, <2>1 DEF Points
    <3>3. \A i \in (at2 + 1)..(at2 + 1 + l2) : i \in 1..a /\ (i <= at \/ i > at + 1 + d)
      BY <1>6, <3>1, <3>2
    <3> QED BY <1>7, <3>2, <3>3
  <2> QED BY <1>9, <2>1 DEF Undisturbed
<1>12. z <= Len(t) /\ t[n] = at BY <1>1, <1>2, <1>5, <1>7, <1>8
<1>13. Points(z, t, n, at, d) BY <1>5, <1>6, <1>7, <1>12 DEF Points
<1>14. \A m \in Others(slots, n, z) : \A at2, l2 \in Nat :
         Refers(z, s, slots, m) /\ Points(z, s, m, at2, l2) => at + 1 + d <= at2 \/ at2 + 1 + l2 <= at
  <2>1. ASSUME NEW m \in Others(slots, n, z), NEW at2 \in Nat, NEW l2 \in Nat,
               Refers(z, s, slots, m), Points(z, s, m, at2, l2)
        PROVE  at + 1 + d <= at2 \/ at2 + 1 + l2 <= at
    <3>1. at + 1 + l <= at2 \/ at2 + 1 + l2 <= at BY <1>10, <2>1
    <3> QED BY <1>6, <3>1
  <2> QED BY <2>1
<1>15. /\ Strung(z, t, slots)
       /\ \A m \in Others(slots, n, z) :
            Read(Obj(z, t), m - 1, slots[m].type) = Read(Obj(z, s), m - 1, slots[m].type)
  <2>1. LeftAlone(z, s, t, slots, n) BY <1>9, <1>11, <1>13, <1>14 DEF LeftAlone
  <2> QED BY <1>12, <2>1, OthersKept
<1>16. Read(Obj(z, t), n - 1, "string") = data
  <2>1. Read(Obj(z, t), n - 1, "string") = SubSeq(t, at + 2, at + 1 + d)
    <3>1. /\ z \in Nat /\ t \in Seq(Nat) /\ n \in 1..z
          /\ at \in Nat /\ d \in Nat /\ Points(z, t, n, at, d) /\ at # 0
      BY <1>1, <1>6, <1>13
    <3>2. StringIs(z, t, n, at, d) BY ONLY <3>1, ReadsString
    <3> QED BY <3>2 DEF StringIs
  <2>2. at + 1 \in Nat /\ (at + 1) + 1 = at + 2 OBVIOUS
  <2>3. SubSeq(t, (at + 1) + 1, (at + 1) + Len(data)) = data
    <3>1. \A j \in 1..Len(data) : t[(at + 1) + j] = data[j] BY <1>2, <1>7
    <3>2. t \in Seq(Nat) /\ data \in Seq(Nat) OBVIOUS
    <3> QED BY ONLY <2>2, <3>1, <3>2, SubSeqIs
  <2> QED BY <1>2, <2>1, <2>2, <2>3
<1> QED BY <1>5, <1>7, <1>12, <1>15, <1>16 DEF Wrote

\* The two ways to write a property.
LEMMA Written ==
  ASSUME NEW slots \in Seq(Slots), NEW z \in Nat, NEW s \in Seq(Nat), z <= Len(s),
         Strung(z, s, slots), NEW n \in DOMAIN slots, n <= z,
         NEW type \in Types, type = slots[n].type, NEW value \in Values(type)
  PROVE  \E t \in Seq(Nat) : /\ Write(Obj(z, s), n - 1, type, value) = Obj(z, t)
                             /\ Wrote(z, s, t, slots, n, value)
<1>1. /\ NullInt \in Nat /\ Ints \subseteq Nat \ {NullInt} /\ Strings \subseteq Seq(Nat)
      /\ Null \notin Nat \cup Strings
  BY MigrationAssumption, ObjectAssumption
<1>2. CASE type = "int"
  <2>1. PICK v \in Nat : v = IF value = Null THEN NullInt ELSE value
    BY <1>1, <1>2 DEF Values
  <2>2. value = IF v # NullInt THEN v ELSE Null BY <1>1, <1>2, <2>1 DEF Values
  <2>3. PICK t \in Seq(Nat) : /\ WriteStatic(Obj(z, s), n - 1, v) = Obj(z, t)
                              /\ Wrote(z, s, t, slots, n, CellValue(type, v))
    BY <1>2, StaticWritten
  <2>5. CellValue(type, v) = value BY <1>2, <2>2 DEF CellValue
  <2>4. Write(Obj(z, s), n - 1, type, value) = WriteStatic(Obj(z, s), n - 1, v)
    BY <1>2, <2>1 DEF Write
  <2> QED BY <2>3, <2>4, <2>5
<1>3. CASE type = "string" /\ value = Null
  <2>1. PICK t \in Seq(Nat) : /\ WriteStatic(Obj(z, s), n - 1, 0) = Obj(z, t)
                              /\ Wrote(z, s, t, slots, n, CellValue(type, 0))
    <3>1. 0 \in Nat /\ type = "string"  BY <1>3
    <3> QED BY <3>1, StaticWritten
  <2>2. Write(Obj(z, s), n - 1, type, value) = WriteStatic(Obj(z, s), n - 1, 0)
    BY <1>3 DEF Write
  <2>3. CellValue(type, 0) = value BY <1>3 DEF CellValue
  <2> QED BY <2>1, <2>2, <2>3
<1>4. CASE type = "string" /\ value # Null
  <2>1. value \in Seq(Nat) BY <1>1, <1>4 DEF Values
  <2>2. PICK t \in Seq(Nat) : /\ WriteDynamic(Obj(z, s), n - 1, value) = Obj(z, t)
                              /\ Wrote(z, s, t, slots, n, value)
    BY <1>4, <2>1, DynamicWritten
  <2>3. Write(Obj(z, s), n - 1, type, value) = WriteDynamic(Obj(z, s), n - 1, value)
    BY <1>4 DEF Write
  <2> QED BY <2>2, <2>3
<1> QED BY <1>2, <1>3, <1>4 DEF Types

LEMMA Rewritten ==
  ASSUME NEW slots \in Seq(Slots), NEW z \in Nat, NEW s \in Seq(Nat), z <= Len(s),
         Strung(z, s, slots), NEW n \in DOMAIN slots, n <= z, slots[n].name # None,
         NEW type \in Types, type = slots[n].type, NEW value \in Values(type),
         Rewrite(Obj(z, s), n - 1, type, value) # Panic
  PROVE  \E t \in Seq(Nat) : /\ Rewrite(Obj(z, s), n - 1, type, value) = Obj(z, t)
                             /\ Wrote(z, s, t, slots, n, value)
<1>1. CASE ~(type = "string" /\ value # Null)
  <2>1. Rewrite(Obj(z, s), n - 1, type, value) = Write(Obj(z, s), n - 1, type, value)
    BY <1>1 DEF Rewrite
  <2>2. PICK t \in Seq(Nat) : /\ Write(Obj(z, s), n - 1, type, value) = Obj(z, t)
                              /\ Wrote(z, s, t, slots, n, value)
    BY Written
  <2> QED BY <2>1, <2>2
<1>2. CASE type = "string" /\ value # Null
  <2>1. value \in Seq(Nat) BY <1>2, MigrationAssumption DEF Values
  <2>2. Rewrite(Obj(z, s), n - 1, type, value) = UpdateDynamic(Obj(z, s), n - 1, value)
    BY <1>2 DEF Rewrite
  <2>3. (n - 1) + 1 = n /\ Obj(z, s).cells = s
    <3>1. n \in Nat BY LenProperties
    <3> QED BY <3>1 DEF Obj
  <2>4. \/ UpdateDynamic(Obj(z, s), n - 1, value) = WriteDynamic(Obj(z, s), n - 1, value)
        \/ UpdateDynamic(Obj(z, s), n - 1, value) = Panic
        \/ /\ s[n] # 0 /\ ~(s[s[n] + 1] < Len(value))
           /\ UpdateDynamic(Obj(z, s), n - 1, value) = Overwrite(Obj(z, s), s[n], value)
    BY <2>3 DEF UpdateDynamic
  <2>5. \E t \in Seq(Nat) : /\ WriteDynamic(Obj(z, s), n - 1, value) = Obj(z, t)
                            /\ Wrote(z, s, t, slots, n, value)
    BY <1>2, <2>1, DynamicWritten
  <2>6. ASSUME s[n] # 0, ~(s[s[n] + 1] < Len(value))
        PROVE  \E t \in Seq(Nat) : /\ Overwrite(Obj(z, s), s[n], value) = Obj(z, t)
                                   /\ Wrote(z, s, t, slots, n, value)
    <3>1. Refers(z, s, slots, n) BY <1>2, <2>6 DEF Refers
    <3>2. n \in Nat BY LenProperties
    <3>3. PICK at \in Nat, l \in Nat : Points(z, s, n, at, l) BY <3>1 DEF Strung
    <3>4. s[s[n] + 1] = l BY <3>3 DEF Points
    <3>5. s[s[n] + 1] >= Len(value) BY <2>1, <2>6, <3>4, LenProperties
    <3> QED BY <1>2, <2>1, <2>6, <3>5, OverWritten
  <2> QED BY <2>2, <2>4, <2>5, <2>6
<1> QED BY <1>1, <1>2

\* An object that nothing was written to yet.
LEMMA Began ==
  ASSUME NEW z \in Nat, NEW slots \in Seq(Slots)
  PROVE  \E s \in Seq(Nat) : Begin(<<>>, z) = Obj(z, s) /\ z <= Len(s) /\ Strung(z, s, slots)
<1> DEFINE s == [n \in 1..z |-> 0]
<1>1. s \in Seq(Nat) /\ DOMAIN s = 1..z OBVIOUS
<1>2. Len(s) = z
  <2> HIDE DEF s
  <2>1. Len(s) \in Nat /\ DOMAIN s = 1..Len(s) BY <1>1, LenProperties
  <2> QED BY <1>1, <2>1
<1>3. Begin(<<>>, z) = Obj(z, s)
  <2>1. Len(<<>>) = 0 OBVIOUS
  <2>2. CASE z = 0
    <3>1. z <= Len(<<>>) BY <2>1, <2>2
    <3>2. s = <<>>
      <4> HIDE DEF s
      <4> QED BY <1>1, <1>2, <2>2, EmptySeq
    <3> QED BY <3>1, <3>2 DEF Begin, Obj
  <2>3. CASE z # 0
    <3>1. ~(z <= Len(<<>>)) /\ z - Len(<<>>) = z BY <2>1, <2>3
    <3>2. Begin(<<>>, z) = [size |-> z, cells |-> <<>> \o s] BY <3>1 DEF Begin
    <3>3. <<>> \o s = s
      <4> HIDE DEF s
      <4> QED BY <1>1, ConcatEmptySeq
    <3> QED BY <3>2, <3>3 DEF Obj
  <2> QED BY <2>2, <2>3
<1>4. Strung(z, s, slots)
  <2>1. \A n \in DOMAIN slots : n <= z => n \in 1..z
    <3>1. DOMAIN slots = 1..Len(slots) BY LenProperties
    <3> QED BY <3>1
  <2>2. \A n \in DOMAIN slots : ~Refers(z, s, slots, n) BY <2>1 DEF Refers
  <2> HIDE DEF s
  <2> QED BY <2>2 DEF Strung
<1> HIDE DEF s
<1> QED BY <1>1, <1>2, <1>3, <1>4

\* A smaller header over the bytes of an object leaves what it covers as it was.
LEMMA Shortened ==
  ASSUME NEW z \in Nat, NEW s \in Seq(Nat), z <= Len(s), NEW y \in Nat, y <= z,
         NEW slots \in Seq(Slots), Strung(z, s, slots)
  PROVE  /\ Begin(s, y) = Obj(y, s) /\ y <= Len(s) /\ Strung(y, s, slots)
         /\ \A n \in DOMAIN slots : n <= y /\ slots[n].name # None =>
              Read(Obj(y, s), n - 1, slots[n].type) = Read(Obj(z, s), n - 1, slots[n].type)
<1>1. Len(s) \in Nat /\ DOMAIN slots = 1..Len(slots) /\ Len(slots) \in Nat BY LenProperties
<1>2. y <= Len(s) BY <1>1
<1>3. Begin(s, y) = Obj(y, s) BY <1>2 DEF Begin, Obj
<1>4. ASSUME NEW n \in DOMAIN slots, Refers(y, s, slots, n) PROVE Refers(z, s, slots, n)
  BY <1>1, <1>4 DEF Refers
<1>5. ASSUME NEW n, NEW at \in Nat, NEW l \in Nat, Points(z, s, n, at, l) PROVE Points(y, s, n, at, l)
  BY <1>5 DEF Points
<1>6. \A n, at, l, i, k : Points(z, s, n, at, l) /\ Points(y, s, n, i, k) => i = at /\ k = l
  BY DEF Points
<1>7. \A n \in DOMAIN slots : Refers(z, s, slots, n) => \E at, l \in Nat : Points(z, s, n, at, l)
  BY DEF Strung
<1>8. \A n \in DOMAIN slots : Refers(y, s, slots, n) => \E at, l \in Nat : Points(y, s, n, at, l)
  BY <1>4, <1>5, <1>7
<1>9. ASSUME NEW m \in DOMAIN slots, NEW n \in DOMAIN slots, NEW at \in Nat, NEW l \in Nat,
             NEW at2 \in Nat, NEW l2 \in Nat, m # n, Refers(y, s, slots, m), Refers(y, s, slots, n),
             Points(y, s, m, at, l), Points(y, s, n, at2, l2)
      PROVE  at + 1 + l <= at2 \/ at2 + 1 + l2 <= at
  <2>1. Refers(z, s, slots, m) /\ Refers(z, s, slots, n) BY <1>4, <1>9
  <2>2. Points(z, s, m, at, l) BY <1>6, <1>7, <1>9, <2>1
  <2>3. Points(z, s, n, at2, l2) BY <1>6, <1>7, <1>9, <2>1
  <2> QED BY <1>9, <2>1, <2>2, <2>3 DEF Strung
<1>10. Strung(y, s, slots) BY <1>8, <1>9 DEF Strung
<1>11. ASSUME NEW n \in DOMAIN slots, n <= y, slots[n].name # None
       PROVE  Read(Obj(y, s), n - 1, slots[n].type) = Read(Obj(z, s), n - 1, slots[n].type)
  <2>1. n \in 1..z /\ n <= y BY <1>1, <1>11
  <2>2. PICK type \in Types : type = slots[n].type
    <3>1. slots[n] \in Slots BY <1>1, ElementOfSeq
    <3> QED BY <3>1 DEF Slots
  <2>3. Undisturbed(z, s, s, n) BY DEF Undisturbed, Points
  <2>4. type = "string" /\ s[n] # 0 => \E at, l \in Nat : Points(z, s, n, at, l)
    <3>1. ASSUME type = "string", s[n] # 0 PROVE Refers(z, s, slots, n)
      <4>1. n <= z BY <2>1
      <4> QED BY <1>11, <2>2, <3>1, <4>1 DEF Refers
    <3> QED BY <1>7, <3>1
  <2>5. Read(Obj(y, s), n - 1, type) = Read(Obj(z, s), n - 1, type)
    BY <1>2, <2>1, <2>3, <2>4, SameReading
  <2> QED BY <2>2, <2>5
<1> QED BY <1>2, <1>3, <1>10, <1>11

\* What the application finds in an object.
View(slots, object) ==
  [p \in Live(slots) |-> Read(object, Offset(slots, p), TypeIn(slots, p))]

\* An object whose strings are in order, written under this layout or an
\* earlier one.
Sound(slots, object) ==
  \E z \in Nat, s \in Seq(Nat) :
    object = Obj(z, s) /\ z <= Len(s) /\ z <= Len(slots) /\ Strung(z, s, slots)

\* An object stays sound under the merged layout, and there every property
\* that stays has the value it had, every other one is null.
LEMMA MigratedObject ==
  ASSUME NEW new, NEW old, Verified(new), Saved(old), NEW object, Sound(old.props, object)
  PROVE  LET M == MergedProperties(new, old)
         IN /\ Sound(M, object)
            /\ View(M, object) = [p \in Live(new.props) |->
                 IF p \in Stays(new, old) THEN View(old.props, object)[p] ELSE Null]
<1> DEFINE M == MergedProperties(new, old)
<1>1. /\ M \in Seq(Slots) /\ OneSlotEach(M) /\ Live(M) = Live(new.props)
      /\ DOMAIN old.props \subseteq DOMAIN M
      /\ \A n \in DOMAIN old.props :
           /\ M[n].type = old.props[n].type
           /\ M[n].name = IF old.props[n].name \in Stays(new, old)
                          THEN old.props[n].name ELSE None
      /\ \A n \in DOMAIN M \ DOMAIN old.props : n > Len(old.props)
  BY MergedSlots
<1>2. /\ old.props \in Seq(Slots) /\ OneSlotEach(old.props)
      /\ DOMAIN old.props = 1..Len(old.props) /\ Len(old.props) \in Nat
  BY SavedFacts
<1>3. PICK l \in Nat, k \in Nat : l = Len(old.props) /\ k = Len(M) /\ DOMAIN M = 1..k
  BY <1>1, <1>2, LenProperties
<1>4. PICK z \in Nat, s \in Seq(Nat) :
        object = Obj(z, s) /\ z <= Len(s) /\ z <= l /\ Strung(z, s, old.props)
  BY <1>3 DEF Sound
<1> HIDE DEF M
<1>5. z <= k
  <2>1. z = 0 \/ z \in 1..l BY <1>4
  <2>2. 1..l \subseteq 1..k BY <1>1, <1>2, <1>3
  <2> QED BY <2>1, <2>2
<1>6. ASSUME NEW n \in DOMAIN M, Refers(z, s, M, n)
      PROVE  n \in DOMAIN old.props /\ Refers(z, s, old.props, n)
  <2>1. n \in 1..k /\ n <= z BY <1>3, <1>6 DEF Refers
  <2>2. n \in DOMAIN old.props BY <1>2, <1>3, <1>4, <2>1
  <2>3. M[n].type = old.props[n].type /\ (M[n].name # None => old.props[n].name # None)
    BY <1>1, <2>2
  <2> QED BY <1>6, <2>2, <2>3 DEF Refers
<1>7. Strung(z, s, M)
  <2>1. ASSUME NEW n \in DOMAIN M, Refers(z, s, M, n)
        PROVE  \E at, l1 \in Nat : Points(z, s, n, at, l1)
    BY <1>4, <1>6, <2>1 DEF Strung
  <2>2. ASSUME NEW m \in DOMAIN M, NEW n \in DOMAIN M, NEW at \in Nat, NEW l1 \in Nat,
               NEW at2 \in Nat, NEW l2 \in Nat, m # n, Refers(z, s, M, m), Refers(z, s, M, n),
               Points(z, s, m, at, l1), Points(z, s, n, at2, l2)
        PROVE  at + 1 + l1 <= at2 \/ at2 + 1 + l2 <= at
    <3>1. /\ m \in DOMAIN old.props /\ Refers(z, s, old.props, m)
          /\ n \in DOMAIN old.props /\ Refers(z, s, old.props, n)
      BY <1>6, <2>2
    <3> QED BY <1>4, <2>2, <3>1 DEF Strung
  <2> QED BY <2>1, <2>2 DEF Strung
<1>8. Sound(M, object) BY <1>3, <1>4, <1>5, <1>7 DEF Sound
<1>9. ASSUME NEW p \in Live(M)
      PROVE  Read(object, Offset(M, p), TypeIn(M, p)) =
               IF p \in Stays(new, old) THEN View(old.props, object)[p] ELSE Null
  <2>1. PICK n \in DOMAIN M : M[n].name = p /\ p # None BY SlotOf
  <2>2. Offset(M, p) = n - 1 /\ TypeIn(M, p) = M[n].type BY <1>1, <2>1, SlotFound
  <2>3. CASE p \in Stays(new, old)
    <3>1. p \in Live(old.props) BY <2>3 DEF Stays
    <3>2. PICK m \in DOMAIN old.props : old.props[m].name = p BY <3>1, SlotOf
    <3>3. m \in DOMAIN M /\ M[m].name = p /\ M[m].type = old.props[m].type BY <1>1, <2>3, <3>2
    <3>4. m = n BY <1>1, <2>1, <3>3 DEF OneSlotEach
    <3>5. Offset(old.props, p) = n - 1 /\ TypeIn(old.props, p) = M[n].type
      BY <1>2, <2>1, <3>2, <3>3, <3>4, SlotFound
    <3>6. View(old.props, object)[p] = Read(object, Offset(old.props, p), TypeIn(old.props, p))
      BY <3>1 DEF View
    <3> QED BY <2>2, <2>3, <3>5, <3>6
  <2>4. CASE p \notin Stays(new, old)
    <3>1. n \notin DOMAIN old.props BY <1>1, <2>1, <2>4
    <3>2. n \in Nat /\ n > l BY <1>1, <1>3, <3>1
    <3>3. ~ContainsOffset(object, n - 1)
      <4>1. object.size = z BY <1>4 DEF Obj
      <4> QED BY <1>4, <3>2, <4>1 DEF ContainsOffset
    <3>4. Read(object, n - 1, M[n].type) = Null BY <3>3 DEF Read, ReadInt, ReadString
    <3> QED BY <2>2, <2>4, <3>4
  <2> QED BY <2>3, <2>4
<1>10. View(M, object) = [p \in Live(new.props) |->
         IF p \in Stays(new, old) THEN View(old.props, object)[p] ELSE Null]
  <2>1. View(M, object) = [p \in Live(M) |-> Read(object, Offset(M, p), TypeIn(M, p))] BY DEF View
  <2> QED BY <1>1, <1>9, <2>1
<1> QED BY <1>8, <1>10 DEF M

-----------------------------------------------------------------------------
(* Objects through the openings.                                           *)

\* The objects of a collection and what the application knows of them, but
\* for those in `out'.
Held(slots, objects, facts, out) ==
  /\ DOMAIN objects \subseteq Id /\ DOMAIN facts = DOMAIN objects
  /\ \A id \in DOMAIN objects \ out :
       Sound(slots, objects[id]) /\ facts[id] = View(slots, objects[id])

Stretched(c) == {id \in Id : <<c, id>> \in stretched}

ObjectsInv ==
  \A c \in DOMAIN info :
    IF c \in DOMAIN dbs THEN Held(info[c].props, dbs[c], truth[c], Stretched(c))
                        ELSE DOMAIN truth[c] = {}

LEMMA HeldMigrated ==
  ASSUME NEW new, NEW old, Verified(new), Saved(old), NEW objects, NEW facts, NEW out,
         Held(old.props, objects, facts, out)
  PROVE  Held(MergedProperties(new, old), objects, Migrated(facts, new, old), out)
<1> DEFINE M == MergedProperties(new, old)
           F == Migrated(facts, new, old)
<1>1. /\ DOMAIN F = DOMAIN facts
      /\ \A id \in DOMAIN facts : F[id] = [p \in Live(new.props) |->
           IF p \in Stays(new, old) THEN facts[id][p] ELSE Null]
  BY DEF Migrated, Stays
<1> HIDE DEF F, M
<1>2. ASSUME NEW id \in DOMAIN objects \ out
      PROVE  Sound(M, objects[id]) /\ F[id] = View(M, objects[id])
  <2>1. PICK object : object = objects[id] OBVIOUS
  <2>2. Sound(old.props, object) /\ facts[id] = View(old.props, object) /\ id \in DOMAIN facts
    BY <2>1 DEF Held
  <2>3. /\ Sound(M, object)
        /\ View(M, object) = [p \in Live(new.props) |->
             IF p \in Stays(new, old) THEN View(old.props, object)[p] ELSE Null]
    BY <2>2, MigratedObject DEF M
  <2>4. F[id] = [p \in Live(new.props) |->
          IF p \in Stays(new, old) THEN View(old.props, object)[p] ELSE Null]
    BY <1>1, <2>2
  <2> QED BY <2>1, <2>3, <2>4
<1> QED BY <1>1, <1>2 DEF Held, F, M

\* A collection without objects.
LEMMA HeldNone ==
  ASSUME NEW slots, NEW facts, NEW out, DOMAIN facts = {}
  PROVE  Held(slots, Nothing, facts, out)
BY DEF Held, Nothing

LEMMA MigrateObjects ==
  ASSUME SchemaInv, ObjectsInv, MigrateCollection
  PROVE  ObjectsInv'
<1>0. PICK schema, c, facts :
        /\ schema = want[step] /\ c = schema.name
        /\ facts = IF c \in DOMAIN existing THEN Migrated(truth[c], schema, existing[c]) ELSE Nothing
  OBVIOUS
<1>1. /\ phase = "migrating" /\ step \in DOMAIN want
      /\ info' = Set(info, c, Record(schema))
      /\ dbs' = IF schema.embedded \/ c \in DOMAIN dbs THEN dbs ELSE Set(dbs, c, Nothing)
      /\ truth' = Set(truth, c, facts) /\ stretched' = stretched
  BY <1>0, MigrateParts
<1>2. /\ c \in DOMAIN info <=> c \in DOMAIN existing
      /\ c \in DOMAIN existing => info[c] = existing[c] /\ Saved(existing[c])
      /\ Verified(schema)
  BY <1>0, <1>1, InTurn
<1>3. Record(schema).props = Layout(schema) BY DEF Record
<1>4. DOMAIN dbs \subseteq DOMAIN info /\ DOMAIN truth = DOMAIN info BY DEF SchemaInv, Databases
<1>5. c \notin DOMAIN existing \/ c \notin DOMAIN dbs => DOMAIN facts = {}
  <2>1. CASE c \notin DOMAIN existing BY <1>0, <2>1 DEF Nothing
  <2>2. CASE c \in DOMAIN existing /\ c \notin DOMAIN dbs
    <3>1. DOMAIN truth[c] = {} BY <1>2, <2>2 DEF ObjectsInv
    <3> QED BY <1>0, <2>2, <3>1 DEF Migrated
  <2> QED BY <2>1, <2>2
<1>6. c \in DOMAIN existing => facts = Migrated(truth[c], schema, existing[c]) BY <1>0
<1>7. /\ DOMAIN info' = DOMAIN info \cup {c} /\ info'[c].props = Layout(schema)
      /\ \A d \in DOMAIN info \ {c} : info'[d] = info[d]
      /\ truth'[c] = facts /\ \A d \in DOMAIN truth \ {c} : truth'[d] = truth[d]
      /\ \A d \in DOMAIN info \ {c} : d \in DOMAIN dbs' <=> d \in DOMAIN dbs
      /\ \A d \in DOMAIN dbs \ {c} : dbs'[d] = dbs[d]
      /\ c \in DOMAIN dbs => c \in DOMAIN dbs' /\ dbs'[c] = dbs[c]
      /\ c \notin DOMAIN dbs /\ c \in DOMAIN dbs' => dbs'[c] = Nothing
  <2>1. info'[c].props = Layout(schema) BY <1>1, <1>3 DEF Set
  <2>2. /\ DOMAIN info' = DOMAIN info \cup {c} /\ \A d \in DOMAIN info \ {c} : info'[d] = info[d]
        /\ truth'[c] = facts /\ \A d \in DOMAIN truth \ {c} : truth'[d] = truth[d]
    BY <1>1 DEF Set
  <2>3. /\ \A d \in DOMAIN info \ {c} : d \in DOMAIN dbs' <=> d \in DOMAIN dbs
        /\ c \in DOMAIN dbs => c \in DOMAIN dbs' /\ dbs'[c] = dbs[c]
        /\ c \notin DOMAIN dbs /\ c \in DOMAIN dbs' => dbs'[c] = Nothing
    BY <1>1 DEF Set
  <2>4. \A d \in DOMAIN dbs \ {c} : dbs'[d] = dbs[d] BY <1>1 DEF Set
  <2> QED BY <2>1, <2>2, <2>3, <2>4
<1>8. \A d : Stretched(d)' = Stretched(d) BY <1>1 DEF Stretched
<1>9. IF c \in DOMAIN dbs' THEN Held(info'[c].props, dbs'[c], truth'[c], Stretched(c)')
                           ELSE DOMAIN truth'[c] = {}
  <2>1. CASE c \in DOMAIN dbs
    <3>1. c \in DOMAIN existing BY <1>2, <1>4, <2>1
    <3>2. PICK old : old = existing[c] OBVIOUS
    <3>3. Held(old.props, dbs[c], truth[c], Stretched(c)) BY <1>2, <2>1, <3>1, <3>2 DEF ObjectsInv
    <3>4. Layout(schema) = MergedProperties(schema, old) BY <1>0, <3>1, <3>2 DEF Layout
    <3>5. facts = Migrated(truth[c], schema, old) BY <1>6, <3>1, <3>2
    <3>6. Held(MergedProperties(schema, old), dbs[c], Migrated(truth[c], schema, old), Stretched(c))
      <4>1. PICK objects, known1, out : objects = dbs[c] /\ known1 = truth[c] /\ out = Stretched(c)
        OBVIOUS
      <4>2. Held(old.props, objects, known1, out) /\ Verified(schema) /\ Saved(old)
        BY <1>2, <3>1, <3>2, <3>3, <4>1
      <4>3. Held(MergedProperties(schema, old), objects, Migrated(known1, schema, old), out)
        BY <4>2, HeldMigrated
      <4> QED BY <4>1, <4>3
    <3> QED BY <1>7, <1>8, <2>1, <3>4, <3>5, <3>6
  <2>2. CASE c \notin DOMAIN dbs
    <3>1. DOMAIN facts = {} BY <1>5, <2>2
    <3>2. Held(Layout(schema), Nothing, facts, Stretched(c)) BY <3>1, HeldNone
    <3> QED BY <1>7, <1>8, <2>2, <3>1, <3>2
  <2> QED BY <2>1, <2>2
<1>10. ASSUME NEW d \in DOMAIN info \ {c}
       PROVE  IF d \in DOMAIN dbs' THEN Held(info'[d].props, dbs'[d], truth'[d], Stretched(d)')
                                   ELSE DOMAIN truth'[d] = {}
  BY <1>4, <1>7, <1>8 DEF ObjectsInv
<1>11. ASSUME NEW d \in DOMAIN info'
       PROVE  IF d \in DOMAIN dbs' THEN Held(info'[d].props, dbs'[d], truth'[d], Stretched(d)')
                                   ELSE DOMAIN truth'[d] = {}
  <2>1. CASE d = c BY <1>9, <2>1
  <2>2. CASE d # c BY <1>7, <1>10, <2>2
  <2> QED BY <2>1, <2>2
<1> QED BY <1>11 DEF ObjectsInv

LEMMA DeleteObjects ==
  ASSUME SchemaInv, ObjectsInv, DeleteRemoved
  PROVE  ObjectsInv'
<1> DEFINE gone == DOMAIN existing \ {want[n].name : n \in DOMAIN want}
<1>1. /\ info' = Without(info, gone) /\ dbs' = Without(dbs, gone) /\ truth' = Without(truth, gone)
      /\ stretched' = {s \in stretched : s[1] \notin gone}
  BY DEF DeleteRemoved
<1> HIDE DEF gone
<1>2. DOMAIN dbs \subseteq DOMAIN info /\ DOMAIN truth = DOMAIN info BY DEF SchemaInv, Databases
<1>3. ASSUME NEW c \in DOMAIN info'
      PROVE  /\ c \in DOMAIN info /\ info'[c] = info[c] /\ truth'[c] = truth[c]
             /\ (c \in DOMAIN dbs' <=> c \in DOMAIN dbs) /\ (c \in DOMAIN dbs => dbs'[c] = dbs[c])
             /\ Stretched(c)' = Stretched(c)
  <2>1. c \in DOMAIN info \ gone BY <1>1, WithoutFacts
  <2>2. \A id : <<c, id>> \in stretched' <=> <<c, id>> \in stretched BY <1>1, <2>1
  <2> QED BY <1>1, <1>2, <2>1, <2>2 DEF Without, Stretched
<1> QED BY <1>3 DEF ObjectsInv

LEMMA SameObjects ==
  ASSUME ObjectsInv, UNCHANGED <<info, dbs, truth, stretched>>
  PROVE  ObjectsInv'
BY DEF ObjectsInv, Held, Stretched

LEMMA InitObjects ==
  ASSUME Init
  PROVE  ObjectsInv
<1>1. /\ dbs = [c \in {d \in DOMAIN info : ~info[d].embedded} |-> Nothing]
      /\ truth = [c \in DOMAIN info |-> Nothing]
  BY DEF Init
<1>2. ASSUME NEW c \in DOMAIN info PROVE DOMAIN truth[c] = {} BY <1>1 DEF Nothing
<1>3. ASSUME NEW c \in DOMAIN info, c \in DOMAIN dbs
      PROVE  Held(info[c].props, dbs[c], truth[c], Stretched(c))
  <2>1. dbs[c] = Nothing BY <1>1, <1>3
  <2> QED BY <1>2, <2>1, HeldNone
<1> QED BY <1>2, <1>3 DEF ObjectsInv

-----------------------------------------------------------------------------
(* Writes.                                                                 *)

\* Property n of the application's schema is in slot k.
InSlot(schema, slots, col, n, k) ==
  /\ k \in DOMAIN slots /\ slots[k].name = schema.props[n].name /\ slots[k].name # None
  /\ slots[k].type = schema.props[n].type /\ slots[k].type \in Types
  /\ col.props[n] = [name |-> slots[k].name, type |-> slots[k].type, offset |-> k - 1]
  /\ k <= col.size

\* The collection has exactly the slots in use, all in its static section.
Columns(schema, slots, col) ==
  /\ slots \in Seq(Slots) /\ OneSlotEach(slots) /\ Live(slots) = Live(schema.props)
  /\ DOMAIN schema.props = 1..Len(schema.props) /\ Len(schema.props) \in Nat
  /\ \A m, n \in DOMAIN schema.props : schema.props[m].name = schema.props[n].name => m = n
  /\ DOMAIN col.props = DOMAIN schema.props
  /\ col.size \in Nat /\ col.size <= Len(slots)
  /\ \A n \in DOMAIN schema.props : \E k \in DOMAIN slots : InSlot(schema, slots, col, n, k)

LEMMA SizeFacts ==
  ASSUME NEW properties, NEW L \in Nat, DOMAIN properties = 1..L,
         (L = 0) <=> (properties = <<>>), NEW N \in Nat,
         \A n \in 1..L : properties[n].offset \in 0..(N - 1)
  PROVE  /\ StaticSize(properties) \in Nat /\ StaticSize(properties) <= N
         /\ \A n \in 1..L : properties[n].offset + 1 <= StaticSize(properties)
<1>1. CASE properties = <<>>
  <2>1. StaticSize(properties) = 0 BY <1>1 DEF StaticSize
  <2> QED BY <1>1, <2>1
<1>2. CASE properties # <<>>
  <2> DEFINE T == {properties[n].offset : n \in DOMAIN properties}
             max == CHOOSE o \in T : \A n \in DOMAIN properties : properties[n].offset <= o
  <2>1. 1 \in DOMAIN properties BY <1>2
  <2>2. T \subseteq 0..N /\ T # {}
    <3>1. \A n \in DOMAIN properties : properties[n].offset \in 0..N OBVIOUS
    <3> QED BY <2>1, <3>1
  <2>3. PICK x \in T : \A y \in T : y <= x
    <3> HIDE DEF T
    <3> QED BY <2>2, Greatest
  <2>4. \A n \in DOMAIN properties : properties[n].offset <= x BY <2>3
  <2>5. max \in T /\ \A n \in DOMAIN properties : properties[n].offset <= max
    <3> HIDE DEF T
    <3> QED BY <2>4
  <2>6. StaticSize(properties) = 1 + max BY <1>2 DEF StaticSize
  <2> HIDE DEF max
  <2>7. max \in Nat /\ max + 1 <= N BY <2>5
  <2>8. ASSUME NEW n \in 1..L PROVE properties[n].offset + 1 <= 1 + max
    <3>1. properties[n].offset \in Nat /\ properties[n].offset <= max BY <2>5
    <3> QED BY <2>7, <3>1
  <2> QED BY <2>6, <2>7, <2>8
<1> QED BY <1>1, <1>2

LEMMA CollectionColumns ==
  ASSUME NEW schema, NEW stored, NEW col, Verified(schema), Saved(stored),
         InPlace(schema, stored, col)
  PROVE  Columns(schema, stored.props, col) /\ col.indexes = schema.indexes
<1> DEFINE slots == stored.props
           properties == SortedProperties(schema, slots)
<1>1. /\ slots \in Seq(Slots) /\ OneSlotEach(slots) /\ DOMAIN slots = 1..Len(slots)
      /\ Len(slots) \in Nat /\ \A k \in DOMAIN slots : slots[k] \in Slots
  BY SavedFacts
<1>2. /\ schema.props \in Seq(Slots) /\ OneSlotEach(schema.props)
      /\ \A n \in DOMAIN schema.props : schema.props[n].name \in Live(schema.props)
      /\ \A m, n \in DOMAIN schema.props : schema.props[m].name = schema.props[n].name => m = n
  BY VerifiedFacts DEF Verified
<1>3. PICK L \in Nat : L = Len(schema.props) /\ DOMAIN schema.props = 1..L BY <1>2, LenProperties
<1>4. PICK N \in Nat : N = Len(slots) /\ DOMAIN slots = 1..N BY <1>1
<1>5. Live(slots) = Live(schema.props) /\ \A p \in Live(slots) : TypeIn(slots, p) = TypeIn(schema.props, p)
  BY DEF InPlace
<1>6. /\ col.props = properties /\ col.size = StaticSize(properties) /\ col.indexes = schema.indexes
  BY DEF InPlace, NewCollection
<1>7. /\ DOMAIN properties = 1..L
      /\ \A n \in 1..L : properties[n] = [name |-> schema.props[n].name, type |-> schema.props[n].type,
                                          offset |-> Offset(slots, schema.props[n].name)]
  BY <1>3 DEF SortedProperties
<1> HIDE DEF slots, properties
<1>8. ASSUME NEW n \in 1..L
      PROVE  \E k \in 1..N :
               /\ slots[k].name = schema.props[n].name /\ slots[k].name # None
               /\ slots[k].type = schema.props[n].type /\ slots[k].type \in Types
               /\ properties[n] = [name |-> slots[k].name, type |-> slots[k].type, offset |-> k - 1]
  <2>1. schema.props[n].name \in Live(slots) /\ n \in DOMAIN schema.props BY <1>2, <1>3, <1>5
  <2>2. PICK k \in DOMAIN slots : slots[k].name = schema.props[n].name /\ slots[k].name # None
    BY <2>1, SlotOf
  <2>3. TypeIn(slots, slots[k].name) = slots[k].type /\ Offset(slots, slots[k].name) = k - 1
    BY <1>1, <2>2, SlotFound
  <2>4. TypeIn(schema.props, schema.props[n].name) = schema.props[n].type
    BY <1>2, <2>1, <2>2, SlotFound
  <2>5. slots[k].type = schema.props[n].type BY <1>5, <2>1, <2>2, <2>3, <2>4
  <2>6. slots[k].type \in Types BY <1>1 DEF Slots
  <2> QED BY <1>4, <1>7, <2>2, <2>3, <2>5, <2>6
<1>9. \A n \in 1..L : properties[n].offset \in 0..(N - 1)
  <2>1. ASSUME NEW n \in 1..L PROVE properties[n].offset \in 0..(N - 1)
    <3>1. PICK k \in 1..N :
            properties[n] = [name |-> slots[k].name, type |-> slots[k].type, offset |-> k - 1]
      BY <1>8
    <3>2. properties[n].offset = k - 1 BY <3>1
    <3> QED BY <3>2
  <2> QED BY <2>1
<1>10. (L = 0) <=> (properties = <<>>)
  <2>1. ASSUME L = 0 PROVE properties = <<>>
    <3>1. properties \in [1..L -> {properties[n] : n \in 1..L}]
      <4>1. properties = [n \in 1..L |-> properties[n]] BY <1>3 DEF properties, SortedProperties
      <4> QED BY <4>1
    <3>2. PICK X : properties \in [1..L -> X] BY <3>1
    <3>3. properties \in Seq(X) BY <3>2
    <3>4. Len(properties) = 0
      <4>1. Len(properties) \in Nat /\ 1..Len(properties) = 1..L BY <1>7, <3>3, LenProperties
      <4> QED BY <2>1, <4>1
    <3> QED BY <3>3, <3>4, EmptySeq
  <2>2. ASSUME properties = <<>> PROVE L = 0
    <3>1. DOMAIN properties = {} BY <2>2
    <3>2. 1 \notin 1..L BY <1>7, <3>1
    <3> QED BY <3>2
  <2> QED BY <2>1, <2>2
<1>11. /\ StaticSize(properties) \in Nat /\ StaticSize(properties) <= N
       /\ \A n \in 1..L : properties[n].offset + 1 <= StaticSize(properties)
  BY <1>7, <1>9, <1>10, SizeFacts
<1>12. ASSUME NEW n \in 1..L PROVE \E k \in 1..N : InSlot(schema, slots, col, n, k)
  <2>1. PICK k \in 1..N :
          /\ slots[k].name = schema.props[n].name /\ slots[k].name # None
          /\ slots[k].type = schema.props[n].type /\ slots[k].type \in Types
          /\ properties[n] = [name |-> slots[k].name, type |-> slots[k].type, offset |-> k - 1]
    BY <1>8
  <2>2. k <= col.size
    <3>1. properties[n].offset = k - 1 BY <2>1
    <3> QED BY <1>6, <1>11, <3>1
  <2> QED BY <1>4, <1>6, <2>1, <2>2 DEF InSlot
<1>13. DOMAIN schema.props = 1..Len(schema.props) /\ Len(schema.props) \in Nat BY <1>3
<1>14. DOMAIN col.props = DOMAIN schema.props BY <1>3, <1>6, <1>7
<1>15. col.size \in Nat /\ col.size <= Len(slots) BY <1>4, <1>6, <1>11
<1>16. \A n \in DOMAIN schema.props : \E k \in DOMAIN slots : InSlot(schema, slots, col, n, k)
  BY <1>3, <1>4, <1>12
<1> QED BY <1>1, <1>2, <1>5, <1>6, <1>13, <1>14, <1>15, <1>16 DEF Columns, slots

\* The values an application may give the properties of a schema.
ValuesFor(props, values) ==
  /\ DOMAIN values = DOMAIN props /\ Len(values) = Len(props)
  /\ \A n \in DOMAIN props : values[n] \in Values(props[n].type)

LEMMA ContentsFacts ==
  ASSUME NEW c, NEW S, AppProps(c) \in Seq(S), NEW values \in Contents(c)
  PROVE  ValuesFor(AppProps(c), values)
<1>1. PICK props \in Seq(S), L \in Nat : props = AppProps(c) /\ L = Len(props) /\ DOMAIN props = 1..L
  BY LenProperties
<1> DEFINE V == {Null} \cup Ints \cup Strings
           Def(f) == [n \in 0..L |->
                        IF n = 0 THEN {<<>>}
                        ELSE {Append(given, v) : given \in f[n - 1], v \in Values(props[n].type)}]
           upTo == CHOOSE f : f = Def(f)
<1>2. Contents(c) = upTo[L] BY <1>1 DEF Contents
<1> HIDE DEF V
<1>3. \A n : Values(props[n].type) \subseteq V BY DEF Values, V
<1>4. \E f : f = Def(f)
  <2> DEFINE W == SUBSET Seq(V)
             G == [x \in W \X (1..L) |->
                     {Append(given, v) : given \in x[1], v \in Values(props[x[2]].type)}]
  <2>1. G \in [W \X (1..L) -> W]
    <3>1. ASSUME NEW T \in W, NEW n \in 1..L
          PROVE  {Append(given, v) : given \in T, v \in Values(props[n].type)} \in W
      <4>1. ASSUME NEW e \in {Append(given, v) : given \in T, v \in Values(props[n].type)}
            PROVE  e \in Seq(V)
        <5>1. PICK given \in T, v \in Values(props[n].type) : e = Append(given, v) OBVIOUS
        <5>2. given \in Seq(V) /\ v \in V BY <1>3
        <5> QED BY <5>1, <5>2, AppendProperties
      <4> QED BY <4>1
    <3>2. ASSUME NEW x \in W \X (1..L)
          PROVE  {Append(given, v) : given \in x[1], v \in Values(props[x[2]].type)} \in W
      <4>1. PICK T \in W, n \in 1..L : T = x[1] /\ n = x[2]
        <5> HIDE DEF W
        <5> QED OBVIOUS
      <4>2. {Append(given, v) : given \in T, v \in Values(props[n].type)} \in W BY <3>1
      <4> HIDE DEF W
      <4> QED BY <4>1, <4>2
    <3> HIDE DEF W
    <3> QED BY <3>2
  <2>2. {<<>>} \in W OBVIOUS
  <2>3. PICK f \in [0..L -> W] : Steps(f, {<<>>}, G, L)
    <3> HIDE DEF G, W
    <3> QED BY <2>1, <2>2, Recursion
  <2>4. ASSUME NEW n \in 1..L
        PROVE  f[n] = {Append(given, v) : given \in f[n - 1], v \in Values(props[n].type)}
    <3>1. n - 1 \in 0..L OBVIOUS
    <3>2. <<f[n - 1], n>> \in W \X (1..L)
      <4> HIDE DEF W, G
      <4> QED BY <3>1
    <3>3. f[n] = G[<<f[n - 1], n>>]
      <4> HIDE DEF W, G
      <4> QED BY <2>3 DEF Steps
    <3> HIDE DEF W
    <3> QED BY <3>2, <3>3
  <2>5. f[0] = {<<>>} BY <2>3 DEF Steps
  <2>6. ASSUME NEW n \in 0..L PROVE f[n] = Def(f)[n]
    <3>1. n = 0 \/ n \in 1..L OBVIOUS
    <3> QED BY <2>4, <2>5, <3>1
  <2>7. f = Def(f)
    <3> HIDE DEF W
    <3> QED BY <2>6
  <2> HIDE DEF Def
  <2> QED BY <2>7
<1>5. upTo = Def(upTo)
  <2> HIDE DEF Def
  <2> QED BY <1>4
<1> HIDE DEF upTo
<1>6. upTo[0] = {<<>>} BY <1>5
<1>7. ASSUME NEW n \in 1..L
      PROVE  upTo[n] = {Append(given, v) : given \in upTo[n - 1], v \in Values(props[n].type)}
  <2>1. n \in 0..L /\ n # 0 OBVIOUS
  <2>2. upTo[n] = Def(upTo)[n]
    <3> HIDE DEF Def
    <3> QED BY <1>5
  <2> HIDE <1>5
  <2> QED BY <2>1, <2>2
<1> HIDE DEF Def
<1> DEFINE Fits(g, k) == g \in Seq(V) /\ Len(g) = k /\ \A j \in 1..k : g[j] \in Values(props[j].type)
           P(k) == \A g \in upTo[k] : Fits(g, k)
           T == {k \in 0..L : P(k)}
<1>8. P(0)
  <2>1. Fits(<<>>, 0) OBVIOUS
  <2> HIDE DEF Fits
  <2> QED BY <1>6, <2>1
<1>9. ASSUME NEW k \in 1..L, P(k - 1) PROVE P(k)
  <2>1. ASSUME NEW g \in upTo[k] PROVE Fits(g, k)
    <3>1. PICK given \in upTo[k - 1], v \in Values(props[k].type) : g = Append(given, v) BY <1>7
    <3>2. Fits(given, k - 1) BY <1>9
    <3>3. v \in V /\ given \in Seq(V) /\ Len(given) = k - 1 BY <1>3, <3>2
    <3>4. /\ g \in Seq(V) /\ Len(g) = (k - 1) + 1 /\ g[(k - 1) + 1] = v
          /\ \A j \in 1..(k - 1) : g[j] = given[j]
      BY <3>1, <3>3, AppendProperties
    <3>5. g[k] = v /\ Len(g) = k BY <3>4
    <3>6. \A j \in 1..k : j = k \/ j \in 1..(k - 1) OBVIOUS
    <3> QED BY <3>2, <3>4, <3>5, <3>6
  <2> QED BY <2>1
<1>10. P(L)
  <2> HIDE DEF P
  <2>1. 0 \in T BY <1>8
  <2>2. \A n \in 1..L : n - 1 \in T => n \in T BY <1>9
  <2>3. 0..L \subseteq T
    <3> HIDE DEF T
    <3> QED BY <2>1, <2>2, Upward
  <2> QED BY <2>3
<1>11. Fits(values, L) BY <1>2, <1>10
<1>12. DOMAIN values = 1..L BY <1>11, LenProperties
<1> QED BY <1>1, <1>11, <1>12 DEF ValuesFor

\* An object with the collection's static section.
ObjectOf(col, slots, o) ==
  \E s \in Seq(Nat) : o = Obj(col.size, s) /\ col.size <= Len(s) /\ Strung(col.size, s, slots)

\* What the collection reads in the place of property n.
ReadColumn(col, o, n) == Read(o, col.props[n].offset, col.props[n].type)

\* w is o with a value written to property n, in one of the two ways.
IsWritten(col, o, n, value, w) ==
  \/ w = Write(o, col.props[n].offset, col.props[n].type, value)
  \/ /\ w = Rewrite(o, col.props[n].offset, col.props[n].type, value)
     /\ w # Panic

\* A write to one column leaves the others alone.
LEMMA ColumnWritten ==
  ASSUME NEW schema, NEW slots, NEW col, Columns(schema, slots, col), NEW o, ObjectOf(col, slots, o),
         NEW n \in DOMAIN schema.props, NEW value \in Values(schema.props[n].type), NEW w,
         IsWritten(col, o, n, value, w)
  PROVE  /\ ObjectOf(col, slots, w) /\ ReadColumn(col, w, n) = value
         /\ \A m \in DOMAIN schema.props \ {n} : ReadColumn(col, w, m) = ReadColumn(col, o, m)
<1>1. PICK k \in DOMAIN slots : InSlot(schema, slots, col, n, k) BY DEF Columns
<1>2. PICK z \in Nat : z = col.size BY DEF Columns
<1>3. PICK s \in Seq(Nat) : o = Obj(z, s) /\ z <= Len(s) /\ Strung(z, s, slots)
  BY <1>2 DEF ObjectOf
<1>4. PICK type \in Types : type = slots[k].type /\ type = schema.props[n].type BY <1>1 DEF InSlot
<1>5. /\ col.props[n].offset = k - 1 /\ col.props[n].type = type
      /\ k <= z /\ slots[k].name # None /\ slots \in Seq(Slots)
  BY <1>1, <1>2, <1>4 DEF InSlot, Columns
<1>6. value \in Values(type) BY <1>4
<1>7. PICK t \in Seq(Nat) : w = Obj(z, t) /\ Wrote(z, s, t, slots, k, value)
  <2>1. CASE w = Write(o, col.props[n].offset, col.props[n].type, value)
    <3>1. w = Write(Obj(z, s), k - 1, type, value) BY <1>3, <1>5, <2>1
    <3>2. \E t \in Seq(Nat) : /\ Write(Obj(z, s), k - 1, type, value) = Obj(z, t)
                              /\ Wrote(z, s, t, slots, k, value)
      BY <1>3, <1>4, <1>5, <1>6, Written
    <3> QED BY <3>1, <3>2
  <2>2. CASE w = Rewrite(o, col.props[n].offset, col.props[n].type, value) /\ w # Panic
    <3>1. w = Rewrite(Obj(z, s), k - 1, type, value) /\ w # Panic BY <1>3, <1>5, <2>2
    <3>2. \E t \in Seq(Nat) : /\ Rewrite(Obj(z, s), k - 1, type, value) = Obj(z, t)
                              /\ Wrote(z, s, t, slots, k, value)
      BY <1>3, <1>4, <1>5, <1>6, <3>1, Rewritten
    <3> QED BY <3>1, <3>2
  <2> QED BY <2>1, <2>2 DEF IsWritten
<1>8. ObjectOf(col, slots, w) BY <1>2, <1>7 DEF Wrote, ObjectOf
<1>9. ReadColumn(col, w, n) = value BY <1>4, <1>5, <1>7 DEF Wrote, ReadColumn
<1>10. ASSUME NEW m \in DOMAIN schema.props \ {n} PROVE ReadColumn(col, w, m) = ReadColumn(col, o, m)
  <2>1. PICK j \in DOMAIN slots : InSlot(schema, slots, col, m, j) BY DEF Columns
  <2>2. col.props[m].offset = j - 1 /\ col.props[m].type = slots[j].type BY <2>1 DEF InSlot
  <2>3. j # k
    <3>1. schema.props[m].name # schema.props[n].name BY DEF Columns
    <3> QED BY <1>1, <2>1, <3>1 DEF InSlot
  <2>4. j \in Others(slots, k, z) BY <1>2, <2>1, <2>3 DEF Others, InSlot
  <2>5. Read(Obj(z, t), j - 1, slots[j].type) = Read(Obj(z, s), j - 1, slots[j].type)
    BY <1>7, <2>4 DEF Wrote
  <2> QED BY <1>3, <1>7, <2>2, <2>5 DEF ReadColumn
<1> QED BY <1>8, <1>9, <1>10

\* What the columns read is the view of the object.
LEMMA ColumnsView ==
  ASSUME NEW schema, NEW slots, NEW col, Columns(schema, slots, col), NEW o, ObjectOf(col, slots, o)
  PROVE  /\ Sound(slots, o) /\ DOMAIN View(slots, o) = Live(schema.props)
         /\ \A n \in DOMAIN schema.props :
              /\ schema.props[n].name \in Live(schema.props)
              /\ View(slots, o)[schema.props[n].name] = ReadColumn(col, o, n)
<1>1. Sound(slots, o) BY DEF ObjectOf, Sound, Columns
<1>2. View(slots, o) = [p \in Live(schema.props) |-> Read(o, Offset(slots, p), TypeIn(slots, p))]
  BY DEF View, Columns
<1>3. ASSUME NEW n \in DOMAIN schema.props
      PROVE  /\ schema.props[n].name \in Live(schema.props)
             /\ View(slots, o)[schema.props[n].name] = ReadColumn(col, o, n)
  <2>1. PICK k \in DOMAIN slots : InSlot(schema, slots, col, n, k) BY DEF Columns
  <2>2. slots[k].name = schema.props[n].name /\ slots[k].name # None
        /\ col.props[n].offset = k - 1 /\ col.props[n].type = slots[k].type
    BY <2>1 DEF InSlot
  <2>3. schema.props[n].name \in Live(schema.props) BY <2>2 DEF Live
  <2>4. Offset(slots, slots[k].name) = k - 1 /\ TypeIn(slots, slots[k].name) = slots[k].type
    BY <2>2, SlotFound DEF Columns
  <2> QED BY <1>2, <2>2, <2>3, <2>4 DEF ReadColumn
<1> QED BY <1>1, <1>2, <1>3

\* What the writer makes of the values.
LEMMA SerializedObject ==
  ASSUME NEW c, NEW schema, NEW slots, NEW col, col = cols[c], schema.props = AppProps(c),
         Columns(schema, slots, col), NEW values, ValuesFor(schema.props, values)
  PROVE  /\ Sound(slots, Serialized(c, values))
         /\ View(slots, Serialized(c, values)) = Given(c, values)
<1>1. PICK L \in Nat : /\ L = Len(schema.props) /\ DOMAIN schema.props = 1..L
                       /\ L = Len(values) /\ DOMAIN values = 1..L
  BY DEF Columns, ValuesFor
<1>2. ASSUME NEW n \in 1..L
      PROVE  /\ values[n] \in Values(schema.props[n].type)
             /\ col.props[n].type = schema.props[n].type
  <2>1. PICK k \in DOMAIN slots : InSlot(schema, slots, col, n, k) BY <1>1 DEF Columns
  <2> QED BY <1>1, <2>1 DEF InSlot, ValuesFor
<1>3. PICK app : app = schema.props /\ app = AppProps(c) OBVIOUS
<1> DEFINE put(o, n) == Write(o, col.props[n].offset, col.props[n].type, values[n])
           Def(f) == [n \in 0..L |->
                        IF n = 0 THEN Begin(<<>>, col.size)
                        ELSE IF col.props[n].type # app[n].type THEN f[n - 1]
                        ELSE put(f[n - 1], n)]
           upTo == CHOOSE f : f = Def(f)
           V == {Obj(col.size, s) : s \in {r \in Seq(Nat) : col.size <= Len(r) /\ Strung(col.size, r, slots)}}
<1>4. Serialized(c, values) = upTo[L] BY <1>1, <1>3 DEF Serialized
<1>5. \A o : o \in V <=> ObjectOf(col, slots, o) BY DEF ObjectOf
<1> HIDE DEF V
<1>6. Begin(<<>>, col.size) \in V
  <2>1. PICK z \in Nat : z = col.size BY DEF Columns
  <2>2. slots \in Seq(Slots) BY DEF Columns
  <2>3. PICK s \in Seq(Nat) : Begin(<<>>, z) = Obj(z, s) /\ z <= Len(s) /\ Strung(z, s, slots)
    BY <2>2, Began
  <2>4. ObjectOf(col, slots, Begin(<<>>, col.size)) BY <2>1, <2>3 DEF ObjectOf
  <2> QED BY <1>5, <2>4
<1>7. ASSUME NEW o \in V, NEW n \in 1..L
      PROVE  /\ put(o, n) \in V /\ ReadColumn(col, put(o, n), n) = values[n]
             /\ \A m \in 1..L \ {n} : ReadColumn(col, put(o, n), m) = ReadColumn(col, o, m)
  <2>1. PICK w : w = put(o, n) OBVIOUS
  <2>2. ObjectOf(col, slots, o) /\ n \in DOMAIN schema.props BY <1>1, <1>5
  <2>3. PICK value \in Values(schema.props[n].type) : value = values[n] BY <1>2
  <2>4. IsWritten(col, o, n, value, w) BY <2>1, <2>3 DEF IsWritten
  <2>5. /\ ObjectOf(col, slots, w) /\ ReadColumn(col, w, n) = value
        /\ \A m \in DOMAIN schema.props \ {n} : ReadColumn(col, w, m) = ReadColumn(col, o, m)
    BY <2>2, <2>4, ColumnWritten
  <2> HIDE DEF put
  <2> QED BY <1>1, <1>5, <2>1, <2>3, <2>5
<1> HIDE DEF put
<1>8. \E f : f = Def(f)
  <2> DEFINE G == [x \in V \X (1..L) |-> put(x[1], x[2])]
  <2>1. G \in [V \X (1..L) -> V]
    <3>1. ASSUME NEW x \in V \X (1..L) PROVE put(x[1], x[2]) \in V
      <4>1. PICK o \in V, n \in 1..L : o = x[1] /\ n = x[2] OBVIOUS
      <4>2. put(o, n) \in V BY <1>7
      <4> QED BY <4>1, <4>2
    <3> QED BY <3>1
  <2>2. PICK f \in [0..L -> V] : Steps(f, Begin(<<>>, col.size), G, L)
    <3> HIDE DEF G
    <3>1. PICK b \in V : b = Begin(<<>>, col.size) BY <1>6
    <3> QED BY <2>1, <3>1, Recursion
  <2>3. ASSUME NEW n \in 1..L PROVE f[n] = put(f[n - 1], n)
    <3>1. n - 1 \in 0..L OBVIOUS
    <3>2. <<f[n - 1], n>> \in V \X (1..L) BY <3>1
    <3>3. f[n] = G[<<f[n - 1], n>>]
      <4> HIDE DEF G
      <4> QED BY <2>2 DEF Steps
    <3> QED BY <3>2, <3>3
  <2>4. f[0] = Begin(<<>>, col.size) BY <2>2 DEF Steps
  <2>5. ASSUME NEW n \in 0..L PROVE f[n] = Def(f)[n]
    <3>1. n = 0 \/ n \in 1..L OBVIOUS
    <3>2. CASE n = 0 BY <2>4, <3>2
    <3>3. CASE n \in 1..L
      <4>1. col.props[n].type = app[n].type BY <1>2, <1>3, <3>3
      <4> QED BY <2>3, <3>3, <4>1
    <3> QED BY <3>1, <3>2, <3>3
  <2>6. f = Def(f) BY <2>5
  <2> HIDE DEF Def
  <2> QED BY <2>6
<1>9. upTo = Def(upTo)
  <2> HIDE DEF Def
  <2> QED BY <1>8
<1> HIDE DEF upTo
<1>10. upTo[0] = Begin(<<>>, col.size) BY <1>9
<1>11. ASSUME NEW n \in 1..L PROVE upTo[n] = put(upTo[n - 1], n)
  <2>1. n \in 0..L /\ n # 0 /\ col.props[n].type = app[n].type BY <1>2, <1>3
  <2>2. upTo[n] = Def(upTo)[n]
    <3> HIDE DEF Def
    <3> QED BY <1>9
  <2> HIDE <1>9
  <2> QED BY <2>1, <2>2
<1> HIDE DEF Def
<1> DEFINE P(k) == upTo[k] \in V /\ \A j \in 1..k : ReadColumn(col, upTo[k], j) = values[j]
           T == {k \in 0..L : P(k)}
<1>12. P(0) BY <1>6, <1>10
<1>13. ASSUME NEW k \in 1..L, P(k - 1) PROVE P(k)
  <2>1. PICK o \in V : o = upTo[k - 1] BY <1>13
  <2>2. upTo[k] = put(o, k) BY <1>11, <2>1
  <2>3. /\ put(o, k) \in V /\ ReadColumn(col, put(o, k), k) = values[k]
        /\ \A m \in 1..L \ {k} : ReadColumn(col, put(o, k), m) = ReadColumn(col, o, m)
    BY <1>7
  <2>4. \A j \in 1..k : j = k \/ (j \in 1..(k - 1) /\ j \in 1..L \ {k}) OBVIOUS
  <2> QED BY <1>13, <2>1, <2>2, <2>3, <2>4
<1>14. P(L)
  <2> HIDE DEF P
  <2>1. 0 \in T BY <1>12
  <2>2. \A n \in 1..L : n - 1 \in T => n \in T BY <1>13
  <2>3. 0..L \subseteq T
    <3> HIDE DEF T
    <3> QED BY <2>1, <2>2, Upward
  <2> QED BY <2>3
<1>15. PICK o : o = Serialized(c, values) OBVIOUS
<1>16. ObjectOf(col, slots, o) /\ \A n \in 1..L : ReadColumn(col, o, n) = values[n]
  BY <1>4, <1>5, <1>14, <1>15
<1>17. /\ Sound(slots, o) /\ DOMAIN View(slots, o) = Live(app)
       /\ \A n \in 1..L : app[n].name \in Live(app) /\ View(slots, o)[app[n].name] = values[n]
  BY <1>1, <1>3, <1>16, ColumnsView
<1>18. ASSUME NEW p \in Live(app)
       PROVE  View(slots, o)[p] = values[CHOOSE n \in DOMAIN values : app[n].name = p]
  <2>1. PICK n \in 1..L : app[n].name = p BY <1>1, <1>3, SlotOf
  <2>2. (CHOOSE m \in DOMAIN values : app[m].name = p) = n
    <3>1. \A m \in 1..L : app[m].name = p => m = n BY <1>1, <1>3, <2>1 DEF Columns
    <3> QED BY <1>1, <2>1, <3>1
  <2> QED BY <1>17, <2>1, <2>2
<1>19. View(slots, o) = [p \in Live(app) |-> values[CHOOSE n \in DOMAIN values : app[n].name = p]]
  <2>1. View(slots, o) = [p \in Live(app) |-> View(slots, o)[p]] BY <1>17 DEF View
  <2> QED BY <1>18, <2>1
<1>20. View(slots, o) = Given(c, values) BY <1>3, <1>19 DEF Given
<1> QED BY <1>15, <1>17, <1>20

\* What the columns read of an object that is as large as the collection's
\* objects, after one of them was written anew.
Reworked(col, old, n, value, w) ==
  /\ w = Rewrite(Begin(old.cells, col.size), col.props[n].offset, col.props[n].type, value)
  /\ w # Panic

LEMMA ColumnRewritten ==
  ASSUME NEW schema, NEW slots, NEW col, Columns(schema, slots, col), NEW old, Sound(slots, old),
         ~(old.size < col.size),
         NEW n \in DOMAIN schema.props, NEW value \in Values(schema.props[n].type), NEW w,
         Reworked(col, old, n, value, w)
  PROVE  /\ Sound(slots, w)
         /\ View(slots, w) = [View(slots, old) EXCEPT ![schema.props[n].name] = value]
<1>1. PICK y \in Nat : y = col.size BY DEF Columns
<1>2. PICK z \in Nat, s \in Seq(Nat) :
        old = Obj(z, s) /\ z <= Len(s) /\ z <= Len(slots) /\ Strung(z, s, slots)
  BY DEF Sound
<1>3. old.size = z /\ old.cells = s /\ y <= z
  <2>1. old.size = z /\ old.cells = s BY <1>2 DEF Obj
  <2> QED BY <1>1, <2>1
<1>4. slots \in Seq(Slots) BY DEF Columns
<1>5. /\ Begin(s, y) = Obj(y, s) /\ y <= Len(s) /\ Strung(y, s, slots)
      /\ \A k \in DOMAIN slots : k <= y /\ slots[k].name # None =>
           Read(Obj(y, s), k - 1, slots[k].type) = Read(Obj(z, s), k - 1, slots[k].type)
  BY <1>2, <1>3, <1>4, Shortened
<1>6. PICK o : o = Obj(y, s) OBVIOUS
<1>7. ObjectOf(col, slots, o) BY <1>1, <1>5, <1>6 DEF ObjectOf
<1>8. w = Rewrite(o, col.props[n].offset, col.props[n].type, value)
  BY <1>1, <1>3, <1>5, <1>6 DEF Reworked
<1>9. /\ ObjectOf(col, slots, w) /\ ReadColumn(col, w, n) = value
      /\ \A m \in DOMAIN schema.props \ {n} : ReadColumn(col, w, m) = ReadColumn(col, o, m)
  <2>1. IsWritten(col, o, n, value, w) BY <1>8 DEF IsWritten, Reworked
  <2> QED BY <1>7, <2>1, ColumnWritten
<1>10. ASSUME NEW m \in DOMAIN schema.props
       PROVE  ReadColumn(col, o, m) = View(slots, old)[schema.props[m].name]
  <2>1. PICK k \in DOMAIN slots : InSlot(schema, slots, col, m, k) BY DEF Columns
  <2>2. /\ slots[k].name = schema.props[m].name /\ slots[k].name # None /\ k <= y
        /\ col.props[m].offset = k - 1 /\ col.props[m].type = slots[k].type
    BY <1>1, <2>1 DEF InSlot
  <2>3. ReadColumn(col, o, m) = Read(old, k - 1, slots[k].type)
    BY <1>2, <1>5, <1>6, <2>2 DEF ReadColumn
  <2>4. Offset(slots, slots[k].name) = k - 1 /\ TypeIn(slots, slots[k].name) = slots[k].type
    BY <2>2, SlotFound DEF Columns
  <2>5. schema.props[m].name \in Live(slots) BY <2>2 DEF Live
  <2> QED BY <2>2, <2>3, <2>4, <2>5 DEF View
<1>11. /\ Sound(slots, w) /\ DOMAIN View(slots, w) = Live(schema.props)
       /\ \A m \in DOMAIN schema.props : View(slots, w)[schema.props[m].name] = ReadColumn(col, w, m)
  BY <1>9, ColumnsView
<1>12. DOMAIN View(slots, old) = Live(schema.props) BY DEF View, Columns
<1>13. ASSUME NEW p \in Live(schema.props)
       PROVE  View(slots, w)[p] = IF p = schema.props[n].name THEN value ELSE View(slots, old)[p]
  <2>1. PICK m \in DOMAIN schema.props : schema.props[m].name = p BY SlotOf
  <2>2. m = n <=> p = schema.props[n].name BY <2>1 DEF Columns
  <2>3. View(slots, w)[p] = ReadColumn(col, w, m) BY <1>11, <2>1
  <2>4. m # n => ReadColumn(col, w, m) = View(slots, old)[p] BY <1>9, <1>10, <2>1
  <2> QED BY <1>9, <2>2, <2>3, <2>4
<1>14. View(slots, w) = [View(slots, old) EXCEPT ![schema.props[n].name] = value]
  <2>1. View(slots, w) = [p \in Live(schema.props) |-> View(slots, w)[p]] BY <1>11 DEF View
  <2>2. [View(slots, old) EXCEPT ![schema.props[n].name] = value] =
          [p \in Live(schema.props) |->
             IF p = schema.props[n].name THEN value ELSE View(slots, old)[p]]
    BY <1>12
  <2> QED BY <1>13, <2>1, <2>2
<1> QED BY <1>11, <1>14

\* A collection of an open database, and the schema it was opened with.
LEMMA OpenCollection ==
  ASSUME SchemaInv, phase = "open", NEW c \in DOMAIN cols
  PROVE  /\ c \in DOMAIN info /\ c \in DOMAIN truth
         /\ ~cols[c].embedded => c \in DOMAIN dbs
         /\ cols[c].indexes = info[c].indexes /\ IndexesVerified(info[c])
         /\ \E schema : /\ Columns(schema, info[c].props, cols[c]) /\ schema.props = AppProps(c)
                        /\ Verified(schema) /\ info[c].indexes = schema.indexes
<1>1. want \in Schemas /\ DOMAIN cols = ReadyNames /\ Ready = DOMAIN want
  BY DEF SchemaInv, Progress, Ready
<1>2. PICK m \in DOMAIN want : want[m].name = c BY <1>1 DEF ReadyNames
<1>3. PICK schema : schema = want[m] OBVIOUS
<1>4. PICK stored, col : stored = info[c] /\ col = cols[c] OBVIOUS
<1>5. c \in DOMAIN info /\ InPlace(schema, stored, col)
  BY <1>1, <1>2, <1>3, <1>4 DEF SchemaInv, Progress
<1>6. Verified(schema) BY <1>1, <1>3, WantFacts
<1>7. Saved(stored) BY <1>4, <1>5 DEF SchemaInv, Databases
<1>8. Columns(schema, stored.props, col) /\ col.indexes = schema.indexes
  BY <1>5, <1>6, <1>7, CollectionColumns
<1>9. (CHOOSE n \in DOMAIN want : want[n].name = c) = m BY <1>1, <1>2, WantFacts
<1>10. schema.props = AppProps(c) BY <1>3, <1>9 DEF AppProps
<1>11. /\ stored.indexes = schema.indexes /\ stored.embedded = schema.embedded
       /\ col.embedded = schema.embedded
  BY <1>5 DEF InPlace, NewCollection
<1>12. c \in DOMAIN truth /\ (~stored.embedded => c \in DOMAIN dbs)
  BY <1>4, <1>5 DEF SchemaInv, Databases
<1> QED BY <1>4, <1>5, <1>6, <1>7, <1>8, <1>10, <1>11, <1>12 DEF Saved

\* A write to one collection.
LEMMA OneCollection ==
  ASSUME ObjectsInv, UNCHANGED info, NEW c \in DOMAIN info, c \in DOMAIN dbs,
         DOMAIN dbs' = DOMAIN dbs, \A d \in DOMAIN dbs \ {c} : dbs'[d] = dbs[d],
         \A d \in DOMAIN info \ {c} : truth'[d] = truth[d],
         \A d : d # c => \A id : <<d, id>> \in stretched' <=> <<d, id>> \in stretched,
         Held(info[c].props, dbs'[c], truth'[c], Stretched(c)')
  PROVE  ObjectsInv'
<1>1. ASSUME NEW d \in DOMAIN info
      PROVE  IF d \in DOMAIN dbs' THEN Held(info[d].props, dbs'[d], truth'[d], Stretched(d)')
                                  ELSE DOMAIN truth'[d] = {}
  <2>1. CASE d = c BY <2>1
  <2>2. CASE d # c
    <3>1. Stretched(d)' = Stretched(d) BY <2>2 DEF Stretched
    <3>2. truth'[d] = truth[d] /\ (d \in DOMAIN dbs => dbs'[d] = dbs[d]) BY <2>2
    <3> QED BY <3>1, <3>2 DEF ObjectsInv
  <2> QED BY <2>1, <2>2
<1> QED BY <1>1 DEF ObjectsInv

LEMMA PutObjects ==
  ASSUME SchemaInv, ObjectsInv, NEW c \in Collection, NEW id \in Id, phase = "open",
         c \in DOMAIN cols, ~cols[c].embedded, NEW values \in Contents(c), Put(c, id, values)
  PROVE  ObjectsInv'
<1>1. PICK object, gone : object = Serialized(c, values) /\ gone = Evicted(c, id, object) OBVIOUS
<1>2. PICK given : given = Given(c, values) OBVIOUS
<1>3. /\ Store(c, id, object) /\ truth' = [truth EXCEPT ![c] = Set(Without(@, gone), id, given)]
      /\ stretched' = stretched \ {<<c, x>> : x \in gone \cup {id}}
  BY <1>1, <1>2 DEF Put
<1>4. c \in DOMAIN info /\ c \in DOMAIN truth /\ c \in DOMAIN dbs BY OpenCollection
<1>5. PICK slots, col, schema :
        /\ slots = info[c].props /\ col = cols[c] /\ Columns(schema, slots, col)
        /\ schema.props = AppProps(c) /\ Verified(schema)
  BY OpenCollection
<1>6. Sound(slots, object) /\ View(slots, object) = given
  <2>1. schema.props \in Seq(Slots) BY <1>5, VerifiedFacts
  <2>2. ValuesFor(schema.props, values)
    <3>1. AppProps(c) \in Seq(Slots) BY <1>5, <2>1
    <3> QED BY <1>5, <3>1, ContentsFacts
  <2> QED BY <1>1, <1>2, <1>5, <2>2, SerializedObject
<1>7. /\ UNCHANGED info /\ DOMAIN dbs' = DOMAIN dbs /\ \A d \in DOMAIN dbs \ {c} : dbs'[d] = dbs[d]
      /\ dbs'[c] = Set(Without(dbs[c], gone), id, object)
  BY <1>1, <1>3, <1>4, StoreDomains
<1>8. truth'[c] = Set(Without(truth[c], gone), id, given)
      /\ \A d \in DOMAIN truth \ {c} : truth'[d] = truth[d]
  BY <1>3, <1>4
<1>9. PICK objects, facts : objects = dbs[c] /\ facts = truth[c] OBVIOUS
<1>10. Held(slots, objects, facts, Stretched(c)) BY <1>4, <1>5, <1>9 DEF ObjectsInv
<1>11. Held(slots, dbs'[c], truth'[c], Stretched(c)')
  <2>1. /\ dbs'[c] = Set(Without(objects, gone), id, object)
        /\ truth'[c] = Set(Without(facts, gone), id, given)
    BY <1>7, <1>8, <1>9
  <2>2. PICK objects2, facts2 : objects2 = dbs'[c] /\ facts2 = truth'[c] OBVIOUS
  <2>3. /\ DOMAIN objects2 = (DOMAIN objects \ gone) \cup {id} /\ objects2[id] = object
        /\ \A x \in DOMAIN objects2 \ {id} : objects2[x] = objects[x]
    BY <2>1, <2>2 DEF Set, Without
  <2>4. /\ DOMAIN facts2 = (DOMAIN facts \ gone) \cup {id} /\ facts2[id] = given
        /\ \A x \in DOMAIN facts2 \ {id} : facts2[x] = facts[x]
    BY <2>1, <2>2 DEF Set, Without
  <2>5. Stretched(c)' = Stretched(c) \ (gone \cup {id}) BY <1>3 DEF Stretched
  <2>6. DOMAIN objects2 \subseteq Id /\ DOMAIN facts2 = DOMAIN objects2
    BY <1>10, <2>3, <2>4 DEF Held
  <2>7. ASSUME NEW x \in DOMAIN objects2 \ Stretched(c)'
        PROVE  Sound(slots, objects2[x]) /\ facts2[x] = View(slots, objects2[x])
    <3>1. CASE x = id BY <1>6, <2>3, <2>4, <3>1
    <3>2. CASE x # id
      <4>1. x \in DOMAIN objects /\ x \notin gone BY <2>3, <3>2
      <4>2. x \in DOMAIN objects \ Stretched(c) BY <2>5, <2>7, <3>2, <4>1
      <4> QED BY <1>10, <2>3, <2>4, <2>6, <3>2, <4>2 DEF Held
    <3> QED BY <3>1, <3>2
  <2>8. Held(slots, objects2, facts2, Stretched(c)') BY <2>6, <2>7 DEF Held
  <2> QED BY <2>2, <2>8
<1>12. \A d : d # c => \A x : <<d, x>> \in stretched' <=> <<d, x>> \in stretched BY <1>3
<1>13. DOMAIN truth = DOMAIN info BY DEF SchemaInv, Databases
<1> QED BY <1>4, <1>5, <1>7, <1>8, <1>11, <1>12, <1>13, OneCollection

LEMMA UpdateObjects ==
  ASSUME SchemaInv, ObjectsInv, NEW c \in Collection, NEW id \in Id, phase = "open",
         c \in DOMAIN cols, ~cols[c].embedded, id \in DOMAIN dbs[c],
         NEW n \in DOMAIN cols[c].props, NEW value \in Values(cols[c].props[n].type),
         Update(c, id, n, value)
  PROVE  ObjectsInv'
<1>1. PICK object, gone : object = Updated(c, id, n, value) /\ gone = Evicted(c, id, object) OBVIOUS
<1>2. PICK name : name = AppProps(c)[n].name OBVIOUS
<1>3. /\ object # Panic /\ Store(c, id, object)
      /\ truth' = [truth EXCEPT ![c] = [Without(@, gone) EXCEPT ![id][name] = value]]
      /\ stretched' = (stretched \ {<<c, x>> : x \in gone})
                      \cup (IF dbs[c][id].size < cols[c].size THEN {<<c, id>>} ELSE {})
  BY <1>1, <1>2 DEF Update
<1>4. c \in DOMAIN info /\ c \in DOMAIN truth /\ c \in DOMAIN dbs BY OpenCollection
<1>5. PICK slots, col, schema :
        /\ slots = info[c].props /\ col = cols[c] /\ Columns(schema, slots, col)
        /\ schema.props = AppProps(c) /\ Verified(schema)
  BY OpenCollection
<1>6. id \notin gone BY <1>1 DEF Evicted
<1>7. /\ UNCHANGED info /\ DOMAIN dbs' = DOMAIN dbs /\ \A d \in DOMAIN dbs \ {c} : dbs'[d] = dbs[d]
      /\ dbs'[c] = Set(Without(dbs[c], gone), id, object)
  BY <1>1, <1>3, <1>4, StoreDomains
<1>8. truth'[c] = [Without(truth[c], gone) EXCEPT ![id][name] = value]
      /\ \A d \in DOMAIN truth \ {c} : truth'[d] = truth[d]
  BY <1>3, <1>4
<1>9. PICK objects, facts, old : objects = dbs[c] /\ facts = truth[c] /\ old = objects[id] OBVIOUS
<1>10. Held(slots, objects, facts, Stretched(c)) BY <1>4, <1>5, <1>9 DEF ObjectsInv
<1>11. \A x : <<c, x>> \in stretched' <=>
                \/ <<c, x>> \in stretched /\ x \notin gone
                \/ x = id /\ old.size < col.size
  BY <1>3, <1>5, <1>9
<1>12. ASSUME id \notin Stretched(c)'
       PROVE  Sound(slots, object) /\ View(slots, object) = [facts[id] EXCEPT ![name] = value]
  <2>1. id \notin Stretched(c) /\ ~(old.size < col.size) BY <1>6, <1>11, <1>12 DEF Stretched
  <2>2. Sound(slots, old) /\ facts[id] = View(slots, old) BY <1>9, <1>10, <2>1 DEF Held
  <2>3. n \in DOMAIN schema.props BY <1>5 DEF Columns
  <2>4. PICK new \in Values(schema.props[n].type) : new = value
    <3>1. PICK k \in DOMAIN slots : InSlot(schema, slots, col, n, k) BY <1>5, <2>3 DEF Columns
    <3>2. col.props[n].type = schema.props[n].type BY <3>1 DEF InSlot
    <3> QED BY <1>5, <3>2
  <2>5. object = Rewrite(Begin(old.cells, col.size), col.props[n].offset, col.props[n].type, new)
    BY <1>1, <1>5, <1>9, <2>4 DEF Updated
  <2>6. /\ Sound(slots, object)
        /\ View(slots, object) = [View(slots, old) EXCEPT ![schema.props[n].name] = new]
    <3>1. /\ Columns(schema, slots, col) /\ Sound(slots, old) /\ ~(old.size < col.size)
          /\ n \in DOMAIN schema.props /\ new \in Values(schema.props[n].type)
          /\ Reworked(col, old, n, new, object)
      BY <1>3, <1>5, <2>1, <2>2, <2>3, <2>5 DEF Reworked
    <3> QED BY ONLY <3>1, ColumnRewritten
  <2> QED BY <1>2, <1>5, <2>2, <2>4, <2>6
<1>13. Held(slots, dbs'[c], truth'[c], Stretched(c)')
  <2>1. PICK objects2, facts2 : objects2 = dbs'[c] /\ facts2 = truth'[c] OBVIOUS
  <2>2. objects2 = Set(Without(objects, gone), id, object) BY <1>7, <1>9, <2>1
  <2>3. /\ DOMAIN objects2 = (DOMAIN objects \ gone) \cup {id} /\ objects2[id] = object
        /\ \A x \in DOMAIN objects2 \ {id} : objects2[x] = objects[x]
    BY <2>2 DEF Set, Without
  <2>4. facts2 = [Without(facts, gone) EXCEPT ![id][name] = value] BY <1>8, <1>9, <2>1
  <2>5. /\ DOMAIN facts = DOMAIN objects /\ DOMAIN objects \subseteq Id /\ id \in DOMAIN objects
    BY <1>9, <1>10 DEF Held
  <2>6. PICK kept : kept = Without(facts, gone) OBVIOUS
  <2>7. /\ DOMAIN kept = DOMAIN facts \ gone /\ \A x \in DOMAIN kept : kept[x] = facts[x]
    BY <2>6 DEF Without
  <2>8. facts2 = [kept EXCEPT ![id] = [kept[id] EXCEPT ![name] = value]] BY <2>4, <2>6
  <2>9. /\ DOMAIN facts2 = DOMAIN facts \ gone
        /\ facts2[id] = [facts[id] EXCEPT ![name] = value]
        /\ \A x \in DOMAIN facts2 \ {id} : facts2[x] = facts[x]
    BY <1>6, <2>5, <2>7, <2>8
  <2>10. DOMAIN objects2 \subseteq Id /\ DOMAIN facts2 = DOMAIN objects2
    BY <1>6, <2>3, <2>5, <2>9
  <2>11. ASSUME NEW x \in DOMAIN objects2 \ Stretched(c)'
         PROVE  Sound(slots, objects2[x]) /\ facts2[x] = View(slots, objects2[x])
    <3>1. CASE x = id BY <1>12, <2>3, <2>9, <2>11, <3>1
    <3>2. CASE x # id
      <4>1. x \in DOMAIN objects /\ x \notin gone BY <2>3, <3>2
      <4>2. x \in DOMAIN objects \ Stretched(c) BY <1>11, <2>5, <2>11, <3>2, <4>1 DEF Stretched
      <4> QED BY <1>10, <2>3, <2>9, <2>10, <3>2, <4>2 DEF Held
    <3> QED BY <3>1, <3>2
  <2>12. Held(slots, objects2, facts2, Stretched(c)') BY <2>10, <2>11 DEF Held
  <2> QED BY <2>1, <2>12
<1>14. \A d : d # c => \A x : <<d, x>> \in stretched' <=> <<d, x>> \in stretched BY <1>3
<1>15. DOMAIN truth = DOMAIN info BY DEF SchemaInv, Databases
<1> QED BY <1>4, <1>5, <1>7, <1>8, <1>13, <1>14, <1>15, OneCollection

LEMMA RemoveObjects ==
  ASSUME SchemaInv, ObjectsInv, NEW c \in Collection, NEW id \in Id, phase = "open",
         c \in DOMAIN cols, ~cols[c].embedded, Delete(c, id)
  PROVE  ObjectsInv'
<1>1. c \in DOMAIN info /\ c \in DOMAIN truth /\ c \in DOMAIN dbs BY OpenCollection
<1>2. /\ UNCHANGED info /\ dbs' = [dbs EXCEPT ![c] = Without(@, {id})]
      /\ truth' = [truth EXCEPT ![c] = Without(@, {id})] /\ stretched' = stretched \ {<<c, id>>}
  BY DEF Delete
<1>3. PICK slots, objects, facts : slots = info[c].props /\ objects = dbs[c] /\ facts = truth[c]
  OBVIOUS
<1>4. Held(slots, objects, facts, Stretched(c)) BY <1>1, <1>3 DEF ObjectsInv
<1>5. PICK objects2, facts2 : objects2 = Without(objects, {id}) /\ facts2 = Without(facts, {id})
  OBVIOUS
<1>6. dbs'[c] = objects2 /\ truth'[c] = facts2 BY <1>1, <1>2, <1>3, <1>5
<1>7. /\ DOMAIN objects2 = DOMAIN objects \ {id} /\ \A x \in DOMAIN objects2 : objects2[x] = objects[x]
      /\ DOMAIN facts2 = DOMAIN facts \ {id} /\ \A x \in DOMAIN facts2 : facts2[x] = facts[x]
  BY <1>5 DEF Without
<1>8. \A x : x # id /\ x \in Stretched(c) => x \in Stretched(c)' BY <1>2 DEF Stretched
<1>9. Held(slots, objects2, facts2, Stretched(c)')
  <2>1. DOMAIN objects2 \subseteq Id /\ DOMAIN facts2 = DOMAIN objects2 BY <1>4, <1>7 DEF Held
  <2>2. ASSUME NEW x \in DOMAIN objects2 \ Stretched(c)'
        PROVE  Sound(slots, objects2[x]) /\ facts2[x] = View(slots, objects2[x])
    <3>1. x \in DOMAIN objects \ Stretched(c) BY <1>7, <1>8, <2>2
    <3> QED BY <1>4, <1>7, <2>1, <3>1 DEF Held
  <2> QED BY <2>1, <2>2 DEF Held
<1>10. \A d : d # c => \A x : <<d, x>> \in stretched' <=> <<d, x>> \in stretched BY <1>2
<1>11. /\ DOMAIN dbs' = DOMAIN dbs /\ \A d \in DOMAIN dbs \ {c} : dbs'[d] = dbs[d]
       /\ \A d \in DOMAIN truth \ {c} : truth'[d] = truth[d]
  BY <1>2
<1>12. DOMAIN truth = DOMAIN info BY DEF SchemaInv, Databases
<1> QED BY <1>1, <1>2, <1>3, <1>6, <1>9, <1>10, <1>11, <1>12, OneCollection

LEMMA NextObjects ==
  ASSUME SchemaInv, ObjectsInv, [Next]_vars
  PROVE  ObjectsInv'
<1>1. CASE OpenStart BY <1>1, SameObjects DEF OpenStart, file, known
<1>2. CASE MigrateCollection BY <1>2, MigrateObjects
<1>3. CASE VersionError BY <1>3, SameObjects DEF VersionError, file, known
<1>4. CASE DeleteRemoved BY <1>4, DeleteObjects
<1>5. CASE Interrupted BY <1>5, SameObjects DEF Interrupted, file, known
<1>6. CASE Close BY <1>6, SameObjects DEF Close, file, known
<1>7. CASE Writes
  <2>1. PICK c \in Collection, id \in Id :
          /\ phase = "open" /\ c \in DOMAIN cols /\ ~cols[c].embedded
          /\ \/ \E values \in Contents(c) : Put(c, id, values)
             \/ /\ id \in DOMAIN dbs[c]
                /\ \E n \in DOMAIN cols[c].props : \E value \in Values(cols[c].props[n].type) :
                     Update(c, id, n, value)
             \/ id \in DOMAIN dbs[c] /\ Delete(c, id)
             \/ Closed /\ UNCHANGED <<file, known>>
    BY <1>7, WriteCases
  <2>2. CASE \E values \in Contents(c) : Put(c, id, values) BY <2>1, <2>2, PutObjects
  <2>3. CASE /\ id \in DOMAIN dbs[c]
             /\ \E n \in DOMAIN cols[c].props : \E value \in Values(cols[c].props[n].type) :
                  Update(c, id, n, value)
    BY <2>1, <2>3, UpdateObjects
  <2>4. CASE Delete(c, id) BY <2>1, <2>4, RemoveObjects
  <2>5. CASE UNCHANGED <<file, known>> BY <2>5, SameObjects DEF file, known
  <2> QED BY <2>1, <2>2, <2>3, <2>4, <2>5
<1>8. CASE UNCHANGED vars BY <1>8, SameObjects DEF vars
<1> QED BY <1>1, <1>2, <1>3, <1>4, <1>5, <1>6, <1>7, <1>8 DEF Next

LEMMA ObjectsInvariant == Spec => [](SchemaInv /\ ObjectsInv)
<1>1. Init => SchemaInv /\ ObjectsInv BY InitSchemas, InitObjects
<1>2. SchemaInv /\ ObjectsInv /\ [Next]_vars => (SchemaInv /\ ObjectsInv)'
  BY NextSchemas, NextObjects
<1> QED BY <1>1, <1>2, PTL DEF Spec

\* The databases and what belongs to them always go together, through every
\* opening, interruption and write.
THEOREM TypeCorrect == Spec => []TypeOK
<1>1. ASSUME SchemaInv, ObjectsInv PROVE TypeOK
  <2>1. /\ phase \in {"closed", "migrating", "open"} /\ DOMAIN cols = ReadyNames
        /\ \A m \in Ready : want[m].name \in DOMAIN info
        /\ phase = "open" => DOMAIN info = ReadyNames
    BY <1>1 DEF SchemaInv, Progress
  <2>2. DOMAIN cols \subseteq DOMAIN info /\ (phase = "open" => DOMAIN cols = DOMAIN info)
    BY <2>1 DEF ReadyNames
  <2>3. \A c \in DOMAIN dbs : DOMAIN dbs[c] \subseteq Id
    BY <1>1 DEF SchemaInv, Databases, ObjectsInv, Held
  <2> QED BY <1>1, <2>1, <2>2, <2>3 DEF TypeOK, SchemaInv, Databases
<1> QED BY <1>1, ObjectsInvariant, PTL

\* Every object is still there and reads as the application left it, through
\* any number of schema versions, wherever their migrations stopped: a slot
\* is never given to another property, and no write touches the string of
\* another one (perform_migration, IsarSerializer, IsarDeserializer).
THEOREM ReadBack == Spec => []ObjectsReadBack
<1>1. ASSUME SchemaInv, ObjectsInv PROVE ObjectsReadBack
  <2>1. ASSUME NEW c \in DOMAIN dbs
        PROVE  /\ DOMAIN dbs[c] = DOMAIN truth[c]
               /\ \A id \in DOMAIN dbs[c] : <<c, id>> \notin stretched =>
                    truth[c][id] = [p \in Live(info[c].props) |-> Reading(c, id, p)]
    <3>1. Held(info[c].props, dbs[c], truth[c], Stretched(c))
      BY <1>1 DEF SchemaInv, Databases, ObjectsInv
    <3>2. ASSUME NEW id \in DOMAIN dbs[c], <<c, id>> \notin stretched
          PROVE  truth[c][id] = [p \in Live(info[c].props) |-> Reading(c, id, p)]
      <4>1. id \in DOMAIN dbs[c] \ Stretched(c) BY <3>2 DEF Stretched
      <4>2. truth[c][id] = View(info[c].props, dbs[c][id]) BY <3>1, <4>1 DEF Held
      <4> QED BY <4>2 DEF View, Reading
    <3>3. DOMAIN dbs[c] = DOMAIN truth[c] BY <3>1 DEF Held
    <3> QED BY <3>2, <3>3
  <2> QED BY <2>1 DEF ObjectsReadBack
<1> QED BY <1>1, ObjectsInvariant, PTL

-----------------------------------------------------------------------------
(* Indexes.                                                                *)

\* The key of an object under a layout.
KeyOf(slots, index, object) ==
  CreateKey([n \in DOMAIN index.props |-> TypeIn(slots, index.props[n])],
            [n \in DOMAIN index.props |->
               Read(object, Offset(slots, index.props[n]), TypeIn(slots, index.props[n]))]).bytes

\* An index has exactly the entries of the objects in w.
Lists(slots, index, objects, e, w) ==
  w \subseteq DOMAIN objects /\ e = {<<KeyOf(slots, index, objects[id]), id>> : id \in w}

IndexOf(x) == NamedIndex(info[x[1]].indexes, x[2])

IndexInv ==
  \A x \in DOMAIN entries : Lists(info[x[1]].props, IndexOf(x), dbs[x[1]], entries[x], written[x])

\* Where an index is found.
LEMMA NamedFound ==
  ASSUME NEW indexes, Distinct(indexes), NEW i \in indexes
  PROVE  NamedIndex(indexes, i.name) = i
BY DEF NamedIndex, Distinct

\* The collection makes the key that the layout gives the object.
LEMMA SameKey ==
  ASSUME NEW schema, NEW slots, NEW col, Columns(schema, slots, col), NEW index,
         \A n \in DOMAIN index.props : index.props[n] \in Live(schema.props), NEW object
  PROVE  KeyIn(col, index, object).bytes = KeyOf(slots, index, object)
<1>1. ASSUME NEW p \in Live(schema.props)
      PROVE  PropIn(col, p).type = TypeIn(slots, p) /\ PropIn(col, p).offset = Offset(slots, p)
  <2>1. PICK n \in DOMAIN schema.props : schema.props[n].name = p BY SlotOf
  <2>2. PICK k \in DOMAIN slots : InSlot(schema, slots, col, n, k) BY DEF Columns
  <2>3. /\ slots[k].name = p /\ p # None
        /\ col.props[n] = [name |-> p, type |-> slots[k].type, offset |-> k - 1]
    BY <2>1, <2>2 DEF InSlot
  <2>4. \A m \in DOMAIN schema.props : col.props[m].name = schema.props[m].name
    <3>1. ASSUME NEW m \in DOMAIN schema.props PROVE col.props[m].name = schema.props[m].name
      <4>1. PICK j \in DOMAIN slots : InSlot(schema, slots, col, m, j) BY DEF Columns
      <4> QED BY <4>1 DEF InSlot
    <3> QED BY <3>1
  <2>5. \A m \in DOMAIN col.props : col.props[m].name = p => m = n BY <2>1, <2>4 DEF Columns
  <2>6. n \in DOMAIN col.props /\ col.props[n].name = p BY <2>3 DEF Columns
  <2>7. (CHOOSE m \in DOMAIN col.props : col.props[m].name = p) = n BY <2>5, <2>6
  <2>8. PropIn(col, p) = col.props[n] BY <2>7 DEF PropIn
  <2>9. TypeIn(slots, slots[k].name) = slots[k].type /\ Offset(slots, slots[k].name) = k - 1
    BY <2>3, SlotFound DEF Columns
  <2> QED BY <2>3, <2>8, <2>9
<1>2. [n \in DOMAIN index.props |-> PropIn(col, index.props[n]).type] =
      [n \in DOMAIN index.props |-> TypeIn(slots, index.props[n])]
  BY <1>1
<1>3. ValuesIn(col, index, object) = [n \in DOMAIN index.props |->
        Read(object, Offset(slots, index.props[n]), TypeIn(slots, index.props[n]))]
  BY <1>1 DEF ValuesIn
<1> QED BY <1>2, <1>3 DEF KeyIn, KeyOf

\* An index that a migration keeps finds every key as it was.
LEMMA KeptKey ==
  ASSUME NEW new, NEW old, Verified(new), Saved(old), NEW now, NEW was, now.props = was.props,
         \A n \in DOMAIN now.props : now.props[n] \in Stays(new, old), NEW object
  PROVE  KeyOf(MergedProperties(new, old), now, object) = KeyOf(old.props, was, object)
<1> DEFINE M == MergedProperties(new, old)
<1>1. ASSUME NEW p \in Stays(new, old)
      PROVE  TypeIn(M, p) = TypeIn(old.props, p) /\ Offset(M, p) = Offset(old.props, p)
  <2>1. /\ M \in Seq(Slots) /\ OneSlotEach(M) /\ DOMAIN old.props \subseteq DOMAIN M
        /\ \A n \in DOMAIN old.props :
             /\ M[n].type = old.props[n].type
             /\ M[n].name = IF old.props[n].name \in Stays(new, old)
                            THEN old.props[n].name ELSE None
    BY MergedSlots
  <2>2. old.props \in Seq(Slots) /\ OneSlotEach(old.props) BY SavedFacts
  <2> HIDE DEF M
  <2>3. PICK n \in DOMAIN old.props : old.props[n].name = p /\ p # None BY SlotOf DEF Stays
  <2>4. n \in DOMAIN M /\ M[n].name = p /\ M[n].type = old.props[n].type BY <2>1, <2>3
  <2>5. TypeIn(M, p) = M[n].type /\ Offset(M, p) = n - 1 BY <2>1, <2>3, <2>4, SlotFound
  <2>6. TypeIn(old.props, p) = old.props[n].type /\ Offset(old.props, p) = n - 1
    BY <2>2, <2>3, SlotFound
  <2> QED BY <2>4, <2>5, <2>6
<1> HIDE DEF M
<1>2. [n \in DOMAIN now.props |-> TypeIn(M, now.props[n])] =
      [n \in DOMAIN was.props |-> TypeIn(old.props, was.props[n])]
  BY <1>1
<1>3. [n \in DOMAIN now.props |->
         Read(object, Offset(M, now.props[n]), TypeIn(M, now.props[n]))] =
      [n \in DOMAIN was.props |->
         Read(object, Offset(old.props, was.props[n]), TypeIn(old.props, was.props[n]))]
  BY <1>1
<1>4. KeyOf(M, now, object) = KeyOf(old.props, was, object) BY <1>2, <1>3 DEF KeyOf
<1> QED BY <1>4 DEF M

\* What has to be shown of a step, for one index of its result.
LEMMA IndexStep ==
  ASSUME SchemaInv',
         ASSUME NEW c, NEW i, c \in DOMAIN info', c \in DOMAIN dbs', i \in info'[c].indexes,
                <<c, i.name>> \in DOMAIN entries', Saved(info'[c])
         PROVE  Lists(info'[c].props, i, dbs'[c], entries'[<<c, i.name>>], written'[<<c, i.name>>])
  PROVE  IndexInv'
<1>1. ASSUME NEW x \in DOMAIN entries'
      PROVE  Lists(info'[x[1]].props, IndexOf(x)', dbs'[x[1]], entries'[x], written'[x])
  <2>1. /\ DOMAIN entries' = AllIndexes(info')
        /\ \A c \in DOMAIN info' : Saved(info'[c]) /\ (~info'[c].embedded => c \in DOMAIN dbs')
    BY DEF SchemaInv, Databases
  <2>2. PICK c \in DOMAIN info' : x \in Indexes(c, Names(info'[c].indexes)) BY <2>1, InAllIndexes
  <2>3. PICK i \in info'[c].indexes : x = <<c, i.name>> BY <2>2, InIndexes
  <2>4. Distinct(info'[c].indexes) /\ ~info'[c].embedded /\ Saved(info'[c])
    BY <2>1 DEF Saved, IndexesVerified
  <2>5. x[1] = c /\ x[2] = i.name BY <2>3
  <2>6. NamedIndex(info'[c].indexes, i.name) = i BY <2>4, NamedFound
  <2>7. IndexOf(x)' = i BY <2>5, <2>6 DEF IndexOf
  <2>8. Lists(info'[c].props, i, dbs'[c], entries'[<<c, i.name>>], written'[<<c, i.name>>])
    BY <2>1, <2>3, <2>4
  <2> QED BY <2>3, <2>5, <2>7, <2>8
<1> QED BY <1>1 DEF IndexInv

\* The same index in the state before.
LEMMA IndexBefore ==
  ASSUME SchemaInv, IndexInv, NEW c \in DOMAIN info, NEW i \in info[c].indexes
  PROVE  /\ <<c, i.name>> \in DOMAIN entries
         /\ Lists(info[c].props, i, dbs[c], entries[<<c, i.name>>], written[<<c, i.name>>])
<1>1. PICK x : x = <<c, i.name>> OBVIOUS
<1>2. x \in DOMAIN entries
  <2>1. x \in Indexes(c, Names(info[c].indexes)) BY <1>1, InIndexes
  <2> QED BY <2>1, InAllIndexes DEF SchemaInv, Databases
<1>3. x[1] = c /\ x[2] = i.name BY <1>1
<1>4. NamedIndex(info[c].indexes, i.name) = i
  <2>1. Distinct(info[c].indexes) BY DEF SchemaInv, Databases, Saved, IndexesVerified
  <2> QED BY <2>1, NamedFound
<1>5. IndexOf(x) = i BY <1>3, <1>4 DEF IndexOf
<1>6. Lists(info[c].props, i, dbs[c], entries[x], written[x]) BY <1>2, <1>3, <1>5 DEF IndexInv
<1> QED BY <1>1, <1>2, <1>6

\* A list whose objects have their keys under other slots as well.
LEMMA SameLists ==
  ASSUME NEW slots, NEW i, NEW objects, NEW e, NEW w, Lists(slots, i, objects, e, w),
         NEW slots2, NEW i2, \A o : KeyOf(slots2, i2, o) = KeyOf(slots, i, o)
  PROVE  Lists(slots2, i2, objects, e, w)
BY DEF Lists

LEMMA MigrateIndexes ==
  ASSUME SchemaInv, IndexInv, MigrateCollection
  PROVE  IndexInv'
<1>0. PICK schema, c, dropped : schema = want[step] /\ c = schema.name /\ dropped = Dropped(schema)
  OBVIOUS
<1>1. /\ phase = "migrating" /\ step \in DOMAIN want
      /\ info' = Set(info, c, Record(schema))
      /\ dbs' = IF schema.embedded \/ c \in DOMAIN dbs THEN dbs ELSE Set(dbs, c, Nothing)
      /\ entries' = Reindexed(entries, c, schema, dropped)
      /\ written' = Reindexed(written, c, schema, dropped)
  BY <1>0, MigrateParts
<1>2. /\ Verified(schema) /\ (c \in DOMAIN info <=> c \in DOMAIN existing)
      /\ c \in DOMAIN existing => info[c] = existing[c] /\ Saved(existing[c])
  BY <1>0, <1>1, InTurn
<1>3. SchemaInv' BY NextSchemas DEF Next
<1>4. info'[c] = Record(schema) /\ \A d \in DOMAIN info' \ {c} : d \in DOMAIN info /\ info'[d] = info[d]
  BY <1>1 DEF Set
<1>5. \A d \in DOMAIN dbs : dbs'[d] = dbs[d] BY <1>1 DEF Set
<1>6. DOMAIN written = DOMAIN entries BY DEF SchemaInv, Databases
<1>7. PICK stay : stay = DOMAIN entries \ Indexes(c, dropped) OBVIOUS
<1>8. /\ \A x \in stay : entries'[x] = entries[x] /\ written'[x] = written[x]
      /\ \A x \in DOMAIN entries' \ stay : entries'[x] = {} /\ written'[x] = {}
  <2>1. DOMAIN written' = DOMAIN entries' BY <1>3 DEF SchemaInv, Databases
  <2>2. /\ \A x \in stay : entries'[x] = entries[x]
        /\ \A x \in DOMAIN entries' \ stay : entries'[x] = {}
    BY <1>1, <1>7 DEF Reindexed, Without
  <2>3. /\ \A x \in stay : written'[x] = written[x]
        /\ \A x \in DOMAIN written' \ stay : written'[x] = {}
    BY <1>1, <1>6, <1>7 DEF Reindexed, Without
  <2> QED BY <2>1, <2>2, <2>3
<1>9. ASSUME NEW d, NEW i, d \in DOMAIN info', d \in DOMAIN dbs', i \in info'[d].indexes,
             <<d, i.name>> \in DOMAIN entries', Saved(info'[d])
      PROVE  Lists(info'[d].props, i, dbs'[d], entries'[<<d, i.name>>], written'[<<d, i.name>>])
  <2>1. PICK x : x = <<d, i.name>> OBVIOUS
  <2>2. CASE x \notin stay
    <3>1. entries'[x] = {} /\ written'[x] = {} BY <1>8, <1>9, <2>1, <2>2
    <3> QED BY <2>1, <3>1 DEF Lists
  <2>3. CASE x \in stay /\ d # c
    <3>1. d \in DOMAIN info /\ info'[d] = info[d] BY <1>4, <1>9, <2>3
    <3>2. Lists(info[d].props, i, dbs[d], entries[x], written[x]) BY <1>9, <2>1, <3>1, IndexBefore
    <3>3. d \in DOMAIN dbs BY <1>1, <1>9, <2>3 DEF Set
    <3> QED BY <1>5, <1>8, <2>1, <2>3, <3>1, <3>2, <3>3
  <2>4. CASE x \in stay /\ d = c
    <3>1. PICK f \in DOMAIN info : x \in Indexes(f, Names(info[f].indexes))
      BY <1>7, <2>4, InAllIndexes DEF SchemaInv, Databases
    <3>2. PICK j \in info[f].indexes : x = <<f, j.name>> BY <3>1, InIndexes
    <3>3. f = c /\ j.name = i.name BY <2>1, <2>4, <3>2
    <3>4. PICK old : old = info[c] OBVIOUS
    <3>5. /\ c \in DOMAIN info /\ c \in DOMAIN existing /\ old = existing[c] /\ Saved(old)
          /\ j \in old.indexes
      BY <1>2, <3>1, <3>2, <3>3, <3>4
    <3>6. c \in DOMAIN dbs
      <4>1. ~old.embedded BY <3>5 DEF Saved, IndexesVerified
      <4> QED BY <3>4, <3>5, <4>1 DEF SchemaInv, Databases
    <3>7. i \in schema.indexes /\ info'[c].props = MergedProperties(schema, old)
      BY <1>0, <1>4, <1>9, <2>4, <3>5 DEF Record, Layout
    <3>8. j \notin DropIndexes(schema, old)
      <4>1. dropped = Names(DropIndexes(schema, old)) BY <1>0, <3>5 DEF Dropped
      <4>2. x \notin Indexes(c, dropped) BY <1>7, <2>4
      <4> QED BY <3>2, <3>3, <4>1, <4>2 DEF Indexes, Names
    <3>9. NamedIndex(schema.indexes, j.name) = i
      <4>1. Distinct(schema.indexes) BY <1>2 DEF Verified, IndexesVerified
      <4>2. NamedIndex(schema.indexes, i.name) = i BY <3>7, <4>1, NamedFound
      <4> QED BY <3>3, <4>2
    <3>10. j.name \in Names(schema.indexes) BY <3>3, <3>7 DEF Names
    <3>11. ~Redefined(i, j) /\ \A n \in DOMAIN i.props : i.props[n] \notin DropProperties(schema, old)
      BY <3>5, <3>8, <3>9, <3>10 DEF DropIndexes
    <3>12. i.props = j.props /\ \A n \in DOMAIN i.props : i.props[n] \in Stays(schema, old)
      <4>1. i.props = j.props BY <3>11 DEF Redefined
      <4>2. j.props \in Seq(Live(old.props)) BY <3>5 DEF Saved, IndexesVerified
      <4>3. \A n \in DOMAIN i.props : i.props[n] \in Live(old.props) BY <4>1, <4>2
      <4> QED BY <3>11, <4>1, <4>3 DEF Stays
    <3>13. \A o : KeyOf(MergedProperties(schema, old), i, o) = KeyOf(old.props, j, o)
      BY <1>2, <3>5, <3>12, KeptKey
    <3>14. Lists(old.props, j, dbs[c], entries[x], written[x])
      BY <3>2, <3>3, <3>4, <3>5, IndexBefore
    <3>15. Lists(MergedProperties(schema, old), i, dbs[c], entries[x], written[x])
      BY <3>13, <3>14, SameLists
    <3> QED BY <1>5, <1>8, <2>1, <2>4, <3>6, <3>7, <3>15
  <2> QED BY <2>2, <2>3, <2>4
<1> QED BY <1>3, <1>9, IndexStep

LEMMA DeleteIndexes ==
  ASSUME SchemaInv, IndexInv, DeleteRemoved
  PROVE  IndexInv'
<1>1. SchemaInv' BY NextSchemas DEF Next
<1>2. PICK gone, lost :
        /\ info' = Without(info, gone) /\ dbs' = Without(dbs, gone)
        /\ entries' = Without(entries, lost) /\ written' = Without(written, lost)
  BY DEF DeleteRemoved
<1>3. DOMAIN written = DOMAIN entries BY DEF SchemaInv, Databases
<1>4. ASSUME NEW c, NEW i, c \in DOMAIN info', c \in DOMAIN dbs', i \in info'[c].indexes,
             <<c, i.name>> \in DOMAIN entries', Saved(info'[c])
      PROVE  Lists(info'[c].props, i, dbs'[c], entries'[<<c, i.name>>], written'[<<c, i.name>>])
  <2>1. PICK x : x = <<c, i.name>> OBVIOUS
  <2>2. c \in DOMAIN info /\ info'[c] = info[c] /\ dbs'[c] = dbs[c]
    BY <1>2, <1>4 DEF Without
  <2>3. entries'[x] = entries[x] /\ written'[x] = written[x]
    BY <1>2, <1>3, <1>4, <2>1 DEF Without
  <2>4. Lists(info[c].props, i, dbs[c], entries[x], written[x]) BY <1>4, <2>1, <2>2, IndexBefore
  <2> QED BY <2>1, <2>2, <2>3, <2>4
<1> QED BY <1>1, <1>4, IndexStep

LEMMA SameIndexes ==
  ASSUME IndexInv, UNCHANGED <<info, dbs, entries, written>>
  PROVE  IndexInv'
BY DEF IndexInv, IndexOf

LEMMA InitIndexes ==
  ASSUME Init
  PROVE  IndexInv
<1>1. \A x \in DOMAIN entries : entries[x] = {} /\ written[x] = {} BY DEF Init
<1> QED BY <1>1 DEF IndexInv, Lists

\* What put and delete do to a list: key(o) is the key of object o.
LEMMA ListsStored ==
  ASSUME NEW slots, NEW i, NEW objects, NEW e, NEW w, Lists(slots, i, objects, e, w),
         NEW gone, NEW id, id \notin gone, NEW object, NEW e2,
         e2 = (e \ {<<KeyOf(slots, i, objects[y]), y>> : y \in gone \cup (DOMAIN objects \cap {id})})
                \cup {<<KeyOf(slots, i, object), id>>}
  PROVE  Lists(slots, i, Set(Without(objects, gone), id, object), e2, (w \ gone) \cup {id})
<1>1. PICK after : after = Set(Without(objects, gone), id, object) OBVIOUS
<1>2. /\ DOMAIN after = (DOMAIN objects \ gone) \cup {id} /\ after[id] = object
      /\ \A y \in DOMAIN after \ {id} : after[y] = objects[y]
  BY <1>1 DEF Set, Without
<1>3. w \subseteq DOMAIN objects /\ e = {<<KeyOf(slots, i, objects[y]), y>> : y \in w} BY DEF Lists
<1>4. (w \ gone) \cup {id} \subseteq DOMAIN after BY <1>2, <1>3
<1>5. ASSUME NEW x
      PROVE  x \in e2 <=> x \in {<<KeyOf(slots, i, after[y]), y>> : y \in (w \ gone) \cup {id}}
  <2>1. ASSUME NEW y \in w, y \notin gone, y # id
        PROVE  <<KeyOf(slots, i, objects[y]), y>> = <<KeyOf(slots, i, after[y]), y>>
    <3>1. after[y] = objects[y] BY <1>2, <1>3, <2>1
    <3> QED BY <3>1
  <2>2. x \in e2 <=>
          \/ x = <<KeyOf(slots, i, object), id>>
          \/ \E y \in w : y \notin gone /\ y # id /\ x = <<KeyOf(slots, i, objects[y]), y>>
    <3>1. ASSUME NEW y \in w, NEW z, <<KeyOf(slots, i, objects[y]), y>> = <<KeyOf(slots, i, objects[z]), z>>
          PROVE  y = z
      BY <3>1
    <3>2. \A y \in w : y \in DOMAIN objects BY <1>3
    <3> QED BY <1>3, <3>1, <3>2
  <2>3. <<KeyOf(slots, i, after[id]), id>> = <<KeyOf(slots, i, object), id>> BY <1>2
  <2> QED BY <2>1, <2>2, <2>3
<1>6. e2 = {<<KeyOf(slots, i, after[y]), y>> : y \in (w \ gone) \cup {id}} BY <1>5
<1> QED BY <1>1, <1>4, <1>6 DEF Lists

LEMMA ListsRemoved ==
  ASSUME NEW slots, NEW i, NEW objects, NEW e, NEW w, Lists(slots, i, objects, e, w), NEW id
  PROVE  Lists(slots, i, Without(objects, {id}),
               e \ {<<KeyOf(slots, i, objects[y]), y>> : y \in {id}}, w \ {id})
<1>1. PICK after : after = Without(objects, {id}) OBVIOUS
<1>2. DOMAIN after = DOMAIN objects \ {id} /\ \A y \in DOMAIN after : after[y] = objects[y]
  BY <1>1 DEF Without
<1>3. w \subseteq DOMAIN objects /\ e = {<<KeyOf(slots, i, objects[y]), y>> : y \in w} BY DEF Lists
<1>4. w \ {id} \subseteq DOMAIN after BY <1>2, <1>3
<1>5. \A y \in w \ {id} : <<KeyOf(slots, i, objects[y]), y>> = <<KeyOf(slots, i, after[y]), y>>
  BY <1>2, <1>4
<1>6. e \ {<<KeyOf(slots, i, objects[y]), y>> : y \in {id}}
        = {<<KeyOf(slots, i, objects[y]), y>> : y \in w \ {id}}
  BY <1>3
<1>7. {<<KeyOf(slots, i, objects[y]), y>> : y \in w \ {id}}
        = {<<KeyOf(slots, i, after[y]), y>> : y \in w \ {id}}
  BY <1>5
<1> QED BY <1>1, <1>4, <1>6, <1>7 DEF Lists

\* The entries that leave an index are the ones of the objects, under the keys
\* that the layout gives them.
LEMMA UnlistedIs ==
  ASSUME SchemaInv, phase = "open", NEW c \in DOMAIN cols, NEW i \in info[c].indexes,
         <<c, i.name>> \in DOMAIN entries, NEW gone
  PROVE  /\ {j \in cols[c].indexes : <<c, i.name>> = <<c, j.name>>} = {i}
         /\ \A o : KeyIn(cols[c], i, o).bytes = KeyOf(info[c].props, i, o)
         /\ Unlisted(c, gone)[<<c, i.name>>] =
              entries[<<c, i.name>>] \ {<<KeyOf(info[c].props, i, dbs[c][y]), y>> : y \in gone}
<1>1. /\ c \in DOMAIN info /\ cols[c].indexes = info[c].indexes /\ IndexesVerified(info[c])
      /\ \E schema : /\ Columns(schema, info[c].props, cols[c]) /\ schema.props = AppProps(c)
                     /\ Verified(schema) /\ info[c].indexes = schema.indexes
  BY OpenCollection
<1>2. PICK schema, slots, col :
        /\ slots = info[c].props /\ col = cols[c] /\ Columns(schema, slots, col)
        /\ Verified(schema) /\ info[c].indexes = schema.indexes
  BY <1>1
<1>3. \A n \in DOMAIN i.props : i.props[n] \in Live(schema.props)
  <2>1. i.props \in Seq(Live(schema.props)) BY <1>2 DEF Verified, IndexesVerified
  <2> QED BY <2>1
<1>4. \A o : KeyIn(cols[c], i, o).bytes = KeyOf(info[c].props, i, o) BY <1>2, <1>3, SameKey
<1>5. {j \in cols[c].indexes : <<c, i.name>> = <<c, j.name>>} = {i}
  <2>1. Distinct(info[c].indexes) BY <1>1 DEF IndexesVerified
  <2> QED BY <1>1, <2>1 DEF Distinct
<1>6. PICK x : x = <<c, i.name>> OBVIOUS
<1>7. Unlisted(c, gone)[x] =
        entries[x] \ {<<KeyIn(cols[c], j, dbs[c][y]).bytes, y>> :
                        j \in {k \in cols[c].indexes : x = <<c, k.name>>}, y \in gone}
  BY <1>6 DEF Unlisted
<1>8. {<<KeyIn(cols[c], j, dbs[c][y]).bytes, y>> :
         j \in {k \in cols[c].indexes : x = <<c, k.name>>}, y \in gone}
        = {<<KeyOf(info[c].props, i, dbs[c][y]), y>> : y \in gone}
  BY <1>4, <1>5, <1>6
<1> QED BY <1>4, <1>5, <1>6, <1>7, <1>8

\* The lists of other collections stay as they are.
LEMMA UnlistedElsewhere ==
  ASSUME NEW c, NEW gone, NEW x \in DOMAIN entries, x[1] # c
  PROVE  Unlisted(c, gone)[x] = entries[x]
<1>1. {j \in cols[c].indexes : x = <<c, j.name>>} = {} OBVIOUS
<1> QED BY <1>1 DEF Unlisted

LEMMA StoreIndexes ==
  ASSUME SchemaInv, SchemaInv', IndexInv, phase = "open", NEW c \in DOMAIN cols, ~cols[c].embedded,
         NEW id, NEW object, Store(c, id, object)
  PROVE  IndexInv'
<1>1. PICK gone : gone = Evicted(c, id, object) OBVIOUS
<1>2. id \notin gone BY <1>1 DEF Evicted
<1>3. c \in DOMAIN info /\ c \in DOMAIN dbs BY OpenCollection
<1>4. PICK left : left = Unlisted(c, gone \cup (DOMAIN dbs[c] \cap {id})) OBVIOUS
<1>5. /\ dbs' = [dbs EXCEPT ![c] = Set(Without(@, gone), id, object)]
      /\ entries' = [x \in DOMAIN left |-> left[x] \cup
                       {<<KeyIn(cols[c], i, object).bytes, id>> :
                          i \in {j \in cols[c].indexes : x = <<c, j.name>>}}]
      /\ written' = [x \in DOMAIN written |->
                       IF x[1] = c THEN (written[x] \ gone) \cup {id} ELSE written[x]]
      /\ info' = info
  BY <1>1, <1>4 DEF Store
<1>6. DOMAIN left = DOMAIN entries BY <1>4 DEF Unlisted
<1>7. DOMAIN written = DOMAIN entries BY DEF SchemaInv, Databases
<1>8. ASSUME NEW d, NEW i, d \in DOMAIN info', d \in DOMAIN dbs', i \in info'[d].indexes,
             <<d, i.name>> \in DOMAIN entries', Saved(info'[d])
      PROVE  Lists(info'[d].props, i, dbs'[d], entries'[<<d, i.name>>], written'[<<d, i.name>>])
  <2>1. PICK x : x = <<d, i.name>> OBVIOUS
  <2>2. x[1] = d /\ x \in DOMAIN left /\ x \in DOMAIN entries /\ x \in DOMAIN written
    BY <1>5, <1>6, <1>7, <1>8, <2>1
  <2>3. Lists(info[d].props, i, dbs[d], entries[x], written[x]) BY <1>5, <1>8, <2>1, IndexBefore
  <2>4. CASE d # c
    <3>1. left[x] = entries[x] BY <1>4, <2>2, <2>4, UnlistedElsewhere
    <3>2. {j \in cols[c].indexes : x = <<c, j.name>>} = {} BY <2>2, <2>4
    <3>3. entries'[x] = entries[x] BY <1>5, <2>2, <3>1, <3>2
    <3>4. written'[x] = written[x] /\ dbs'[d] = dbs[d] BY <1>5, <1>8, <2>2, <2>4
    <3> QED BY <1>5, <2>1, <2>3, <3>3, <3>4
  <2>5. CASE d = c
    <3>1. PICK slots, objects, e, w :
            slots = info[c].props /\ objects = dbs[c] /\ e = entries[x] /\ w = written[x]
      OBVIOUS
    <3>2. dbs'[c] = Set(Without(objects, gone), id, object) /\ written'[x] = (w \ gone) \cup {id}
      BY <1>3, <1>5, <2>2, <2>5, <3>1
    <3>3. /\ {j \in cols[c].indexes : x = <<c, j.name>>} = {i}
          /\ KeyIn(cols[c], i, object).bytes = KeyOf(slots, i, object)
          /\ left[x] = e \ {<<KeyOf(slots, i, objects[y]), y>> : y \in gone \cup (DOMAIN objects \cap {id})}
      <4>1. PICK out : out = gone \cup (DOMAIN objects \cap {id}) OBVIOUS
      <4>2. left = Unlisted(c, out) BY <1>4, <3>1, <4>1
      <4>3. i \in info[c].indexes /\ <<c, i.name>> \in DOMAIN entries BY <1>5, <1>8, <2>1, <2>2, <2>5
      <4>4. /\ {j \in cols[c].indexes : <<c, i.name>> = <<c, j.name>>} = {i}
            /\ \A o : KeyIn(cols[c], i, o).bytes = KeyOf(info[c].props, i, o)
            /\ Unlisted(c, out)[<<c, i.name>>] =
                 entries[<<c, i.name>>] \ {<<KeyOf(info[c].props, i, dbs[c][y]), y>> : y \in out}
        BY <4>3, UnlistedIs
      <4> QED BY <2>1, <2>5, <3>1, <4>1, <4>2, <4>4
    <3>4. entries'[x] = left[x] \cup {<<KeyOf(slots, i, object), id>>} BY <1>5, <2>2, <3>3
    <3>5. Lists(slots, i, objects, e, w) BY <2>3, <2>5, <3>1
    <3>6. Lists(slots, i, dbs'[c], entries'[x], written'[x])
      BY <1>2, <3>2, <3>3, <3>4, <3>5, ListsStored
    <3> QED BY <1>5, <2>1, <2>5, <3>1, <3>6
  <2> QED BY <2>4, <2>5
<1> QED BY <1>8, IndexStep

LEMMA RemoveIndexes ==
  ASSUME SchemaInv, SchemaInv', IndexInv, phase = "open", NEW c \in DOMAIN cols, ~cols[c].embedded,
         NEW id, Delete(c, id)
  PROVE  IndexInv'
<1>1. c \in DOMAIN info /\ c \in DOMAIN dbs BY OpenCollection
<1>2. /\ dbs' = [dbs EXCEPT ![c] = Without(@, {id})] /\ entries' = Unlisted(c, {id})
      /\ written' = [x \in DOMAIN written |-> IF x[1] = c THEN written[x] \ {id} ELSE written[x]]
      /\ info' = info
  BY DEF Delete
<1>3. DOMAIN entries' = DOMAIN entries BY <1>2 DEF Unlisted
<1>4. DOMAIN written = DOMAIN entries BY DEF SchemaInv, Databases
<1>5. ASSUME NEW d, NEW i, d \in DOMAIN info', d \in DOMAIN dbs', i \in info'[d].indexes,
             <<d, i.name>> \in DOMAIN entries', Saved(info'[d])
      PROVE  Lists(info'[d].props, i, dbs'[d], entries'[<<d, i.name>>], written'[<<d, i.name>>])
  <2>1. PICK x : x = <<d, i.name>> OBVIOUS
  <2>2. x[1] = d /\ x \in DOMAIN entries /\ x \in DOMAIN written BY <1>3, <1>4, <1>5, <2>1
  <2>3. Lists(info[d].props, i, dbs[d], entries[x], written[x]) BY <1>2, <1>5, <2>1, IndexBefore
  <2>4. CASE d # c
    <3>1. entries'[x] = entries[x] BY <1>2, <2>2, <2>4, UnlistedElsewhere
    <3>2. written'[x] = written[x] /\ dbs'[d] = dbs[d] BY <1>2, <1>5, <2>2, <2>4
    <3> QED BY <1>2, <2>1, <2>3, <3>1, <3>2
  <2>5. CASE d = c
    <3>1. dbs'[c] = Without(dbs[c], {id}) /\ written'[x] = written[x] \ {id}
      BY <1>1, <1>2, <2>2, <2>5
    <3>2. entries'[x] = entries[x] \ {<<KeyOf(info[c].props, i, dbs[c][y]), y>> : y \in {id}}
      BY <1>2, <1>5, <2>1, <2>2, <2>5, UnlistedIs
    <3>3. Lists(info[c].props, i, dbs'[c], entries'[x], written'[x])
      <4>1. PICK slots, objects, e, w :
              slots = info[c].props /\ objects = dbs[c] /\ e = entries[x] /\ w = written[x]
        OBVIOUS
      <4>2. Lists(slots, i, objects, e, w) BY <2>3, <2>5, <4>1
      <4>3. Lists(slots, i, Without(objects, {id}),
                  e \ {<<KeyOf(slots, i, objects[y]), y>> : y \in {id}}, w \ {id})
        BY <4>2, ListsRemoved
      <4> QED BY <3>1, <3>2, <4>1, <4>3
    <3> QED BY <1>2, <2>1, <2>5, <3>3
  <2> QED BY <2>4, <2>5
<1> QED BY <1>5, IndexStep

LEMMA NextIndexes ==
  ASSUME SchemaInv, IndexInv, [Next]_vars
  PROVE  IndexInv'
<1>1. CASE UNCHANGED <<info, dbs, entries, written>> BY <1>1, SameIndexes
<1>2. CASE MigrateCollection BY <1>2, MigrateIndexes
<1>3. CASE DeleteRemoved BY <1>3, DeleteIndexes
<1>4. CASE Writes
  <2>1. PICK c \in Collection, id \in Id :
          /\ phase = "open" /\ c \in DOMAIN cols /\ ~cols[c].embedded
          /\ \/ \E values \in Contents(c) : Put(c, id, values)
             \/ /\ id \in DOMAIN dbs[c]
                /\ \E n \in DOMAIN cols[c].props : \E value \in Values(cols[c].props[n].type) :
                     Update(c, id, n, value)
             \/ id \in DOMAIN dbs[c] /\ Delete(c, id)
             \/ Closed /\ UNCHANGED <<file, known>>
    BY <1>4, WriteCases
  <2>2. SchemaInv' BY NextSchemas
  <2>3. ASSUME NEW object, Store(c, id, object) PROVE IndexInv' BY <2>1, <2>2, <2>3, StoreIndexes
  <2>4. \A values : Put(c, id, values) => IndexInv' BY <2>3 DEF Put
  <2>5. \A n, value : Update(c, id, n, value) => IndexInv' BY <2>3 DEF Update
  <2>6. Delete(c, id) => IndexInv' BY <2>1, <2>2, RemoveIndexes
  <2> QED BY <1>1, <2>1, <2>4, <2>5, <2>6 DEF file, known
<1> QED BY <1>1, <1>2, <1>3, <1>4
      DEF Next, OpenStart, VersionError, Interrupted, Close, file, known, vars

\* An index lists exactly the objects that were written since it was made,
\* each under the key that the object has now, through every migration, put,
\* update and delete (migrate_collection, NativeIndex::put_key, delete_key).
THEOREM IndexesAgree == Spec => []IndexesListTheWritten
<1>1. ASSUME SchemaInv, IndexInv PROVE IndexesListTheWritten
  <2>1. ASSUME NEW x \in DOMAIN entries
        PROVE  entries[x] = {<<KeyOf(info[x[1]].props, IndexOf(x), dbs[x[1]][id]), id>> : id \in written[x]}
    BY <1>1 DEF IndexInv, Lists
  <2> QED BY <2>1 DEF IndexesListTheWritten, KeyOf, IndexOf, Reading
<1>2. Init => SchemaInv /\ IndexInv BY InitSchemas, InitIndexes
<1>3. SchemaInv /\ IndexInv /\ [Next]_vars => (SchemaInv /\ IndexInv)'
  BY NextSchemas, NextIndexes
<1> QED BY <1>1, <1>2, <1>3, PTL DEF Spec
=============================================================================
