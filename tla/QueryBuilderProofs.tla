------------------------- MODULE QueryBuilderProofs --------------------------
(***************************************************************************)
(* Proofs about the query builder, for chains and groups of any length and *)
(* depth.                                                                  *)
(***************************************************************************)
EXTENDS QueryBuilder, SequenceTheorems, TLAPS

Words == [or : BOOLEAN, meant : SUBSET Objects, open : BOOLEAN, lost : BOOLEAN]

Builders ==
  [kind : {"query", "group", "object", "items"}, filter : Filters \cup {None},
   filterGroupAnd : BOOLEAN, filterNot : BOOLEAN, after : BOOLEAN, said : Seq(Words)]

-----------------------------------------------------------------------------
(* The alternatives of a chain.                                            *)

\* An alternative begins at word m.
Starts(s, m) == m \in DOMAIN s /\ (m = 1 \/ s[m].or)

\* The object meets the alternative that begins at m.
Meets(s, m, object) ==
  \A n \in m..Len(s) : (\A k \in (m + 1)..n : ~s[k].or) => object \in s[n].meant

\* It is the last one.
Final(s, m) == Starts(s, m) /\ \A k \in (m + 1)..Len(s) : ~s[k].or

LastAlternative(s) == {object \in Objects : \E m \in DOMAIN s : Final(s, m) /\ Meets(s, m, object)}

Earlier(s) ==
  {object \in Objects : \E m \in DOMAIN s : Starts(s, m) /\ ~Final(s, m) /\ Meets(s, m, object)}

-----------------------------------------------------------------------------
(* The filter of a builder and what was said.                              *)

\* A group of alternatives is all that the chain has so far.
Leading(s) == Len(s) = 1 /\ s[1].open

\* All parts of a filter but the last.
Front(f) == {object \in Objects : \E n \in 1..(Len(f.parts) - 1) : object \in f.parts[n]}

\* The filter is the last alternative, or an Or with the last alternative as
\* its last part, which is where addFilterCondition adds to.
Matches(f, s) ==
  IF f.kind = "or"
  THEN \/ Leading(s) /\ Meaning(f) = Said(s)
       \/ Front(f) = Earlier(s) /\ f.parts[Len(f.parts)] = LastAlternative(s)
  ELSE Meaning(f) = LastAlternative(s) /\ Earlier(s) = {}

Good(q) ==
  /\ q \in Builders
  /\ q.filter = None <=> q.said = <<>>
  /\ q.filter # None => Len(q.filter.parts) > 0
  /\ q.filter # None => TakenApart(q.said) \/ Matches(q.filter, q.said)

IInv ==
  /\ conditions \in 0..MaxConditions
  /\ builders \in Seq(Builders) /\ Depth > 0
  /\ \A n \in DOMAIN builders : Good(builders[n])

-----------------------------------------------------------------------------
(* One more word.                                                          *)

LEMMA SaidIsAlternatives ==
  ASSUME NEW s \in Seq(Words)
  PROVE  Said(s) = LastAlternative(s) \cup Earlier(s)
<1>1. Said(s) = {object \in Objects : \E m \in DOMAIN s : Starts(s, m) /\ Meets(s, m, object)}
  BY DEF Said, Starts, Meets
<1>2. \A m : Final(s, m) => Starts(s, m)
  BY DEF Final
<1> QED BY <1>1, <1>2 DEF LastAlternative, Earlier

LEMMA AppendedWord ==
  ASSUME NEW s \in Seq(Words), NEW w \in Words
  PROVE  /\ Append(s, w) \in Seq(Words) /\ Len(Append(s, w)) = Len(s) + 1
         /\ DOMAIN Append(s, w) = 1..(Len(s) + 1) /\ DOMAIN s = 1..Len(s) /\ Len(s) \in Nat
         /\ \A n \in 1..Len(s) : Append(s, w)[n] = s[n]
         /\ Append(s, w)[Len(s) + 1] = w
OBVIOUS

LEMMA FirstWord ==
  ASSUME NEW w \in Words
  PROVE  /\ LastAlternative(Append(<<>>, w)) = w.meant
         /\ Earlier(Append(<<>>, w)) = {}
<1> DEFINE t == Append(<<>>, w)
<1>1. /\ Len(t) = 1 /\ DOMAIN t = {1} /\ t[1] = w
  OBVIOUS
<1>2. Final(t, 1)
  BY <1>1 DEF Final, Starts
<1>3. \A object : Meets(t, 1, object) <=> object \in w.meant
  BY <1>1 DEF Meets
<1>4. w.meant \subseteq Objects
  BY DEF Words
<1> HIDE DEF t
<1>5. LastAlternative(t) = w.meant
  BY <1>1, <1>2, <1>3, <1>4 DEF LastAlternative
<1>6. Earlier(t) = {}
  BY <1>1, <1>2 DEF Earlier
<1> QED BY <1>5, <1>6 DEF t

\* After or() a new alternative begins and the others are complete.
LEMMA OneMoreAlternative ==
  ASSUME NEW s \in Seq(Words), s # <<>>, NEW w \in Words, w.or
  PROVE  /\ LastAlternative(Append(s, w)) = w.meant
         /\ Earlier(Append(s, w)) = Said(s)
<1> DEFINE t == Append(s, w)  L == Len(s)
<1>1. /\ t \in Seq(Words) /\ Len(t) = L + 1 /\ DOMAIN t = 1..(L + 1) /\ DOMAIN s = 1..L /\ L \in Nat
      /\ \A n \in 1..L : t[n] = s[n]
      /\ t[L + 1] = w
  BY AppendedWord
<1>2. L > 0
  BY EmptySeq
<1> HIDE DEF t, L
<1>3. \A m \in 1..L : Starts(t, m) <=> Starts(s, m)
  BY <1>1 DEF Starts
<1>4. Final(t, L + 1)
  BY <1>1 DEF Final, Starts
<1>5. \A m \in 1..L : ~Final(t, m)
  <2>1. SUFFICES ASSUME NEW m \in 1..L PROVE \E k \in (m + 1)..Len(t) : t[k].or
    BY DEF Final
  <2> QED BY <1>1
<1>6. \A object : Meets(t, L + 1, object) <=> object \in w.meant
  BY <1>1 DEF Meets
<1>7. ASSUME NEW m \in 1..L, NEW object PROVE Meets(t, m, object) <=> Meets(s, m, object)
  <2>1. \A n \in m..L : (\A k \in (m + 1)..n : ~t[k].or) <=> (\A k \in (m + 1)..n : ~s[k].or)
    BY <1>1
  <2>2. ~(\A k \in (m + 1)..(L + 1) : ~t[k].or)
    BY <1>1
  <2> QED BY <1>1, <2>1, <2>2 DEF Meets, L
<1>8. w.meant \subseteq Objects
  BY DEF Words
<1>9. LastAlternative(t) = w.meant
  BY <1>1, <1>4, <1>5, <1>6, <1>8 DEF LastAlternative
<1>10. Earlier(t) = Said(s)
  <2>1. Said(s) = {object \in Objects : \E m \in DOMAIN s : Starts(s, m) /\ Meets(s, m, object)}
    BY DEF Said, Starts, Meets
  <2>2. Earlier(t) = {object \in Objects : \E m \in 1..L : Starts(t, m) /\ Meets(t, m, object)}
    BY <1>1, <1>4, <1>5 DEF Earlier
  <2> QED BY <1>1, <1>3, <1>7, <2>1, <2>2
<1> QED BY <1>9, <1>10 DEF t

\* Otherwise the last alternative is narrowed and the others stay.
LEMMA OneMoreCondition ==
  ASSUME NEW s \in Seq(Words), s # <<>>, NEW w \in Words, ~w.or
  PROVE  /\ LastAlternative(Append(s, w)) = LastAlternative(s) \cap w.meant
         /\ Earlier(Append(s, w)) = Earlier(s)
<1> DEFINE t == Append(s, w)  L == Len(s)
<1>1. /\ t \in Seq(Words) /\ Len(t) = L + 1 /\ DOMAIN t = 1..(L + 1) /\ DOMAIN s = 1..L /\ L \in Nat
      /\ \A n \in 1..L : t[n] = s[n]
      /\ t[L + 1] = w
  BY AppendedWord
<1>2. L > 0 /\ Len(s) = L
  BY EmptySeq
<1> HIDE DEF t, L
<1>3. \A m \in 1..L : Starts(t, m) <=> Starts(s, m)
  BY <1>1 DEF Starts
<1>4. ~Starts(t, L + 1)
  BY <1>1, <1>2 DEF Starts
<1>5. ASSUME NEW m \in 1..L PROVE Final(t, m) <=> Final(s, m)
  BY <1>1, <1>2, <1>3 DEF Final
<1>6. ASSUME NEW m \in 1..L, NEW n \in m..L
      PROVE  (\A k \in (m + 1)..n : ~t[k].or) <=> (\A k \in (m + 1)..n : ~s[k].or)
  BY <1>1
<1>7. ASSUME NEW m \in 1..L, Final(s, m), NEW object
      PROVE  Meets(t, m, object) <=> Meets(s, m, object) /\ object \in w.meant
  <2>1. \A k \in (m + 1)..(L + 1) : ~t[k].or
    BY <1>1, <1>2, <1>7 DEF Final
  <2> QED BY <1>1, <1>2, <1>6, <2>1 DEF Meets
<1>8. ASSUME NEW m \in 1..L, Starts(s, m), ~Final(s, m), NEW object
      PROVE  Meets(t, m, object) <=> Meets(s, m, object)
  <2>1. ~(\A k \in (m + 1)..(L + 1) : ~t[k].or)
    BY <1>1, <1>2, <1>8 DEF Final
  <2> QED BY <1>1, <1>2, <1>6, <2>1 DEF Meets
<1>9. LastAlternative(t) = LastAlternative(s) \cap w.meant
  <2>1. LastAlternative(t) = {object \in Objects : \E m \in 1..L : Final(t, m) /\ Meets(t, m, object)}
    BY <1>1, <1>4 DEF LastAlternative, Final
  <2> QED BY <1>1, <1>5, <1>7, <2>1 DEF LastAlternative
<1>10. Earlier(t) = Earlier(s)
  <2>1. Earlier(t) = {object \in Objects : \E m \in 1..L : Starts(t, m) /\ ~Final(t, m) /\ Meets(t, m, object)}
    BY <1>1, <1>4 DEF Earlier
  <2> QED BY <1>1, <1>3, <1>5, <1>8, <2>1 DEF Earlier
<1> QED BY <1>9, <1>10 DEF t

\* A chain with a group that is taken apart stays one, and becomes one when
\* and() follows the leading group.
LEMMA StaysTakenApart ==
  ASSUME NEW s \in Seq(Words), s # <<>>, NEW w \in Words,
         TakenApart(s) \/ w.lost \/ (Leading(s) /\ ~w.or)
  PROVE  TakenApart(Append(s, w))
<1> DEFINE t == Append(s, w)  L == Len(s)
<1>1. /\ t \in Seq(Words) /\ Len(t) = L + 1 /\ DOMAIN t = 1..(L + 1) /\ DOMAIN s = 1..L /\ L \in Nat
      /\ \A n \in 1..L : t[n] = s[n]
      /\ t[L + 1] = w
  BY AppendedWord
<1>2. L > 0 /\ Len(s) = L
  BY EmptySeq
<1> HIDE DEF t, L
<1>3. TakenApart(t)
  BY <1>1, <1>2 DEF TakenApart, Leading
<1> QED BY <1>3 DEF t

-----------------------------------------------------------------------------
(* Filters.                                                                *)

\* The three ways in which addFilterCondition makes g of f.
AddsPart(g, f, o) == g = [f EXCEPT !.parts = Append(@, o)]
Narrows(g, f, o) == g = [f EXCEPT !.parts[Len(f.parts)] = @ \cap o]
Pairs(g, kind, a, b) == g = [kind |-> kind, parts |-> <<a, b>>]

ObjectSets == SUBSET Objects

LEMMA MeaningOfSingle ==
  ASSUME NEW o \in SUBSET Objects
  PROVE  /\ Single(o) \in Filters /\ Len(Single(o).parts) = 1
         /\ Single(o).kind = "single" /\ Meaning(Single(o)) = o
<1>1. Single(o) \in Filters /\ Len(Single(o).parts) = 1 /\ Single(o).kind = "single"
  BY DEF Single, Filters
<1>2. Single(o).parts = <<o>>
  BY DEF Single
<1> QED BY <1>1, <1>2 DEF Meaning

LEMMA MeaningOfPair ==
  ASSUME NEW a \in ObjectSets, NEW b \in ObjectSets,
         NEW kind \in {"and", "or"}, NEW g, Pairs(g, kind, a, b)
  PROVE  /\ g \in Filters /\ g.kind = kind /\ Len(g.parts) = 2 /\ g.parts[2] = b
         /\ kind = "and" => Meaning(g) = a \cap b
         /\ Front(g) = a
<1> USE DEF ObjectSets
<1>1. /\ g.kind = kind /\ g.parts = <<a, b>>
      /\ g.parts \in Seq(SUBSET Objects) /\ Len(g.parts) = 2 /\ DOMAIN g.parts = {1, 2}
      /\ g.parts[1] = a /\ g.parts[2] = b
  BY DEF Pairs
<1>2. g \in Filters
  BY <1>1 DEF Filters, Pairs
<1>3. kind = "and" => Meaning(g) = a \cap b
  BY <1>1 DEF Meaning
<1>4. Front(g) = a
  <2>1. \A n : n \in 1..(Len(g.parts) - 1) <=> n = 1
    BY <1>1
  <2> QED BY <1>1, <2>1 DEF Front
<1> QED BY <1>1, <1>2, <1>3, <1>4

\* The objects that meet an Or are those of its last part and of the others.
LEMMA MeaningOfOr ==
  ASSUME NEW f \in Filters, f.kind = "or", Len(f.parts) > 0
  PROVE  Meaning(f) = Front(f) \cup f.parts[Len(f.parts)]
<1>1. f.parts \in Seq(SUBSET Objects) /\ Len(f.parts) \in Nat
  BY DEF Filters
<1>2. DOMAIN f.parts = 1..Len(f.parts) /\ f.parts[Len(f.parts)] \subseteq Objects
  BY <1>1
<1>3. \A n : n \in 1..Len(f.parts) <=> n \in 1..(Len(f.parts) - 1) \/ n = Len(f.parts)
  BY <1>1
<1> QED BY <1>2, <1>3 DEF Meaning, Front

LEMMA AppendedPart ==
  ASSUME NEW f \in Filters, NEW o \in ObjectSets,
         NEW g, AddsPart(g, f, o)
  PROVE  /\ g \in Filters /\ g.kind = f.kind /\ Len(g.parts) = Len(f.parts) + 1
         /\ g.parts[Len(g.parts)] = o
         /\ f.kind = "or" => Front(g) = Meaning(f)
         /\ f.kind # "or" => Meaning(g) = Meaning(f) \cap o
<1> USE DEF ObjectSets
<1> DEFINE L == Len(f.parts)
<1>1. f.parts \in Seq(SUBSET Objects) /\ L \in Nat /\ DOMAIN f.parts = 1..L
  BY DEF Filters
<1>2. g \in Filters /\ g.kind = f.kind /\ g.parts = Append(f.parts, o)
  <2>1. Append(f.parts, o) \in Seq(SUBSET Objects)
    BY <1>1
  <2>2. f = [kind |-> f.kind, parts |-> f.parts] /\ f.kind \in {"single", "and", "or"}
    BY DEF Filters
  <2>3. g = [kind |-> f.kind, parts |-> Append(f.parts, o)]
    BY <2>2 DEF AddsPart
  <2> QED BY <2>1, <2>2, <2>3 DEF Filters
<1>3. /\ Len(g.parts) = L + 1 /\ DOMAIN g.parts = 1..(L + 1)
      /\ \A n \in 1..L : g.parts[n] = f.parts[n]
      /\ g.parts[L + 1] = o
  BY <1>1, <1>2
<1> HIDE DEF L
<1>4. \A n : n \in 1..(L + 1) <=> n \in 1..L \/ n = L + 1
  BY <1>1
<1>5. ASSUME f.kind = "or" PROVE Front(g) = Meaning(f)
  <2>1. (L + 1) - 1 = L
    BY <1>1
  <2> QED BY <1>1, <1>3, <1>5, <2>1 DEF Front, Meaning
<1>6. ASSUME f.kind # "or" PROVE Meaning(g) = Meaning(f) \cap o
  BY <1>1, <1>2, <1>3, <1>4, <1>6 DEF Meaning
<1> QED BY <1>2, <1>3, <1>5, <1>6 DEF L

LEMMA NarrowedPart ==
  ASSUME NEW f \in Filters, Len(f.parts) > 0, NEW o \in ObjectSets,
         NEW g, Narrows(g, f, o)
  PROVE  /\ g \in Filters /\ g.kind = f.kind /\ Len(g.parts) = Len(f.parts)
         /\ g.parts[Len(g.parts)] = f.parts[Len(f.parts)] \cap o
         /\ Front(g) = Front(f)
<1> USE DEF ObjectSets
<1> DEFINE L == Len(f.parts)
<1>1. f.parts \in Seq(SUBSET Objects) /\ L \in Nat /\ DOMAIN f.parts = 1..L /\ L > 0
  BY DEF Filters
<1>2. g.kind = f.kind /\ g.parts = [f.parts EXCEPT ![L] = @ \cap o]
  BY <1>1 DEF Filters, Narrows
<1>3. f.parts[L] \cap o \in SUBSET Objects
  BY <1>1
<1>4. /\ g.parts \in Seq(SUBSET Objects) /\ Len(g.parts) = L
      /\ g.parts[L] = f.parts[L] \cap o
      /\ \A n \in 1..(L - 1) : g.parts[n] = f.parts[n]
  BY <1>1, <1>2, <1>3
<1>5. g \in Filters
  <2>1. f = [kind |-> f.kind, parts |-> f.parts] /\ f.kind \in {"single", "and", "or"}
    BY DEF Filters
  <2>2. g = [kind |-> f.kind, parts |-> g.parts]
    BY <2>1 DEF Narrows
  <2> QED BY <1>4, <2>1, <2>2 DEF Filters
<1> HIDE DEF L
<1>6. Front(g) = Front(f)
  BY <1>4 DEF Front, L
<1> QED BY <1>2, <1>4, <1>5, <1>6 DEF L

-----------------------------------------------------------------------------
(* The builder's step: one more part and one more word.                    *)

LEMMA MatchesIsSaid ==
  ASSUME NEW f \in Filters, Len(f.parts) > 0, NEW s \in Seq(Words), Matches(f, s)
  PROVE  Meaning(f) = Said(s)
BY SaidIsAlternatives, MeaningOfOr DEF Matches

LEMMA FirstPart ==
  ASSUME NEW f \in Filters, Len(f.parts) > 0, NEW w \in Words,
         Meaning(f) = w.meant, f.kind = "or" => w.open
  PROVE  Matches(f, Append(<<>>, w))
<1> DEFINE t == Append(<<>>, w)
<1>1. t \in Seq(Words) /\ Len(t) = 1 /\ t[1] = w
  OBVIOUS
<1>2. LastAlternative(t) = w.meant /\ Earlier(t) = {}
  BY FirstWord
<1> HIDE DEF t
<1>3. Said(t) = w.meant
  BY <1>1, <1>2, SaidIsAlternatives
<1>4. Matches(f, t)
  BY <1>1, <1>2, <1>3 DEF Matches, Leading
<1> QED BY <1>4 DEF t

LEMMA MeaningIsObjects ==
  ASSUME NEW f
  PROVE  Meaning(f) \in ObjectSets
BY DEF Meaning, ObjectSets

LEMMA OneMorePart ==
  ASSUME NEW q \in Builders, q.filter # None, Len(q.filter.parts) > 0, q.said # <<>>,
         Matches(q.filter, q.said),
         NEW f \in Filters, Len(f.parts) > 0,
         NEW w \in Words, w.or = ~q.filterGroupAnd, Meaning(f) = w.meant
  PROVE  /\ Joined(q, f) \in Filters /\ Len(Joined(q, f).parts) > 0
         /\ \/ Leading(q.said) /\ ~w.or
            \/ Matches(Joined(q, f), Append(q.said, w))
<1> SUFFICES ASSUME NEW new, new = Joined(q, f), NEW t, t = Append(q.said, w)
             PROVE  /\ new \in Filters /\ Len(new.parts) > 0
                    /\ (Leading(q.said) /\ ~w.or) \/ Matches(new, t)
  OBVIOUS
<1> DEFINE old == q.filter  s == q.said
<1>1. old \in Filters /\ s \in Seq(Words) /\ Len(old.parts) \in Nat /\ Len(old.parts) > 0
  BY DEF Builders, Filters
<1>2. Meaning(old) = Said(s)
  BY <1>1, MatchesIsSaid
<1>3. Meaning(old) \in ObjectSets /\ Meaning(f) \in ObjectSets
  BY MeaningIsObjects
<1> HIDE DEF old, s
<1>4. CASE ~q.filterGroupAnd /\ old.kind = "or"
  <2>1. AddsPart(new, old, Meaning(f))
    BY <1>4 DEF Joined, AddsPart, Narrows, Pairs, old
  <2>2. /\ new \in Filters /\ new.kind = "or" /\ Len(new.parts) = Len(old.parts) + 1
        /\ new.parts[Len(new.parts)] = Meaning(f) /\ Front(new) = Meaning(old)
    BY <1>1, <1>3, <1>4, <2>1, AppendedPart
  <2>3. LastAlternative(t) = w.meant /\ Earlier(t) = Said(s)
    BY <1>1, <1>4, OneMoreAlternative DEF s
  <2> QED BY <1>1, <1>2, <2>2, <2>3 DEF Matches, old, s
<1>5. CASE ~q.filterGroupAnd /\ old.kind # "or"
  <2>1. Pairs(new, "or", Meaning(old), Meaning(f))
    BY <1>5 DEF Joined, AddsPart, Narrows, Pairs, old
  <2>2. /\ new \in Filters /\ Len(new.parts) = 2 /\ Front(new) = Meaning(old)
        /\ new.kind = "or" /\ new.parts[Len(new.parts)] = Meaning(f)
    BY <1>3, <2>1, MeaningOfPair
  <2>3. LastAlternative(t) = w.meant /\ Earlier(t) = Said(s)
    BY <1>1, <1>5, OneMoreAlternative DEF s
  <2> QED BY <1>1, <1>2, <2>2, <2>3 DEF Matches, old, s
<1>6. CASE q.filterGroupAnd /\ old.kind = "or"
  <2>1. Narrows(new, old, Meaning(f))
    BY <1>6 DEF Joined, AddsPart, Narrows, Pairs, old
  <2>2. /\ new \in Filters /\ new.kind = "or" /\ Len(new.parts) = Len(old.parts)
        /\ new.parts[Len(new.parts)] = old.parts[Len(old.parts)] \cap Meaning(f)
        /\ Front(new) = Front(old)
    BY <1>1, <1>3, <1>6, <2>1, NarrowedPart
  <2>3. LastAlternative(t) = LastAlternative(s) \cap w.meant /\ Earlier(t) = Earlier(s)
    BY <1>1, <1>6, OneMoreCondition DEF s
  <2> QED BY <1>6, <2>2, <2>3 DEF Matches, old, s
<1>7. CASE q.filterGroupAnd /\ old.kind = "and"
  <2>1. AddsPart(new, old, Meaning(f))
    BY <1>7 DEF Joined, AddsPart, Narrows, Pairs, old
  <2>2. /\ new \in Filters /\ new.kind = "and" /\ Len(new.parts) = Len(old.parts) + 1
        /\ Meaning(new) = Meaning(old) \cap Meaning(f)
    BY <1>1, <1>3, <1>7, <2>1, AppendedPart
  <2>3. LastAlternative(t) = LastAlternative(s) \cap w.meant /\ Earlier(t) = Earlier(s)
    BY <1>1, <1>7, OneMoreCondition DEF s
  <2> QED BY <1>1, <1>7, <2>2, <2>3 DEF Matches, old, s
<1>8. CASE q.filterGroupAnd /\ old.kind = "single"
  <2>1. Pairs(new, "and", Meaning(old), Meaning(f))
    BY <1>8 DEF Joined, AddsPart, Narrows, Pairs, old
  <2>2. /\ new \in Filters /\ new.kind = "and" /\ Len(new.parts) = 2
        /\ Meaning(new) = Meaning(old) \cap Meaning(f)
    BY <1>3, <2>1, MeaningOfPair
  <2>3. LastAlternative(t) = LastAlternative(s) \cap w.meant /\ Earlier(t) = Earlier(s)
    BY <1>1, <1>8, OneMoreCondition DEF s
  <2> QED BY <1>8, <2>2, <2>3 DEF Matches, old, s
<1>9. old.kind \in {"single", "and", "or"} /\ q.filterGroupAnd \in BOOLEAN
  BY <1>1 DEF Filters, Builders
<1> QED BY <1>4, <1>5, <1>6, <1>7, <1>8, <1>9

\* Whatever is joined, the result is a filter with a part.
LEMMA JoinedIsFilter ==
  ASSUME NEW q \in Builders, q.filter # None => Len(q.filter.parts) > 0,
         NEW f \in Filters, Len(f.parts) > 0
  PROVE  Joined(q, f) \in Filters /\ Len(Joined(q, f).parts) > 0
<1> SUFFICES ASSUME NEW new, new = Joined(q, f), NEW old, old = q.filter
             PROVE  new \in Filters /\ Len(new.parts) > 0
  OBVIOUS
<1>1. CASE old = None
  BY <1>1 DEF Joined
<1>2. CASE old # None
  <2>1. old \in Filters /\ Len(old.parts) \in Nat /\ Len(old.parts) > 0
    BY <1>2 DEF Builders, Filters
  <2>2. Meaning(old) \in ObjectSets /\ Meaning(f) \in ObjectSets
    BY MeaningIsObjects
  <2>3. CASE Narrows(new, old, Meaning(f))
    BY <2>1, <2>2, <2>3, NarrowedPart
  <2>4. CASE AddsPart(new, old, Meaning(f))
    BY <2>1, <2>2, <2>4, AppendedPart
  <2>5. CASE \E kind \in {"and", "or"} : Pairs(new, kind, Meaning(old), Meaning(f))
    <3>1. PICK kind \in {"and", "or"} : Pairs(new, kind, Meaning(old), Meaning(f))
      BY <2>5
    <3> QED BY <2>2, <3>1, MeaningOfPair
  <2>6. \/ Narrows(new, old, Meaning(f))
        \/ AddsPart(new, old, Meaning(f))
        \/ \E kind \in {"and", "or"} : Pairs(new, kind, Meaning(old), Meaning(f))
    BY <1>2 DEF Joined, AddsPart, Narrows, Pairs
  <2> QED BY <2>3, <2>4, <2>5, <2>6
<1> QED BY <1>1, <1>2

LEMMA GoodAfterPart ==
  ASSUME NEW q, Good(q), NEW f \in Filters, Len(f.parts) > 0,
         NEW w \in Words, w.or = ~q.filterGroupAnd,
         w.lost \/ (Meaning(f) = w.meant /\ (f.kind = "or" => w.open)),
         NEW r \in Builders, r.filter = Joined(q, f), r.said = Append(q.said, w)
  PROVE  Good(r)
<1>1. q \in Builders /\ q.said \in Seq(Words) /\ (q.filter = None <=> q.said = <<>>)
  BY DEF Good, Builders
<1>2. r.filter \in Filters /\ Len(r.filter.parts) > 0
  BY <1>1, JoinedIsFilter DEF Good
<1>3. r.filter # None
  BY <1>2, BuilderAssumption
<1>4. r.said \in Seq(Words) /\ r.said # <<>> /\ r.said[Len(q.said) + 1] = w
      /\ Len(q.said) + 1 \in DOMAIN r.said
  BY <1>1, AppendedWord
<1>5. TakenApart(r.said) \/ Matches(r.filter, r.said)
  <2>1. CASE w.lost
    BY <1>4, <2>1 DEF TakenApart
  <2>2. CASE ~w.lost /\ q.filter = None
    <3>1. r.filter = f /\ r.said = Append(<<>>, w)
      BY <1>1, <2>2 DEF Joined
    <3> QED BY <2>2, <3>1, FirstPart
  <2>3. CASE ~w.lost /\ q.filter # None /\ TakenApart(q.said)
    BY <1>1, <2>3, StaysTakenApart
  <2>4. CASE ~w.lost /\ q.filter # None /\ ~TakenApart(q.said)
    <3>1. Matches(q.filter, q.said) /\ Len(q.filter.parts) > 0
      BY <2>4 DEF Good
    <3>2. (Leading(q.said) /\ ~w.or) \/ Matches(r.filter, r.said)
      BY <1>1, <2>4, <3>1, OneMorePart
    <3> QED BY <1>1, <2>4, <3>2, StaysTakenApart
  <2> QED BY <2>1, <2>2, <2>3, <2>4
<1> QED BY <1>2, <1>3, <1>4, <1>5 DEF Good

\* addFilterCondition keeps a builder good when the part means what was
\* written, or a group in it was taken apart.
LEMMA GoodAfterCondition ==
  ASSUME NEW q, Good(q), NEW f \in Filters, Len(f.parts) > 0,
         NEW meant \in SUBSET Objects, NEW open \in BOOLEAN, NEW lost \in BOOLEAN,
         lost \/ Meaning(f) = meant, f.kind = "or" => open
  PROVE  Good(addFilterCondition(q, f, Word(q, meant, open, lost)))
<1> DEFINE w == Word(q, meant, open, lost)
           g == IF q.filterNot THEN NotGroup(f) ELSE f
           r == addFilterCondition(q, f, w)
<1>1. q \in Builders /\ q.filterNot \in BOOLEAN /\ q.filterGroupAnd \in BOOLEAN /\ q.said \in Seq(Words)
  BY DEF Good, Builders
<1>2. w \in Words /\ w.or = ~q.filterGroupAnd /\ w.lost = lost
  BY <1>1 DEF Word, Words
<1>3. g \in Filters /\ Len(g.parts) > 0
  <2>1. NotGroup(f) \in Filters /\ Len(NotGroup(f).parts) = 1
    BY MeaningOfSingle DEF NotGroup
  <2> QED BY <2>1
<1>4. w.lost \/ (Meaning(g) = w.meant /\ (g.kind = "or" => w.open))
  <2>1. CASE q.filterNot
    <3>1. g = Single(Objects \ Meaning(f)) /\ w.meant = Objects \ meant
      BY <2>1 DEF NotGroup, Word
    <3>2. g.kind = "single" /\ Meaning(g) = Objects \ Meaning(f)
      BY <3>1, MeaningOfSingle
    <3> QED BY <1>2, <3>1, <3>2
  <2>2. CASE ~q.filterNot
    BY <1>2, <2>2 DEF Word
  <2> QED BY <2>1, <2>2
<1>5. r.filter = Joined(q, g) /\ r.said = Append(q.said, w)
  BY <1>1 DEF addFilterCondition, Builders
<1>6. r \in Builders
  <2>1. Joined(q, g) \in Filters
    BY <1>1, <1>3, JoinedIsFilter DEF Good
  <2>2. Append(q.said, w) \in Seq(Words)
    BY <1>1, <1>2, AppendedWord
  <2> QED BY <1>1, <2>1, <2>2 DEF addFilterCondition, Builders
<1> HIDE DEF w, g, r
<1>7. Good(r)
  BY <1>2, <1>3, <1>4, <1>5, <1>6, GoodAfterPart
<1> QED BY <1>7 DEF r, w

LEMMA NewBuilderIsGood ==
  ASSUME NEW kind \in {"query", "group", "object", "items"}
  PROVE  Good(Builder(kind))
BY DEF Good, Builder, Builders

\* Only the operator, not and the state of the chain differ.
LEMMA SameFilterIsGood ==
  ASSUME NEW q, Good(q), NEW r \in Builders, r.filter = q.filter, r.said = q.said
  PROVE  Good(r)
BY DEF Good

-----------------------------------------------------------------------------
(* The steps.                                                              *)

LEMMA IInvInit == Init => IInv
<1> SUFFICES ASSUME Init PROVE IInv
  OBVIOUS
<1>1. Good(Builder("query")) /\ Builder("query") \in Builders
  BY NewBuilderIsGood DEF Good
<1>2. builders = <<Builder("query")>> /\ conditions = 0
  BY DEF Init
<1>3. builders \in Seq(Builders) /\ Len(builders) = 1 /\ DOMAIN builders = {1}
      /\ builders[1] = Builder("query")
  BY <1>1, <1>2
<1> QED BY <1>1, <1>2, <1>3, BuilderAssumption DEF IInv, Depth

LEMMA CurrentIsGood ==
  ASSUME IInv
  PROVE  /\ Depth \in DOMAIN builders /\ DOMAIN builders = 1..Depth /\ Depth \in Nat
         /\ Good(Current) /\ Current \in Builders
<1>1. Depth \in DOMAIN builders /\ DOMAIN builders = 1..Depth /\ Depth \in Nat
  BY DEF IInv, Depth
<1> QED BY <1>1 DEF IInv, Current, Good

\* A step that changes the innermost builder.
LEMMA ChangeKeepsGood ==
  ASSUME IInv, NEW q, Good(q), Change(q), conditions' \in 0..MaxConditions
  PROVE  IInv'
<1>1. q \in Builders
  BY DEF Good
<1>2. builders' = [builders EXCEPT ![Depth] = q]
  BY DEF Change
<1>3. builders \in Seq(Builders) /\ Depth \in 1..Len(builders)
  BY CurrentIsGood DEF IInv, Depth
<1>4. /\ builders' \in Seq(Builders) /\ Len(builders') = Len(builders)
      /\ DOMAIN builders' = DOMAIN builders
      /\ builders'[Depth] = q
      /\ \A n \in DOMAIN builders : n # Depth => builders'[n] = builders[n]
  BY <1>1, <1>2, <1>3
<1>5. \A n \in DOMAIN builders' : Good(builders'[n])
  BY <1>4 DEF IInv
<1> QED BY <1>4, <1>5 DEF IInv, Depth

LEMMA AddConditionStep == IInv /\ AddCondition => IInv'
<1> SUFFICES ASSUME IInv, AddCondition PROVE IInv'
  OBVIOUS
<1> DEFINE f == Condition(conditions + 1)
           q == addFilterCondition(Current, f, Word(Current, Meaning(f), FALSE, FALSE))
<1>1. f \in Filters /\ Len(f.parts) = 1 /\ f.kind = "single"
  BY MeaningOfSingle DEF Condition
<1>2. Meaning(f) \in SUBSET Objects
  BY DEF Meaning
<1>3. Good(Current)
  BY CurrentIsGood
<1>4. Change(q)
  BY DEF AddCondition
<1>5. conditions' \in 0..MaxConditions
  BY BuilderAssumption DEF AddCondition, IInv
<1> HIDE DEF f
<1>6. Good(q)
  <2>1. Len(f.parts) > 0 /\ (f.kind = "or" => FALSE) /\ FALSE \in BOOLEAN
    BY <1>1
  <2> QED BY <1>1, <1>2, <1>3, <2>1, GoodAfterCondition
<1> HIDE DEF q
<1> QED BY <1>4, <1>5, <1>6, ChangeKeepsGood

LEMMA OperatorStep == IInv /\ (And \/ Or \/ Not) => IInv'
<1> SUFFICES ASSUME IInv, And \/ Or \/ Not PROVE IInv'
  OBVIOUS
<1>1. Good(Current) /\ Current \in Builders
  BY CurrentIsGood
<1>2. PICK and \in BOOLEAN, not \in BOOLEAN :
        Change([Current EXCEPT !.filterGroupAnd = and, !.filterNot = not, !.after = FALSE])
  <2>1. /\ Current.filterGroupAnd \in BOOLEAN /\ Current.filterNot \in BOOLEAN
        /\ Current = [Current EXCEPT !.filterGroupAnd = Current.filterGroupAnd]
        /\ Current = [Current EXCEPT !.filterNot = Current.filterNot]
    BY <1>1 DEF Builders
  <2>2. CASE And
    <3>1. [Current EXCEPT !.filterGroupAnd = TRUE, !.after = FALSE]
            = [Current EXCEPT !.filterGroupAnd = TRUE, !.filterNot = Current.filterNot, !.after = FALSE]
      BY <1>1 DEF Builders
    <3> QED BY <2>1, <2>2, <3>1 DEF And
  <2>3. CASE Or
    <3>1. [Current EXCEPT !.filterGroupAnd = FALSE, !.after = FALSE]
            = [Current EXCEPT !.filterGroupAnd = FALSE, !.filterNot = Current.filterNot, !.after = FALSE]
      BY <1>1 DEF Builders
    <3> QED BY <2>1, <2>3, <3>1 DEF Or
  <2>4. CASE Not
    <3>1. [Current EXCEPT !.filterNot = ~@, !.after = FALSE]
            = [Current EXCEPT !.filterGroupAnd = Current.filterGroupAnd, !.filterNot = ~Current.filterNot,
                              !.after = FALSE]
      BY <1>1 DEF Builders
    <3> QED BY <2>1, <2>4, <3>1 DEF Not
  <2> QED BY <2>2, <2>3, <2>4
<1> DEFINE q == [Current EXCEPT !.filterGroupAnd = and, !.filterNot = not, !.after = FALSE]
<1>3. q \in Builders /\ q.filter = Current.filter /\ q.said = Current.said
  BY <1>1 DEF Builders
<1>4. Change(q) /\ conditions' \in 0..MaxConditions
  BY <1>2 DEF And, Or, Not, IInv
<1> HIDE DEF q
<1>5. Good(q)
  BY <1>1, <1>3, SameFilterIsGood
<1> QED BY <1>4, <1>5, ChangeKeepsGood

LEMMA OpenGroupStep ==
  ASSUME IInv, NEW kind \in {"group", "object", "items"}, OpenGroup(kind)
  PROVE  IInv'
<1> DEFINE b == Builder(kind)
<1>1. Good(b) /\ b \in Builders
  BY NewBuilderIsGood DEF Good
<1>2. builders' = Append(builders, b) /\ conditions' = conditions
  BY DEF OpenGroup
<1>3. builders \in Seq(Builders)
  BY DEF IInv
<1> HIDE DEF b
<1>4. /\ builders' \in Seq(Builders) /\ Len(builders') = Len(builders) + 1 /\ Len(builders) \in Nat
      /\ DOMAIN builders' = 1..(Len(builders) + 1) /\ DOMAIN builders = 1..Len(builders)
      /\ builders'[Len(builders) + 1] = b
      /\ \A n \in 1..Len(builders) : builders'[n] = builders[n]
  BY <1>1, <1>2, <1>3
<1>5. \A n \in DOMAIN builders' : Good(builders'[n])
  BY <1>1, <1>4 DEF IInv
<1>6. Len(builders') > 0 /\ conditions' \in 0..MaxConditions
  BY <1>2, <1>4 DEF IInv
<1> QED BY <1>4, <1>5, <1>6 DEF IInv, Depth

LEMMA CloseGroupStep == IInv /\ CloseGroup => IInv'
<1> SUFFICES ASSUME IInv, CloseGroup PROVE IInv'
  OBVIOUS
<1> DEFINE inner == Current
           outer == builders[Depth - 1]
           f == IF inner.kind = "object" THEN Single(Meaning(inner.filter)) ELSE inner.filter
           word == Word(outer, Said(inner.said), f.kind = "or", TakenApart(inner.said))
           closed == IF inner.filter = None THEN [outer EXCEPT !.after = TRUE]
                     ELSE addFilterCondition(outer, f, word)
<1>1. /\ Depth \in Nat /\ Depth > 1 /\ DOMAIN builders = 1..Depth /\ Depth = Len(builders)
      /\ builders \in Seq(Builders)
  BY CurrentIsGood DEF CloseGroup, IInv, Depth
<1>2. Good(inner) /\ inner \in Builders /\ Good(outer) /\ outer \in Builders
  BY <1>1, CurrentIsGood DEF IInv, Good
<1>3. builders' = Append(SubSeq(builders, 1, Depth - 2), closed) /\ conditions' = conditions
  BY DEF CloseGroup
<1> HIDE DEF inner, outer
<1>4. Good(closed)
  <2>1. CASE inner.filter = None
    <3>1. closed = [outer EXCEPT !.after = TRUE]
      BY <2>1
    <3>2. closed \in Builders /\ closed.filter = outer.filter /\ closed.said = outer.said
      BY <1>2, <3>1 DEF Builders
    <3> HIDE DEF closed
    <3> QED BY <1>2, <3>2, SameFilterIsGood
  <2>2. CASE inner.filter # None
    <3>1. inner.filter \in Filters /\ inner.said \in Seq(Words) /\ Len(inner.filter.parts) > 0
      BY <1>2, <2>2 DEF Good, Builders
    <3>2. TakenApart(inner.said) \/ Meaning(inner.filter) = Said(inner.said)
      BY <1>2, <2>2, <3>1, MatchesIsSaid DEF Good
    <3>3. Meaning(inner.filter) \in SUBSET Objects /\ Said(inner.said) \in SUBSET Objects
      BY DEF Meaning, Said
    <3>4. f \in Filters /\ Len(f.parts) > 0 /\ Meaning(f) = Meaning(inner.filter)
      <4> DEFINE g == Single(Meaning(inner.filter))
      <4>1. g \in Filters /\ Len(g.parts) = 1 /\ Meaning(g) = Meaning(inner.filter)
        BY <3>3, MeaningOfSingle
      <4> HIDE DEF g
      <4>2. CASE inner.kind = "object"
        <5>1. f = g
          BY <4>2 DEF g
        <5> HIDE DEF f
        <5> QED BY <4>1, <5>1
      <4>3. CASE inner.kind # "object"
        BY <3>1, <4>3
      <4> QED BY <4>2, <4>3
    <3>5. TakenApart(inner.said) \in BOOLEAN /\ (f.kind = "or") \in BOOLEAN
      BY DEF TakenApart
    <3>6. closed = addFilterCondition(outer, f, word)
      BY <2>2
    <3> HIDE DEF f, closed
    <3> QED BY <1>2, <3>2, <3>3, <3>4, <3>5, <3>6, GoodAfterCondition
  <2> QED BY <2>1, <2>2
<1>5. closed \in Builders
  BY <1>4 DEF Good
<1> HIDE DEF closed
<1> DEFINE rest == SubSeq(builders, 1, Depth - 2)
<1>6. rest \in Seq(Builders) /\ Len(rest) = Depth - 2 /\ \A n \in 1..(Depth - 2) : rest[n] = builders[n]
  BY <1>1
<1>7. builders' = Append(rest, closed)
  BY <1>3
<1> HIDE DEF rest
<1>8. /\ builders' \in Seq(Builders) /\ Len(builders') = Depth - 1 /\ DOMAIN builders' = 1..(Depth - 1)
      /\ builders'[Depth - 1] = closed
      /\ \A n \in 1..(Depth - 2) : builders'[n] = builders[n]
  <2>1. Depth - 2 \in Nat /\ (Depth - 2) + 1 = Depth - 1
    BY <1>1
  <2>2. /\ Append(rest, closed) \in Seq(Builders) /\ Len(Append(rest, closed)) = Len(rest) + 1
        /\ Append(rest, closed)[Len(rest) + 1] = closed
        /\ \A n \in 1..Len(rest) : Append(rest, closed)[n] = rest[n]
    BY <1>5, <1>6
  <2>3. Len(builders') = Depth - 1 /\ builders' \in Seq(Builders)
    BY <1>6, <1>7, <2>1, <2>2
  <2> QED BY <1>6, <1>7, <2>1, <2>2, <2>3
<1>9. \A n \in DOMAIN builders' : Good(builders'[n])
  <2>1. ASSUME NEW n \in 1..(Depth - 2) PROVE Good(builders'[n])
    BY <1>1, <1>8 DEF IInv
  <2> QED BY <1>1, <1>4, <1>8, <2>1
<1>10. Len(builders') > 0 /\ conditions' \in 0..MaxConditions
  <2>1. conditions' \in 0..MaxConditions
    BY <1>3 DEF IInv
  <2> QED BY <1>1, <1>8, <2>1
<1> QED BY <1>8, <1>9, <1>10 DEF IInv, Depth

LEMMA IInvStep == IInv /\ [Next]_vars => IInv'
<1> SUFFICES ASSUME IInv, [Next]_vars PROVE IInv'
  OBVIOUS
<1>1. CASE AddCondition
  BY <1>1, AddConditionStep
<1>2. CASE And \/ Or \/ Not
  BY <1>2, OperatorStep
<1>3. CASE \E kind \in {"group", "object", "items"} : OpenGroup(kind)
  BY <1>3, OpenGroupStep
<1>4. CASE CloseGroup
  BY <1>4, CloseGroupStep
<1>5. CASE UNCHANGED vars
  BY <1>5 DEF IInv, vars, Depth
<1> QED BY <1>1, <1>2, <1>3, <1>4, <1>5 DEF Next

\* The filter the fluent builder has put together at any moment means what
\* was written, in chains and nested groups of any length and depth, unless a
\* leading group of alternatives is taken apart by and() (addFilterCondition,
\* group, and the operators of the query builder).
THEOREM ChainsMeanWhatTheySay == Spec => []PrecedenceHolds
<1>1. IInv => PrecedenceHolds
  <2> SUFFICES ASSUME IInv, NEW n \in DOMAIN builders, ~TakenApart(builders[n].said),
                      builders[n].filter # None
               PROVE  Meaning(builders[n].filter) = Said(builders[n].said)
    BY DEF PrecedenceHolds, Agrees
  <2>1. Good(builders[n])
    BY DEF IInv
  <2>2. /\ builders[n].filter \in Filters /\ builders[n].said \in Seq(Words)
        /\ Len(builders[n].filter.parts) > 0 /\ Matches(builders[n].filter, builders[n].said)
    BY <2>1 DEF Good, Builders
  <2> QED BY <2>2, MatchesIsSaid
<1> QED BY <1>1, IInvInit, IInvStep, PTL DEF Spec
=============================================================================
