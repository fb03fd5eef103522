---------------------------- MODULE QueryBuilder -----------------------------
(***************************************************************************)
(* The fluent query builder: how a chain of conditions, and(), or(), not() *)
(* and groups becomes one filter.  There is a builder for the query and    *)
(* one for every group that is open; a group's filter is added to the      *)
(* builder around it when the group's callback returns.                    *)
(*                                                                         *)
(* Conditions are numbered in the order they are written and no two are    *)
(* the same.  A filter is known by the objects that meet it, and an object *)
(* by the conditions it meets; of a filter's structure only the kind of    *)
(* its root and the parts below the root matter to the builder.            *)
(***************************************************************************)
EXTENDS Integers, Sequences

CONSTANTS
  None,
  MaxConditions,   \* bound on the conditions of a chain
  MaxDepth         \* bound on the builders that are open at once

VARIABLES
  builders,        \* the builder of the query, then those of the open groups
  conditions       \* how many conditions are written

vars == <<builders, conditions>>

-----------------------------------------------------------------------------
(* Filters.                                                                *)

Objects == SUBSET (1..MaxConditions)

Filters == [kind : {"single", "and", "or"}, parts : Seq(SUBSET Objects)]

ASSUME BuilderAssumption ==
  MaxConditions \in Nat /\ MaxDepth \in Nat \ {0} /\ None \notin Filters

Single(objects) == [kind |-> "single", parts |-> <<objects>>]

\* What the engine makes of And and Or.
Meaning(f) ==
  {object \in Objects :
     IF f.kind = "or" THEN \E n \in DOMAIN f.parts : object \in f.parts[n]
                      ELSE \A n \in DOMAIN f.parts : object \in f.parts[n]}

Condition(n) == Single({object \in Objects : n \in object})

NotGroup(f) == Single(Objects \ Meaning(f))

-----------------------------------------------------------------------------
(* Builders.  kind is "query", "group", "object" (a group of conditions on *)
(* an embedded object) or "items" (anyOf and allOf); after tells whether a *)
(* condition is complete, so that and() and or() may follow; said is what  *)
(* the programmer wrote and is no state of the program.                    *)

Builder(kind) ==
  [kind           |-> kind,
   filter         |-> None,
   filterGroupAnd |-> TRUE,
   filterNot      |-> FALSE,
   after          |-> kind = "items",
   said           |-> <<>>]

\* Mutant: and binds to everything that is there.
JoinedToAll(q, f) ==
  LET old == q.filter
      root == IF q.filterGroupAnd THEN "and" ELSE "or"
  IN CASE old = None -> f
       [] old # None /\ old.kind = root ->
            [old EXCEPT !.parts = Append(@, Meaning(f))]
       [] OTHER -> [kind |-> root, parts |-> <<Meaning(old), Meaning(f)>>]

\* The filter that q has with one more part, joined by the last operator: and
\* binds the part to the last alternative.
Joined(q, f) ==
  LET old == q.filter
      root == IF q.filterGroupAnd THEN "and" ELSE "or"
  IN CASE old = None -> f
       [] old # None /\ q.filterGroupAnd /\ old.kind = "or" ->
            [old EXCEPT !.parts[Len(old.parts)] = @ \cap Meaning(f)]
       [] old # None /\ old.kind = root ->
            [old EXCEPT !.parts = Append(@, Meaning(f))]
       [] OTHER -> [kind |-> root, parts |-> <<Meaning(old), Meaning(f)>>]

\* What was written: the operator before the part, and the part's meaning.
\* open: the part is a group and, without not, an Or at its root; lost: a
\* group inside it was taken apart.
Word(q, meant, open, lost) ==
  [or    |-> ~q.filterGroupAnd,
   meant |-> IF q.filterNot THEN Objects \ meant ELSE meant,
   open  |-> open /\ ~q.filterNot,
   lost  |-> lost]

addFilterCondition(q, f, word) ==
  [q EXCEPT !.filter = Joined(q, IF q.filterNot THEN NotGroup(f) ELSE f),
            !.filterGroupAnd = TRUE,
            !.filterNot = FALSE,
            !.after = TRUE,
            !.said = Append(@, word)]

Depth == Len(builders)
Current == builders[Depth]

Change(q) == builders' = [builders EXCEPT ![Depth] = q]

-----------------------------------------------------------------------------
Init == builders = <<Builder("query")>> /\ conditions = 0

AddCondition ==
  /\ conditions < MaxConditions
  /\ conditions' = conditions + 1
  /\ LET f == Condition(conditions + 1)
     IN Change(addFilterCondition(Current, f, Word(Current, Meaning(f), FALSE, FALSE)))

And ==
  /\ Current.after
  /\ Change([Current EXCEPT !.filterGroupAnd = TRUE, !.after = FALSE])
  /\ UNCHANGED conditions

Or ==
  /\ Current.after
  /\ Change([Current EXCEPT !.filterGroupAnd = FALSE, !.after = FALSE])
  /\ UNCHANGED conditions

Not ==
  /\ Change([Current EXCEPT !.filterNot = ~@, !.after = FALSE])
  /\ UNCHANGED conditions

\* group, object, and anyOf or allOf, whose callback gets a builder to which
\* it applies or() or and() before every item.
OpenGroup(kind) ==
  /\ Depth < MaxDepth
  /\ builders' = Append(builders, Builder(kind))
  /\ UNCHANGED conditions

\* The objects that meet what was written: some alternative between two or()
\* is met in all its parts.
Said(said) ==
  {object \in Objects :
     \E m \in DOMAIN said :
       /\ m = 1 \/ said[m].or
       /\ \A n \in m..Len(said) :
            (\A k \in (m + 1)..n : ~said[k].or) => object \in said[n].meant}

\* A group at the start, an Or at its root, is followed by and().
TakenApart(said) ==
  \/ Len(said) > 1 /\ said[1].open /\ ~said[2].or
  \/ \E n \in DOMAIN said : said[n].lost

\* The group's callback returns.  A group without conditions (anyOf of no
\* items) leaves the builder around it as it is.
CloseGroup ==
  /\ Depth > 1 /\ Current.after
  /\ LET inner == Current
         outer == builders[Depth - 1]
         f == IF inner.kind = "object" THEN Single(Meaning(inner.filter)) ELSE inner.filter
         word == Word(outer, Said(inner.said), f.kind = "or", TakenApart(inner.said))
         closed == IF inner.filter = None THEN [outer EXCEPT !.after = TRUE]
                   ELSE addFilterCondition(outer, f, word)
     IN builders' = Append(SubSeq(builders, 1, Depth - 2), closed)
  /\ UNCHANGED conditions

Next ==
  \/ AddCondition \/ And \/ Or \/ Not
  \/ \E kind \in {"group", "object", "items"} : OpenGroup(kind)
  \/ CloseGroup

Spec == Init /\ [][Next]_vars

-----------------------------------------------------------------------------
(* Properties.                                                             *)

Agrees(q) == q.filter = None \/ Meaning(q.filter) = Said(q.said)

\* The filter of every builder means what was written: not applies to the
\* next condition or group, and binds more than or, and a group is one part
\* (addFilterCondition, group).  Left out are the chains that begin with a
\* group of alternatives followed by and(): the next condition joins the last
\* alternative.
PrecedenceHolds ==
  \A n \in DOMAIN builders : Agrees(builders[n]) \/ TakenApart(builders[n].said)
=============================================================================
