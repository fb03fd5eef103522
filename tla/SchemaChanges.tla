---------------------------- MODULE SchemaChanges ----------------------------
(***************************************************************************)
(* Schemas of a collection, and IsarSchema::find_changes, with which both  *)
(* engines compare the schema an application opens with and the one that   *)
(* the database was left with.                                             *)
(*                                                                         *)
(* A schema is [props, indexes, ...]: the properties in order, each with   *)
(* its name (None once it was dropped) and its type, which stands for the  *)
(* data type and the target collection; and a set of indexes, each with    *)
(* its name, the names of its properties, and whether it is unique and     *)
(* hashed.                                                                 *)
(***************************************************************************)
EXTENDS Integers, Sequences

CONSTANT None    \* no name

Live(props) == {props[n].name : n \in DOMAIN props} \ {None}

TypeIn(props, name) == props[CHOOSE n \in DOMAIN props : props[n].name = name].type

\* The old property is gone, or has another type now.
DropProperties(new, old) ==
  {name \in Live(old.props) :
     name \in Live(new.props) => TypeIn(new.props, name) # TypeIn(old.props, name)}

\* The properties with one of these names, in their order.
Named(props, names) ==
  LET upTo[n \in 0..Len(props)] ==
        IF n = 0 THEN <<>>
        ELSE IF props[n].name \in names THEN Append(upTo[n - 1], props[n])
        ELSE upTo[n - 1]
  IN upTo[Len(props)]

\* First the properties with another type, in the old order, then the new
\* ones in the order of the new schema.
AddProperties(new, old) ==
  LET retyped == Named(old.props, Live(new.props) \cap DropProperties(new, old))
  IN [n \in DOMAIN retyped |-> [name |-> retyped[n].name,
                                type |-> TypeIn(new.props, retyped[n].name)]]
     \o Named(new.props, Live(new.props) \ Live(old.props))

Names(indexes) == {i.name : i \in indexes}

NamedIndex(indexes, name) == CHOOSE i \in indexes : i.name = name

Redefined(now, was) ==
  now.unique # was.unique \/ now.props # was.props \/ now.hash # was.hash

\* Mutant: an index whose property has another type now is kept.
KeepRetypedIndexes(new, old) ==
  {x \in old.indexes : x.name \in Names(new.indexes) =>
                       Redefined(NamedIndex(new.indexes, x.name), x)}

\* An index that is gone or defined differently, and one over a property
\* that was dropped or has another type now.
DropIndexes(new, old) ==
  {x \in old.indexes :
     x.name \in Names(new.indexes) =>
       LET now == NamedIndex(new.indexes, x.name)
       IN \/ Redefined(now, x)
          \/ \E n \in DOMAIN now.props : now.props[n] \in DropProperties(new, old)}

\* Mutant: only the indexes that are new.
AddNewIndexes(new, old) == {i \in new.indexes : i.name \notin Names(old.indexes)}

AddIndexes(new, old) ==
  {i \in new.indexes : i.name \in Names(old.indexes) => i.name \in Names(DropIndexes(new, old))}
=============================================================================
